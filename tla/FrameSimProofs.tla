--------------------------- MODULE FrameSimProofs ---------------------------
(***************************************************************************)
(* The recomputation of frames, for every code, every class hierarchy and    *)
(* every run of the method: frames only grow, and the limits hold.           *)
(***************************************************************************)
EXTENDS FrameSim, Induction, FiniteSetTheorems

-----------------------------------------------------------------------------
(* Superclass chains. *)

\* The next class on the way up.
Step(r, x) == IF x # NoClass /\ Knows(r, x) THEN SuperOf(r, x) ELSE NoClass

Resolver(r) ==
    /\ IsFiniteSet(DOMAIN r)
    /\ \A c \in DOMAIN r : r[c] \in (Classes \ Arrays) \cup {NoClass}

Height(r) == Cardinality(DOMAIN r) + 2

LEMMA StepIsName ==
    ASSUME NEW r, Resolver(r), NEW x
    PROVE  Step(r, x) \in (Classes \ Arrays) \cup {NoClass}
BY DEF Step, Resolver, Knows, SuperOf

LEMMA HeightIsNat ==
    ASSUME NEW r, Resolver(r) PROVE Height(r) \in Nat /\ Height(r) >= 2
<1>1. Cardinality(DOMAIN r) \in Nat
  BY FS_CardinalityType DEF Resolver
<1> QED BY <1>1 DEF Height

LEMMA ClimbFacts ==
    ASSUME NEW r, Resolver(r), NEW c \in Classes
    PROVE  /\ Climb(r, c) \in [0..Height(r) -> Classes \cup {NoClass}]
           /\ Climb(r, c)[0] = c
           /\ \A k \in 1..Height(r) : Climb(r, c)[k] = Step(r, Climb(r, c)[k - 1])
<1> DEFINE n == Height(r)
           V == Classes \cup {NoClass}
           step == [i \in 1..n |-> [s \in V |-> Step(r, s)]]
           Fits(f) == f = [k \in 0..n |-> IF k = 0 THEN c
                                          ELSE IF f[k - 1] # NoClass /\ Knows(r, f[k - 1])
                                               THEN SuperOf(r, f[k - 1]) ELSE NoClass]
           up == CHOOSE f : Fits(f)
<1>1. n \in Nat /\ n >= 2
  BY HeightIsNat
<1>2. c \in V /\ \A s \in V : Step(r, s) \in V
  BY StepIsName
<1>3. step \in [1..n -> [V -> V]] /\ \A i \in 1..n, s \in V : step[i][s] = Step(r, s)
  <2> HIDE DEF n, V
  <2> QED BY <1>2
<1> HIDE DEF step, n, V
<1>4. PICK f \in [0..n -> V] : Recursive(n, c, step, f)
  BY <1>1, <1>2, <1>3, Recursion
<1>5. ASSUME NEW i \in 1..n PROVE f[i] = Step(r, f[i - 1])
  <2>1. i - 1 \in 0..n
    BY <1>1
  <2>2. f[i - 1] \in V
    BY <2>1, <1>4
  <2> QED BY <2>2, <1>3, <1>4 DEF Recursive
<1>6. Fits(f)
  <2>1. \A i \in 0..n : i = 0 \/ i \in 1..n
    BY <1>1
  <2>2. f = [k \in 0..n |-> f[k]]
    BY <1>4
  <2>3. \A k \in 0..n : f[k] = IF k = 0 THEN c ELSE Step(r, f[k - 1])
    BY <2>1, <1>4, <1>5 DEF Recursive
  <2> QED BY <2>2, <2>3 DEF Step
<1>7. Fits(up)
  <2> HIDE DEF Fits
  <2> QED BY <1>6
<1>8. up[0] = c /\ DOMAIN up = 0..n /\ up = [k \in 0..n |-> up[k]]
  <2> HIDE DEF up
  <2> QED BY <1>1, <1>7
<1>9. \A k \in 1..n : up[k] = Step(r, up[k - 1])
  <2> HIDE DEF up
  <2> QED BY <1>1, <1>7 DEF Step
<1>10. \A k \in 0..n : up[k] \in V
  <2> HIDE DEF up
  <2>1. \A k \in 1..n : up[k] \in V
    BY <1>9, StepIsName DEF V
  <2>2. \A k \in 0..n : k = 0 \/ k \in 1..n
    BY <1>1
  <2> QED BY <2>1, <2>2, <1>2, <1>8
<1>11. Climb(r, c) = up
  BY DEF Climb, n, Height
<1> HIDE DEF up
<1> QED BY <1>8, <1>9, <1>10, <1>11 DEF n, V

LEMMA ClimbEnds ==
    ASSUME NEW r, Resolver(r), NEW c \in Classes, NEW e \in 0..Height(r), Climb(r, c)[e] = NoClass
    PROVE  \A k \in 0..Height(r) : e <= k => Climb(r, c)[k] = NoClass
<1> DEFINE n == Height(r)
           up == Climb(r, c)
           T == {k \in 0..(n - e) : up[e + k] = NoClass}
<1>1. n \in Nat /\ e \in Nat /\ n - e \in Nat
  BY HeightIsNat
<1>2. up[e] = NoClass /\ \A k \in 1..n : up[k] = Step(r, up[k - 1])
  BY ClimbFacts
<1>3. Step(r, NoClass) = NoClass
  BY DEF Step
<1> HIDE DEF n, up
<1>4. 0 \in T
  BY <1>1, <1>2
<1>5. ASSUME NEW k \in 1..(n - e), k - 1 \in T PROVE k \in T
  <2>1. e + k \in 1..n /\ (e + k) - 1 = e + (k - 1) /\ k \in 0..(n - e)
    BY <1>1
  <2> QED BY <2>1, <1>2, <1>3, <1>5
<1>6. 0..(n - e) \subseteq T
  <2> DEFINE d == n - e
  <2> HIDE DEF T, d
  <2>1. d \in Nat /\ \A k \in 1..d : k - 1 \in T => k \in T
    BY <1>1, <1>5 DEF d
  <2>2. 0..d \subseteq T
    BY <2>1, <1>4, UpTo
  <2> QED BY <2>2 DEF d
<1>7. ASSUME NEW k \in 0..n, e <= k PROVE up[k] = NoClass
  <2>1. k - e \in 0..(n - e) /\ e + (k - e) = k
    BY <1>1, <1>7
  <2> QED BY <2>1, <1>6
<1> QED BY <1>7 DEF n, up

\* The chain of a class on a chain is what remains of it.
LEMMA ClimbFrom ==
    ASSUME NEW r, Resolver(r), NEW c \in Classes, NEW m \in 0..Height(r), Climb(r, c)[m] \in Classes
    PROVE  \A k \in 0..(Height(r) - m) : Climb(r, Climb(r, c)[m])[k] = Climb(r, c)[m + k]
<1> DEFINE n == Height(r)
           up == Climb(r, c)
           x == up[m]
           rest == Climb(r, x)
           d == n - m
           T == {k \in 0..d : rest[k] = up[m + k]}
<1>1. n \in Nat /\ m \in Nat /\ d \in Nat
  BY HeightIsNat
<1>2. \A k \in 1..n : up[k] = Step(r, up[k - 1])
  BY ClimbFacts
<1>3. x \in Classes
  OBVIOUS
<1>4. rest[0] = x /\ \A k \in 1..n : rest[k] = Step(r, rest[k - 1])
  <2> HIDE DEF x
  <2> QED BY <1>3, ClimbFacts
<1> HIDE DEF n, up, rest
<1>5. 0 \in T
  BY <1>1, <1>4
<1>6. ASSUME NEW k \in 1..d, k - 1 \in T PROVE k \in T
  <2>1. k \in 1..n /\ m + k \in 1..n /\ (m + k) - 1 = m + (k - 1) /\ k \in 0..d
    BY <1>1
  <2>2. rest[k - 1] = up[m + (k - 1)]
    BY <1>6
  <2>3. rest[k] = up[m + k]
    BY <2>1, <2>2, <1>2, <1>4
  <2> QED BY <2>1, <2>3
<1>7. 0..d \subseteq T
  <2> HIDE DEF T, d
  <2> QED BY <1>1, <1>5, <1>6, UpTo
<1> QED BY <1>7 DEF n, up, rest

\* A chain without an unknown class that comes to an end.
Resolves(r, c) ==
    /\ \E k \in 0..Height(r) : Climb(r, c)[k] = NoClass
    /\ \A k \in 0..Height(r) : Climb(r, c)[k] # NoClass => Knows(r, Climb(r, c)[k])

\* A class and those above it.
Ups(r, c) == ({Climb(r, c)[k] : k \in 0..Height(r)} \ {NoClass}) \cup {Object}

LEMMA EndOfChain ==
    ASSUME NEW r, Resolver(r), NEW c \in Classes, Resolves(r, c)
    PROVE  \E e \in 1..Height(r) :
              /\ \A k \in 0..Height(r) : Climb(r, c)[k] # NoClass <=> k < e
              /\ Cardinality({k \in DOMAIN Climb(r, c) : Climb(r, c)[k] # NoClass}) = e
<1> DEFINE n == Height(r)
           up == Climb(r, c)
           S == {k \in 0..n : up[k] = NoClass}
<1>1. n \in Nat /\ DOMAIN up = 0..n /\ up[0] = c
  BY HeightIsNat, ClimbFacts
<1>2. S # {} /\ S \in SUBSET Nat
  BY <1>1 DEF Resolves
<1>3. PICK e \in S : \A k \in S : e <= k
  <2> HIDE DEF S
  <2> QED BY <1>2, LeastNumber
<1>4. e \in 1..n
  BY <1>1, <1>3, ClassNames
<1>5. \A k \in 0..n : up[k] # NoClass <=> k < e
  BY <1>1, <1>3, ClimbEnds
<1>6. {k \in DOMAIN up : up[k] # NoClass} = 0..(e - 1)
  BY <1>1, <1>4, <1>5
<1>7. Cardinality(0..(e - 1)) = e
  BY <1>1, <1>4, FS_Interval
<1> QED BY <1>4, <1>5, <1>6, <1>7

LEMMA SuperclassesFacts ==
    ASSUME NEW r, Resolver(r), NEW c \in Classes
    PROVE  /\ iter_superclasses(r, c) # {} <=> Resolves(r, c)
           /\ \A l \in iter_superclasses(r, c) :
                 /\ iter_superclasses(r, c) = {l}
                 /\ l \in Seq(Classes)
                 /\ {c} \cup {l[k] : k \in DOMAIN l} = Ups(r, c)
<1> DEFINE n == Height(r)
           up == Climb(r, c)
           met == {k \in DOMAIN up : up[k] # NoClass}
           last == Cardinality(met) - 1
           above == [k \in 1..last |-> up[k]]
<1>1. /\ n \in Nat /\ DOMAIN up = 0..n /\ up[0] = c
      /\ \A k \in 0..n : up[k] \in Classes \cup {NoClass}
  BY HeightIsNat, ClimbFacts
<1>2. ((\E k \in met : ~Knows(r, up[k])) \/ met = DOMAIN up) <=> ~Resolves(r, c)
  BY <1>1 DEF Resolves
<1>3. iter_superclasses(r, c) = IF ~Resolves(r, c) THEN {} ELSE IF up[last] = Object THEN {above}
                                ELSE {Append(above, Object)}
  BY <1>2 DEF iter_superclasses
<1>4. SUFFICES ASSUME Resolves(r, c)
               PROVE  \E l : /\ iter_superclasses(r, c) = {l}
                             /\ l \in Seq(Classes)
                             /\ {c} \cup {l[k] : k \in DOMAIN l} = Ups(r, c)
  <2> HIDE DEF up, last, above
  <2> QED BY <1>3
<1>5. PICK e \in 1..n : /\ \A k \in 0..n : up[k] # NoClass <=> k < e
                        /\ Cardinality(met) = e
  BY <1>4, EndOfChain
<1>6. last = e - 1 /\ last \in 0..n /\ last \in Nat
  BY <1>1, <1>5
<1> HIDE DEF up, n, met, last
<1>7. above \in Seq(Classes) /\ Len(above) = last /\ DOMAIN above = 1..last
  <2>1. \A k \in 1..last : k \in 0..n /\ up[k] # NoClass
    BY <1>1, <1>5, <1>6
  <2> QED BY <2>1, <1>1, <1>6
<1>8. {c} \cup {above[k] : k \in 1..last} = {up[k] : k \in 0..n} \ {NoClass}
  <2>1. \A k \in 1..last : k \in 0..n /\ up[k] # NoClass
    BY <1>1, <1>5, <1>6
  <2>2. \A k \in 0..n : up[k] # NoClass => k = 0 \/ k \in 1..last
    BY <1>1, <1>5, <1>6
  <2>3. 0 \in 0..n /\ up[0] # NoClass
    BY <1>1, <1>5
  <2> QED BY <2>1, <2>2, <2>3, <1>1
<1>9. {c} \cup {above[k] : k \in 1..last} \cup {Object} = Ups(r, c)
  BY <1>8 DEF Ups, up, n
<1>10. CASE up[last] = Object
  <2>1. Object \in {up[k] : k \in 0..n} \ {NoClass}
    BY <1>5, <1>6, <1>10
  <2>2. iter_superclasses(r, c) = {above}
    BY <1>3, <1>4, <1>10
  <2> HIDE DEF above
  <2>3. {c} \cup {above[k] : k \in 1..last} = Ups(r, c)
    BY <2>1, <1>8, <1>9
  <2> QED BY <2>2, <2>3, <1>7
<1>11. CASE up[last] # Object
  <2> DEFINE l == Append(above, Object)
  <2> HIDE DEF above
  <2>1. l \in Seq(Classes) /\ DOMAIN l = 1..(last + 1)
    BY <1>6, <1>7, ClassNames
  <2>2. l[last + 1] = Object /\ \A k \in 1..last : l[k] = above[k]
    BY <1>6, <1>7
  <2>3. \A k \in 1..(last + 1) : k = last + 1 \/ k \in 1..last
    BY <1>6
  <2>4. 1..last \subseteq 1..(last + 1) /\ last + 1 \in 1..(last + 1)
    BY <1>6
  <2>5. {c} \cup {l[k] : k \in 1..(last + 1)} = {c} \cup {above[k] : k \in 1..last} \cup {Object}
    <3> HIDE DEF l
    <3> QED BY <2>2, <2>3, <2>4
  <2>6. iter_superclasses(r, c) = {l}
    BY <1>3, <1>4, <1>11
  <2> QED BY <2>1, <2>5, <2>6, <1>9
<1> QED BY <1>10, <1>11

LEMMA ObjectIsLast ==
    ASSUME NEW r, Resolver(r)
    PROVE  Resolves(r, Object) /\ Ups(r, Object) = {Object}
<1> DEFINE n == Height(r)
           up == Climb(r, Object)
<1>1. n \in Nat /\ 1 \in 1..n /\ 0 \in 0..n /\ 1 \in 0..n
  BY HeightIsNat
<1>2. Object \in Classes /\ Object # NoClass
  BY ClassNames
<1>3. up[0] = Object /\ up[1] = Step(r, up[0])
  <2>1. \A k \in 1..n : up[k] = Step(r, up[k - 1])
    BY <1>2, ClimbFacts
  <2>2. up[0] = Object
    BY <1>2, ClimbFacts
  <2>3. 1 - 1 = 0
    OBVIOUS
  <2> QED BY <2>1, <2>2, <2>3, <1>1
<1>4. up[1] = NoClass
  BY <1>2, <1>3 DEF Step, Knows, SuperOf
<1>5. \A k \in 0..n : 1 <= k => up[k] = NoClass
  BY <1>1, <1>2, <1>4, ClimbEnds
<1>6. \A k \in 0..n : k = 0 \/ 1 <= k
  BY <1>1
<1>7. \A k \in 0..n : up[k] # NoClass => up[k] = Object
  BY <1>3, <1>5, <1>6
<1>8. Knows(r, Object)
  BY DEF Knows
<1> QED BY <1>1, <1>4, <1>7, <1>8 DEF Resolves, Ups

LEMMA UpsFrom ==
    ASSUME NEW r, Resolver(r), NEW c \in Classes, Resolves(r, c), NEW x \in Ups(r, c)
    PROVE  x \in Classes /\ Resolves(r, x) /\ Ups(r, x) \subseteq Ups(r, c)
<1> DEFINE n == Height(r)
           up == Climb(r, c)
<1>1. /\ n \in Nat /\ up[0] = c
      /\ \A k \in 0..n : up[k] \in Classes \cup {NoClass}
  BY HeightIsNat, ClimbFacts
<1>2. PICK e \in 1..n : \A k \in 0..n : up[k] # NoClass <=> k < e
  BY EndOfChain
<1>3. CASE x = Object
  BY <1>3, ObjectIsLast, ClassNames DEF Ups
<1>4. CASE x # Object
  <2>1. PICK m \in 0..n : up[m] = x /\ x # NoClass
    BY <1>4 DEF Ups
  <2>2. x \in Classes
    BY <1>1, <2>1
  <2> DEFINE rest == Climb(r, x)
  <2>3. \A k \in 0..(n - m) : rest[k] = up[m + k]
    <3>1. \A k \in 0..(Height(r) - m) : Climb(r, Climb(r, c)[m])[k] = Climb(r, c)[m + k]
      BY <2>1, <2>2, ClimbFrom
    <3> QED BY <3>1, <2>1
  <2>4. m < e /\ e - m \in 0..(n - m) /\ e - m \in 0..n /\ m + (e - m) = e
    BY <1>1, <1>2, <2>1
  <2> HIDE DEF rest, up, n
  <2>5. rest[e - m] = NoClass
    BY <1>1, <1>2, <2>3, <2>4
  <2>6. \A k \in 0..n : e - m <= k => rest[k] = NoClass
    BY <2>2, <2>4, <2>5, ClimbEnds DEF rest, n
  <2>7. \A k \in 0..n : rest[k] # NoClass => \E j \in 0..n : rest[k] = up[j]
    <3> SUFFICES ASSUME NEW k \in 0..n, rest[k] # NoClass PROVE \E j \in 0..n : rest[k] = up[j]
      OBVIOUS
    <3>1. k < e - m
      BY <1>1, <2>4, <2>6
    <3>2. k \in 0..(n - m) /\ m + k \in 0..n
      BY <1>1, <2>4, <3>1
    <3> QED BY <2>3, <3>2
  <2>8. Resolves(r, x)
    <3>1. \A k \in 0..n : up[k] # NoClass => Knows(r, up[k])
      BY DEF Resolves, up, n
    <3>2. \A k \in 0..n : rest[k] # NoClass => Knows(r, rest[k])
      BY <2>7, <3>1
    <3>3. \E k \in 0..n : rest[k] = NoClass
      BY <2>4, <2>5
    <3> QED BY <3>2, <3>3 DEF Resolves, rest, n
  <2>9. Ups(r, x) \subseteq Ups(r, c)
    BY <2>7 DEF Ups, rest, up, n
  <2> QED BY <2>2, <2>8, <2>9
<1> QED BY <1>3, <1>4

\* The first of a chain that is in a set.
LEMMA FirstIn ==
    ASSUME NEW m \in Nat, NEW ups, DOMAIN ups = 1..m, NEW D, \E k \in 1..m : ups[k] \in D
    PROVE  \E k \in 1..m :
              /\ ups[k] \in D /\ \A j \in 1..(k - 1) : ups[j] \notin D
              /\ \A i \in 1..m : ups[i] \in D /\ (\A j \in 1..(i - 1) : ups[j] \notin D) => i = k
<1> DEFINE S == {k \in 1..m : ups[k] \in D}
<1>1. S # {} /\ S \in SUBSET Nat
  OBVIOUS
<1>2. PICK k \in S : \A j \in S : k <= j
  <2> HIDE DEF S
  <2> QED BY <1>1, LeastNumber
<1>3. \A j \in 1..(k - 1) : ups[j] \notin D
  BY <1>2
<1>4. ASSUME NEW i \in 1..m, ups[i] \in D, \A j \in 1..(i - 1) : ups[j] \notin D PROVE i = k
  <2>1. k <= i
    BY <1>2, <1>4
  <2>2. ~(k \in 1..(i - 1))
    BY <1>2, <1>4
  <2> QED BY <2>1, <2>2
<1> QED BY <1>2, <1>3, <1>4

\* A class and those above it in order.
Path(r, c) == <<c>> \o (CHOOSE l : l \in iter_superclasses(r, c))

LEMMA PathFacts ==
    ASSUME NEW r, Resolver(r), NEW c \in Classes, Resolves(r, c)
    PROVE  /\ Path(r, c) \in Seq(Classes) /\ Path(r, c)[1] = c
           /\ {Path(r, c)[k] : k \in DOMAIN Path(r, c)} = Ups(r, c)
           /\ \A l \in iter_superclasses(r, c) : <<c>> \o l = Path(r, c)
<1>1. PICK l : /\ iter_superclasses(r, c) = {l} /\ l \in Seq(Classes)
               /\ {c} \cup {l[k] : k \in DOMAIN l} = Ups(r, c)
  BY SuperclassesFacts
<1> DEFINE ups == <<c>> \o l
           m == Len(l) + 1
<1>2. Path(r, c) = ups
  BY <1>1 DEF Path
<1>3. /\ m \in Nat /\ DOMAIN ups = 1..m /\ ups[1] = c /\ ups \in Seq(Classes)
      /\ \A k \in 1..Len(l) : ups[k + 1] = l[k]
  BY <1>1
<1>4. \A k \in 1..m : k = 1 \/ (k - 1 \in 1..Len(l) /\ (k - 1) + 1 = k)
  BY <1>1
<1>5. \A k \in 1..Len(l) : k + 1 \in 1..m
  BY <1>1
<1>6. DOMAIN l = 1..Len(l) /\ 1 \in 1..m
  BY <1>1
<1> HIDE DEF ups, m
<1>7. \A k \in 1..m : ups[k] = c \/ \E i \in 1..Len(l) : ups[k] = l[i]
  BY <1>3, <1>4
<1>8. \A i \in 1..Len(l) : \E k \in 1..m : ups[k] = l[i]
  BY <1>3, <1>5
<1>9. {ups[k] : k \in DOMAIN ups} = {c} \cup {l[k] : k \in DOMAIN l}
  <2>1. {ups[k] : k \in 1..m} \subseteq {c} \cup {l[k] : k \in 1..Len(l)}
    BY <1>7
  <2>2. {c} \cup {l[k] : k \in 1..Len(l)} \subseteq {ups[k] : k \in 1..m}
    BY <1>3, <1>6, <1>8
  <2> QED BY <2>1, <2>2, <1>3, <1>6
<1>10. \A s \in iter_superclasses(r, c) : <<c>> \o s = ups
  BY <1>1 DEF ups
<1> QED BY ZenonT(40), <1>1, <1>2, <1>3, <1>9, <1>10

IsFirst(ups, D, k) ==
    k \in DOMAIN ups /\ ups[k] \in D /\ \A j \in 1..(k - 1) : ups[j] \notin D

LEMMA NothingShared ==
    ASSUME NEW r, NEW left, NEW right, left # right, left \notin Arrays, right \notin Arrays,
           iter_superclasses(r, left) = {} \/ iter_superclasses(r, right) = {}
    PROVE  common_superclass(r, left, right) = {}
<1>1. CASE iter_superclasses(r, left) = {}
  BY <1>1 DEF common_superclass
<1>2. CASE iter_superclasses(r, right) = {}
  BY <1>2 DEF common_superclass
<1> QED BY <1>1, <1>2

LEMMA CommonFacts ==
    ASSUME NEW r, Resolver(r), NEW left \in Classes, NEW right \in Classes,
           left # right, left \notin Arrays, right \notin Arrays
    PROVE  /\ ~(Resolves(r, left) /\ Resolves(r, right)) => common_superclass(r, left, right) = {}
           /\ Resolves(r, left) /\ Resolves(r, right) =>
                 /\ \E k : IsFirst(Path(r, left), Ups(r, right), k)
                 /\ \A k : IsFirst(Path(r, left), Ups(r, right), k)
                              => common_superclass(r, left, right) = {Path(r, left)[k]}
<1>1. CASE ~(Resolves(r, left) /\ Resolves(r, right))
  <2>1. iter_superclasses(r, left) = {} \/ iter_superclasses(r, right) = {}
    BY <1>1, SuperclassesFacts
  <2> QED BY <2>1, <1>1, NothingShared
<1>2. CASE Resolves(r, left) /\ Resolves(r, right)
  <2>1. PICK l : l \in iter_superclasses(r, left) /\ iter_superclasses(r, left) = {l}
    <3>1. iter_superclasses(r, left) # {}
      BY <1>2, SuperclassesFacts
    <3>2. \A l \in iter_superclasses(r, left) : iter_superclasses(r, left) = {l}
      BY SuperclassesFacts
    <3> QED BY <3>1, <3>2
  <2>2. PICK s : /\ iter_superclasses(r, right) = {s}
                 /\ {right} \cup {s[k] : k \in DOMAIN s} = Ups(r, right)
    BY <1>2, SuperclassesFacts
  <2> DEFINE ups == Path(r, left)
             D == Ups(r, right)
             m == Len(ups)
             first == CHOOSE k \in DOMAIN ups : ups[k] \in D /\ \A j \in 1..(k - 1) : ups[j] \notin D
  <2>3. <<left>> \o l = ups
    BY <1>2, <2>1, PathFacts
  <2>4. common_superclass(r, left, right) = {ups[first]}
    <3>1. common_superclass(r, left, right) = {FirstShared(<<left>> \o l, {right} \cup {s[k] : k \in DOMAIN s})}
      BY <2>1, <2>2 DEF common_superclass
    <3>2. common_superclass(r, left, right) = {FirstShared(ups, D)}
      BY <2>2, <2>3, <3>1
    <3> QED BY <3>2 DEF FirstShared
  <2>5. m \in Nat /\ DOMAIN ups = 1..m /\ {ups[k] : k \in DOMAIN ups} = Ups(r, left)
    <3>1. ups \in Seq(Classes)
      BY <1>2, PathFacts
    <3> HIDE DEF ups
    <3>2. m \in Nat /\ DOMAIN ups = 1..m
      BY <3>1
    <3> QED BY <3>2, <1>2, PathFacts DEF ups
  <2>6. Object \in D /\ Object \in Ups(r, left)
    BY DEF Ups
  <2> HIDE DEF ups, D, m
  <2>7. \E k \in 1..m : ups[k] \in D
    BY <2>5, <2>6
  <2>8. PICK k \in 1..m : /\ ups[k] \in D /\ \A j \in 1..(k - 1) : ups[j] \notin D
                          /\ \A i \in 1..m : ups[i] \in D /\ (\A j \in 1..(i - 1) : ups[j] \notin D) => i = k
    BY <2>5, <2>7, FirstIn
  <2>9. first = k
    BY <2>5, <2>8
  <2> HIDE DEF first
  <2>10. IsFirst(ups, D, k) /\ \A i : IsFirst(ups, D, i) => i = k
    BY <2>5, <2>8 DEF IsFirst
  <2> QED BY <1>2, <2>4, <2>9, <2>10 DEF ups, D
<1> QED BY <1>1, <1>2

LEMMA UpsHasSelf ==
    ASSUME NEW r, Resolver(r), NEW c \in Classes PROVE c \in Ups(r, c)
<1>1. Climb(r, c)[0] = c /\ 0 \in 0..Height(r)
  BY HeightIsNat, ClimbFacts
<1> QED BY <1>1, ClassNames DEF Ups

\* The classes above a class are no arrays.
LEMMA AboveIsNoArray ==
    ASSUME NEW r, Resolver(r), NEW c \in Classes, NEW x \in Ups(r, c), x # c, x # Object
    PROVE  x \notin Arrays
<1>1. PICK k \in 0..Height(r) : x = Climb(r, c)[k] /\ x # NoClass
  BY DEF Ups
<1>2. k \in 1..Height(r)
  BY <1>1, HeightIsNat, ClimbFacts
<1>3. x = Step(r, Climb(r, c)[k - 1])
  BY <1>1, <1>2, ClimbFacts
<1> QED BY <1>1, <1>3, StepIsName

LEMMA OneResolver ==
    ASSUME resolver \in Resolvers, NEW r \in resolver
    PROVE  /\ Resolver(r)
           /\ \A x, y : /\ common_superclass(r, x, y) = {} => Joined(x, y) = Object
                        /\ \A c : common_superclass(r, x, y) = {c} => Joined(x, y) = c
<1>1. Resolver(r) /\ resolver = {r}
  BY ResolverShapes DEF Resolver
<1>2. \A x, y : UNION {common_superclass(s, x, y) : s \in resolver} = common_superclass(r, x, y)
  BY <1>1
<1> QED BY <1>1, <1>2 DEF Joined

LEMMA JoinedWithObject ==
    ASSUME resolver \in Resolvers, NEW c \in Classes, c # Object
    PROVE  Joined(c, Object) = Object
<1>1. CASE resolver = {}
  BY <1>1 DEF Joined
<1>2. CASE resolver # {}
  <2>1. PICK r \in resolver : TRUE
    BY <1>2
  <2>2. /\ Resolver(r)
        /\ \A x, y : /\ common_superclass(r, x, y) = {} => Joined(x, y) = Object
                     /\ \A a : common_superclass(r, x, y) = {a} => Joined(x, y) = a
    BY OneResolver
  <2>3. CASE c \in Arrays \/ Object \in Arrays
    <3>1. common_superclass(r, c, Object) = {Object}
      BY <2>3 DEF common_superclass
    <3> QED BY <2>2, <3>1
  <2>4. CASE c \notin Arrays /\ Object \notin Arrays
    <3>1. Object \in Classes
      BY ClassNames
    <3>2. CASE Resolves(r, c) /\ Resolves(r, Object)
      <4>1. PICK k : IsFirst(Path(r, c), Ups(r, Object), k)
        BY <2>2, <2>4, <3>1, <3>2, CommonFacts
      <4>2. common_superclass(r, c, Object) = {Path(r, c)[k]}
        BY <2>2, <2>4, <3>1, <3>2, <4>1, CommonFacts
      <4>3. Path(r, c)[k] = Object
        BY <2>2, <4>1, ObjectIsLast DEF IsFirst
      <4> QED BY <2>2, <4>2, <4>3
    <3>3. CASE ~(Resolves(r, c) /\ Resolves(r, Object))
      <4>1. common_superclass(r, c, Object) = {}
        BY <2>2, <2>4, <3>1, <3>3, CommonFacts
      <4> QED BY <2>2, <4>1
    <3> QED BY <3>2, <3>3
  <2> QED BY <2>3, <2>4
<1> QED BY <1>1, <1>2

\* Joining is idempotent: joined with the common superclass, a class gives that.
LEMMA JoinedFacts ==
    ASSUME resolver \in Resolvers, NEW left \in Classes, NEW right \in Classes, left # right
    PROVE  /\ Joined(left, right) \in Classes
           /\ Joined(left, right) # left => Joined(left, Joined(left, right)) = Joined(left, right)
<1>0. Object \in Classes
  BY ClassNames
<1>1. CASE Joined(left, right) = Object
  BY <1>0, <1>1, JoinedWithObject
<1>2. CASE Joined(left, right) # Object
  <2>1. resolver # {}
    BY <1>2 DEF Joined
  <2>2. PICK r \in resolver : TRUE
    BY <2>1
  <2>3. /\ Resolver(r)
        /\ \A x, y : /\ common_superclass(r, x, y) = {} => Joined(x, y) = Object
                     /\ \A a : common_superclass(r, x, y) = {a} => Joined(x, y) = a
    BY OneResolver
  <2>4. left \notin Arrays /\ right \notin Arrays
    <3>1. left \in Arrays \/ right \in Arrays => common_superclass(r, left, right) = {Object}
      BY DEF common_superclass
    <3> QED BY <3>1, <2>3, <1>2
  <2>5. Resolves(r, left) /\ Resolves(r, right)
    BY <1>2, <2>3, <2>4, CommonFacts
  <2>6. PICK k : IsFirst(Path(r, left), Ups(r, right), k)
    BY <2>3, <2>4, <2>5, CommonFacts
  <2> DEFINE c == Path(r, left)[k]
  <2>7. Joined(left, right) = c
    <3>1. common_superclass(r, left, right) = {c}
      BY <2>3, <2>4, <2>5, <2>6, CommonFacts
    <3> QED BY <3>1, <2>3
  <2>8. c \in Ups(r, right) /\ c \in Ups(r, left)
    <3>1. k \in DOMAIN Path(r, left) /\ c \in Ups(r, right)
      BY <2>6 DEF IsFirst
    <3>2. {Path(r, left)[j] : j \in DOMAIN Path(r, left)} = Ups(r, left)
      BY <2>3, <2>5, PathFacts
    <3> QED BY <3>1, <3>2
  <2>9. c \in Classes /\ Resolves(r, c) /\ Ups(r, c) \subseteq Ups(r, right)
    <3> HIDE DEF c
    <3> QED BY <2>3, <2>5, <2>8, UpsFrom
  <2>10. ASSUME c # left PROVE Joined(left, c) = c
    <3>1. c \notin Arrays
      <4> HIDE DEF c
      <4> QED BY <1>2, <2>3, <2>7, <2>8, <2>10, AboveIsNoArray
    <3>2. c \in Ups(r, c)
      <4> HIDE DEF c
      <4> QED BY <2>3, <2>9, UpsHasSelf
    <3>3. IsFirst(Path(r, left), Ups(r, c), k)
      BY <2>6, <2>9, <3>2 DEF IsFirst
    <3>4. common_superclass(r, left, c) = {c}
      <4>1. \A d \in Classes : d # left /\ d \notin Arrays /\ Resolves(r, d)
              /\ IsFirst(Path(r, left), Ups(r, d), k) => common_superclass(r, left, d) = {Path(r, left)[k]}
        BY <2>3, <2>4, <2>5, CommonFacts
      <4> QED BY <4>1, <2>9, <2>10, <3>1, <3>3
    <3> QED BY <3>4, <2>3
  <2> QED BY <2>7, <2>9, <2>10
<1> QED BY <1>1, <1>2

-----------------------------------------------------------------------------
(* Types. *)

Types ==
    ValueTypes \cup {Top, UninitializedThis} \cup {Uninitialized(n) : n \in Nodes}
        \cup {ReturnAddress(s) : s \in SUBSET Nodes}

LEMMA TypeFacts ==
    ASSUME NEW t \in Types
    PROVE  /\ t.kind \in {"top", "integer", "long", "null", "this", "new", "return", "object"}
           /\ t.kind = "top" <=> t = Top
           /\ t.kind = "long" <=> t = Long
           /\ t.kind = "null" <=> t = Null
           /\ t.kind = "object" => t.class \in Classes /\ t = ObjectOf(t.class)
           /\ t.kind = "return" => t.targets \subseteq Nodes /\ t = ReturnAddress(t.targets)
<1>1. CASE t \in {Top, Integer, Long, Null, UninitializedThis}
  BY <1>1 DEF Top, Integer, Long, Null, UninitializedThis
<1>2. CASE \E c \in Classes : t = ObjectOf(c)
  BY <1>2 DEF Top, Long, Null, ObjectOf
<1>3. CASE \E n \in Nodes : t = Uninitialized(n)
  BY <1>3 DEF Top, Long, Null, Uninitialized
<1>4. CASE \E s \in SUBSET Nodes : t = ReturnAddress(s)
  BY <1>4 DEF Top, Long, Null, ReturnAddress
<1> QED BY <1>1, <1>2, <1>3, <1>4 DEF Types, ValueTypes

LEMMA KindFacts ==
    /\ Top.kind = "top" /\ Long.kind = "long" /\ Null.kind = "null" /\ Integer.kind = "integer"
    /\ \A c : ObjectOf(c).kind = "object" /\ ObjectOf(c).class = c
    /\ \A s : ReturnAddress(s).kind = "return" /\ ReturnAddress(s).targets = s
    /\ \A n : Uninitialized(n).kind = "new"
    /\ UninitializedThis.kind = "this"
BY DEF Top, Long, Null, Integer, ObjectOf, ReturnAddress, Uninitialized, UninitializedThis

BothAre(kind, a, b) == a.kind = kind /\ b.kind = kind

NullAnd(a, b) == a = Null /\ is_reference(b)

\* The cases of a merge.
LEMMA MergeArms ==
    ASSUME NEW a, NEW b
    PROVE  /\ a = b => merge_vtypes(a, b) = a
           /\ a # b /\ BothAre("return", a, b) => merge_vtypes(a, b) = ReturnAddress(a.targets \cup b.targets)
           /\ a # b /\ NullAnd(a, b) => merge_vtypes(a, b) = b
           /\ a # b /\ NullAnd(b, a) => merge_vtypes(a, b) = a
           /\ a # b /\ BothAre("object", a, b) => merge_vtypes(a, b) = ObjectOf(Joined(a.class, b.class))
           /\ /\ a # b /\ ~BothAre("return", a, b) /\ ~BothAre("object", a, b)
              /\ ~NullAnd(a, b) /\ ~NullAnd(b, a)
              => merge_vtypes(a, b) = Top
<1>1. a = b => merge_vtypes(a, b) = a
  BY Zenon DEF merge_vtypes
<1>2. a # b /\ BothAre("return", a, b) => merge_vtypes(a, b) = ReturnAddress(a.targets \cup b.targets)
  BY Zenon, KindFacts DEF merge_vtypes, BothAre
<1>3. a # b /\ NullAnd(a, b) => merge_vtypes(a, b) = b
  BY Zenon, KindFacts DEF merge_vtypes, NullAnd
<1>4. a # b /\ NullAnd(b, a) => merge_vtypes(a, b) = a
  BY Zenon, KindFacts DEF merge_vtypes, NullAnd
<1>5. a # b /\ BothAre("object", a, b) => merge_vtypes(a, b) = ObjectOf(Joined(a.class, b.class))
  BY Zenon, KindFacts DEF merge_vtypes, BothAre
<1>6. /\ a # b /\ ~BothAre("return", a, b) /\ ~BothAre("object", a, b)
      /\ ~NullAnd(a, b) /\ ~NullAnd(b, a)
      => merge_vtypes(a, b) = Top
  BY Zenon DEF merge_vtypes, BothAre, NullAnd
<1> QED BY <1>1, <1>2, <1>3, <1>4, <1>5, <1>6

\* A type says less than another, as far as widths and return addresses go.
SaysLess(t, b) ==
    \/ t = Top
    \/ /\ b # Top
       /\ t = Long <=> b = Long
       /\ b.kind = "return" => t.kind = "return" /\ b.targets \subseteq t.targets

LEMMA SaysLessTransitive ==
    ASSUME NEW a, NEW b, NEW c, SaysLess(a, b), SaysLess(b, c) PROVE SaysLess(a, c)
BY DEF SaysLess

LEMMA SaysLessSame == ASSUME NEW a PROVE SaysLess(a, a)
BY DEF SaysLess

LEMMA MergeFacts ==
    ASSUME resolver \in Resolvers, NEW a \in Types, NEW b \in Types
    PROVE  LET t == merge_vtypes(a, b)
           IN  /\ t \in Types
               /\ merge_vtypes(a, t) = t
               /\ SaysLess(t, a) /\ SaysLess(t, b)
<1> DEFINE t == merge_vtypes(a, b)
<1>1. CASE a = b
  <2>1. t = a
    BY <1>1, MergeArms
  <2> QED BY <1>1, <2>1, MergeArms, SaysLessSame
<1>2. CASE a # b /\ BothAre("return", a, b)
  <2>1. t = ReturnAddress(a.targets \cup b.targets)
    BY <1>2, MergeArms
  <2>2. a.targets \subseteq Nodes /\ b.targets \subseteq Nodes
    BY <1>2, TypeFacts DEF BothAre
  <2>3. t \in Types /\ t.kind = "return" /\ t.targets = a.targets \cup b.targets
    BY <2>1, <2>2, KindFacts DEF Types
  <2>4. merge_vtypes(a, t) = t
    <3>1. CASE a = t
      BY <3>1, MergeArms
    <3>2. CASE a # t
      <4>1. merge_vtypes(a, t) = ReturnAddress(a.targets \cup t.targets)
        BY <3>2, <2>3, <1>2, MergeArms DEF BothAre
      <4>2. a.targets \cup t.targets = a.targets \cup b.targets
        BY <2>3
      <4> QED BY <4>1, <4>2, <2>1
    <3> QED BY <3>1, <3>2
  <2>5. a # Top /\ b # Top /\ a # Long /\ b # Long /\ t # Long
    BY <1>2, <2>3, KindFacts DEF BothAre
  <2> QED BY <2>3, <2>4, <2>5, <1>2 DEF SaysLess, BothAre
<1>3. CASE a # b /\ NullAnd(a, b)
  <2>1. t = b
    BY <1>3, MergeArms
  <2>2. merge_vtypes(a, b) = b
    BY <1>3, MergeArms
  <2>3. a # Top /\ b # Top /\ a # Long /\ b # Long /\ a.kind # "return" /\ b.kind # "return"
    BY <1>3, KindFacts DEF NullAnd, is_reference
  <2> QED BY <2>1, <2>2, <2>3 DEF SaysLess
<1>4. CASE a # b /\ NullAnd(b, a)
  <2>1. t = a
    BY <1>4, MergeArms
  <2>2. merge_vtypes(a, a) = a
    BY MergeArms
  <2>3. a # Top /\ b # Top /\ a # Long /\ b # Long /\ a.kind # "return" /\ b.kind # "return"
    BY <1>4, KindFacts DEF NullAnd, is_reference
  <2> QED BY <2>1, <2>2, <2>3 DEF SaysLess
<1>5. CASE a # b /\ BothAre("object", a, b)
  <2> DEFINE c == Joined(a.class, b.class)
  <2>1. t = ObjectOf(c)
    BY <1>5, MergeArms
  <2>2. /\ a.class \in Classes /\ b.class \in Classes /\ a.class # b.class
        /\ a = ObjectOf(a.class) /\ b = ObjectOf(b.class)
    BY <1>5, TypeFacts DEF BothAre
  <2>3. c \in Classes /\ (c # a.class => Joined(a.class, c) = c)
    BY <2>2, JoinedFacts
  <2> HIDE DEF c
  <2>4. t \in Types /\ t.kind = "object" /\ t.class = c
    BY <2>1, <2>3, KindFacts DEF Types, ValueTypes
  <2>5. merge_vtypes(a, t) = t
    <3>1. CASE a = t
      BY <3>1, MergeArms
    <3>2. CASE a # t
      <4>1. merge_vtypes(a, t) = ObjectOf(Joined(a.class, c))
        BY <3>2, <2>4, <1>5, MergeArms DEF BothAre
      <4>2. a.class # c
        BY <3>2, <2>1, <2>2
      <4> QED BY <4>1, <4>2, <2>1, <2>3
    <3> QED BY <3>1, <3>2
  <2>6. /\ a # Top /\ b # Top /\ a # Long /\ b # Long /\ a.kind # "return" /\ b.kind # "return"
        /\ t # Long
    BY <1>5, <2>4, KindFacts DEF BothAre
  <2> QED BY <2>4, <2>5, <2>6 DEF SaysLess
<1>6. CASE /\ a # b /\ ~BothAre("return", a, b) /\ ~BothAre("object", a, b)
           /\ ~NullAnd(a, b) /\ ~NullAnd(b, a)
  <2>1. t = Top /\ t \in Types
    BY <1>6, MergeArms DEF Types
  <2>2. merge_vtypes(a, Top) = Top
    <3>1. CASE a = Top
      BY <3>1, MergeArms
    <3>2. CASE a # Top
      <4>1. ~BothAre("return", a, Top) /\ ~BothAre("object", a, Top) /\ ~NullAnd(a, Top) /\ ~NullAnd(Top, a)
        BY KindFacts DEF BothAre, NullAnd, is_reference
      <4> QED BY <3>2, <4>1, MergeArms
    <3> QED BY <3>1, <3>2
  <2> QED BY <2>1, <2>2 DEF SaysLess
<1> QED BY <1>1, <1>2, <1>3, <1>4, <1>5, <1>6

-----------------------------------------------------------------------------
(* Frames. *)

Frames == [stack : Seq(Types), locals : Seq(Types)]

At(types, i) == IF i \in DOMAIN types THEN types[i] ELSE Top

\* The first frame says less than the second.
FrameSaysLess(g, e) ==
    /\ Len(g.stack) = Len(e.stack)
    /\ \A i \in DOMAIN g.stack : SaysLess(g.stack[i], e.stack[i])
    /\ \A i \in DOMAIN g.locals : SaysLess(g.locals[i], At(e.locals, i))

LEMMA FrameFields ==
    ASSUME NEW s, NEW l PROVE Frame(s, l).stack = s /\ Frame(s, l).locals = l
BY DEF Frame

LEMMA SaysLessFrames ==
    ASSUME NEW e \in Frames PROVE FrameSaysLess(e, e)
BY SaysLessSame DEF FrameSaysLess, At

LEMMA FramesTransitive ==
    ASSUME NEW a \in Frames, NEW b \in Frames, NEW c \in Frames, FrameSaysLess(a, b), FrameSaysLess(b, c)
    PROVE  FrameSaysLess(a, c)
<1>1. \A i \in DOMAIN a.stack : i \in DOMAIN b.stack
  BY DEF FrameSaysLess, Frames
<1>2. \A i \in DOMAIN a.stack : SaysLess(a.stack[i], c.stack[i])
  BY <1>1, SaysLessTransitive DEF FrameSaysLess
<1>3. ASSUME NEW i \in DOMAIN a.locals PROVE SaysLess(a.locals[i], At(c.locals, i))
  <2>1. CASE i \in DOMAIN b.locals
    BY <2>1, SaysLessTransitive DEF FrameSaysLess, At
  <2>2. CASE i \notin DOMAIN b.locals
    BY <2>2 DEF FrameSaysLess, At, SaysLess
  <2> QED BY <2>1, <2>2
<1> QED BY <1>2, <1>3 DEF FrameSaysLess

Longer(a, b) == IF Len(a.locals) < Len(b.locals) THEN Len(b.locals) ELSE Len(a.locals)

MergedFrame(a, b) ==
    Frame([i \in DOMAIN a.stack |-> merge_vtypes(a.stack[i], b.stack[i])],
          [i \in 1..Longer(a, b) |-> merge_vtypes(At(a.locals, i), At(b.locals, i))])

LEMMA MergeFramesCases ==
    ASSUME NEW a, NEW b
    PROVE  merge_frames(a, b) = IF Len(a.stack) # Len(b.stack) THEN {} ELSE {MergedFrame(a, b)}
BY DEF merge_frames, MergedFrame, At, Longer

LEMMA FrameParts ==
    ASSUME NEW a \in Frames
    PROVE  /\ Len(a.stack) \in Nat /\ DOMAIN a.stack = 1..Len(a.stack)
           /\ Len(a.locals) \in Nat /\ DOMAIN a.locals = 1..Len(a.locals)
           /\ \A i \in DOMAIN a.stack : a.stack[i] \in Types
           /\ \A i \in DOMAIN a.locals : a.locals[i] \in Types
           /\ \A i : At(a.locals, i) \in Types
           /\ a = Frame(a.stack, a.locals)
<1>1. a.stack \in Seq(Types) /\ a.locals \in Seq(Types) /\ a = Frame(a.stack, a.locals)
  BY DEF Frames, Frame
<1>2. Top \in Types
  BY DEF Types
<1> QED BY <1>1, <1>2 DEF At

LEMMA MergedFrameFacts ==
    ASSUME resolver \in Resolvers, NEW a \in Frames, NEW b \in Frames, NEW g \in merge_frames(a, b)
    PROVE  /\ g \in Frames
           /\ merge_frames(a, b) = {g}
           /\ merge_frames(a, g) = {g}
           /\ FrameSaysLess(g, a) /\ FrameSaysLess(g, b)
<1> DEFINE n == Len(a.stack)
           m == Longer(a, b)
<1>1. Len(b.stack) = n /\ merge_frames(a, b) = {g} /\ g = MergedFrame(a, b)
  BY MergeFramesCases
<1>2. n \in Nat /\ DOMAIN a.stack = 1..n /\ DOMAIN b.stack = 1..n
  BY <1>1, FrameParts
<1>3. /\ m \in Nat /\ Len(a.locals) <= m /\ Len(b.locals) <= m
      /\ DOMAIN a.locals \subseteq 1..m /\ DOMAIN b.locals \subseteq 1..m
  BY FrameParts DEF Longer
<1>4. \A i \in 1..n : a.stack[i] \in Types /\ b.stack[i] \in Types
  BY <1>2, FrameParts
<1>5. \A i : At(a.locals, i) \in Types /\ At(b.locals, i) \in Types
  BY FrameParts
<1> HIDE DEF n, m
<1>6. /\ g.stack = [i \in 1..n |-> merge_vtypes(a.stack[i], b.stack[i])]
      /\ g.locals = [i \in 1..m |-> merge_vtypes(At(a.locals, i), At(b.locals, i))]
  BY <1>1, <1>2, FrameFields DEF MergedFrame, m
<1>7. \A i \in 1..n : /\ g.stack[i] \in Types
                      /\ merge_vtypes(a.stack[i], g.stack[i]) = g.stack[i]
                      /\ SaysLess(g.stack[i], a.stack[i]) /\ SaysLess(g.stack[i], b.stack[i])
  BY <1>4, <1>6, MergeFacts
<1>8. \A i \in 1..m : /\ g.locals[i] \in Types
                      /\ merge_vtypes(At(a.locals, i), g.locals[i]) = g.locals[i]
                      /\ SaysLess(g.locals[i], At(a.locals, i)) /\ SaysLess(g.locals[i], At(b.locals, i))
  BY <1>5, <1>6, MergeFacts
<1>9. /\ g.stack \in Seq(Types) /\ Len(g.stack) = n /\ DOMAIN g.stack = 1..n
      /\ g.locals \in Seq(Types) /\ Len(g.locals) = m /\ DOMAIN g.locals = 1..m
  BY <1>2, <1>3, <1>6, <1>7, <1>8
<1>10. g = Frame(g.stack, g.locals)
  BY <1>1, FrameFields DEF MergedFrame
<1>11. g \in Frames
  BY <1>9, <1>10 DEF Frame, Frames
<1>12. merge_frames(a, g) = {g}
  <2>1. Longer(a, g) = m
    BY <1>3, <1>9, FrameParts DEF Longer
  <2>2. [i \in 1..n |-> merge_vtypes(a.stack[i], g.stack[i])] = g.stack
    BY <1>6, <1>7
  <2>3. [i \in 1..m |-> merge_vtypes(At(a.locals, i), At(g.locals, i))] = g.locals
    BY <1>6, <1>8, <1>9 DEF At
  <2>4. MergedFrame(a, g) = g
    BY <2>1, <2>2, <2>3, <1>2, <1>10 DEF MergedFrame
  <2> QED BY <2>4, <1>9, MergeFramesCases DEF n
<1>13. FrameSaysLess(g, a) /\ FrameSaysLess(g, b)
  BY <1>1, <1>7, <1>8, <1>9 DEF FrameSaysLess, n
<1> QED BY <1>1, <1>11, <1>12, <1>13

\* Merged with itself a frame stays as it is.
LEMMA MergeSame ==
    ASSUME NEW a \in Frames PROVE merge_frames(a, a) = {a}
<1>1. \A t : merge_vtypes(t, t) = t
  BY MergeArms
<1>2. /\ Longer(a, a) = Len(a.locals)
      /\ a.stack = [i \in DOMAIN a.stack |-> a.stack[i]] /\ a.locals = [i \in 1..Len(a.locals) |-> At(a.locals, i)]
  BY DEF Frames, Longer, At
<1>3. MergedFrame(a, a) = a
  BY <1>1, <1>2, FrameParts DEF MergedFrame
<1> QED BY <1>3, MergeFramesCases

\* What flows into a node for the first time is its frame, later it is merged.
LEMMA MergedFacts ==
    ASSUME resolver \in Resolvers, NEW e \in Frames,
           NEW old, old = {} \/ \E a \in Frames : old = {a}, Merged(old, e) # {}
    PROVE  \E g \in Frames :
              /\ Merged(old, e) = {g}
              /\ FrameSaysLess(g, e)
              /\ \A a \in old : merge_frames(a, g) = {g} /\ FrameSaysLess(g, a)
<1>1. CASE old = {}
  BY <1>1, SaysLessFrames DEF Merged
<1>2. CASE old # {}
  <2>1. PICK a \in Frames : old = {a}
    BY <1>2
  <2>2. Merged(old, e) = merge_frames(a, e)
    BY <2>1 DEF Merged
  <2>3. PICK g : g \in merge_frames(a, e)
    BY <2>2
  <2>4. /\ g \in Frames /\ merge_frames(a, e) = {g} /\ merge_frames(a, g) = {g}
        /\ FrameSaysLess(g, a) /\ FrameSaysLess(g, e)
    BY <2>3, MergedFrameFacts
  <2> QED BY <2>1, <2>2, <2>4
<1> QED BY <1>1, <1>2

-----------------------------------------------------------------------------
(* Lists. *)

\* The numbers of a set in order are those up to the last one, each.
LEMMA InOrderFacts ==
    ASSUME NEW n \in Nat, NEW S
    PROVE  /\ InOrder(S, n) \in Seq(1..n)
           /\ Range(InOrder(S, n)) = S \cap (1..n)
<1> DEFINE V == Seq(1..n)
           next(i, s) == IF i \in S THEN Append(s, i) ELSE s
           step == [i \in 1..n |-> [s \in V |-> next(i, s)]]
           Fits(f) == f = [i \in 0..n |-> IF i = 0 THEN <<>> ELSE next(i, f[i - 1])]
           up == CHOOSE f : Fits(f)
           Elements(s) == {s[k] : k \in DOMAIN s}
           none == <<>>
<1>1. none \in V /\ \A i \in 1..n, s \in V : next(i, s) \in V
  <2>1. none \in V
    OBVIOUS
  <2>2. \A i \in 1..n, s \in V : Append(s, i) \in V
    OBVIOUS
  <2> HIDE DEF V, none
  <2> QED BY <2>1, <2>2
<1>2. step \in [1..n -> [V -> V]] /\ \A i \in 1..n, s \in V : step[i][s] = next(i, s)
  <2> HIDE DEF next, V
  <2> QED BY <1>1
<1>3. ASSUME NEW i \in 1..n, NEW s \in V
      PROVE  Elements(next(i, s)) = Elements(s) \cup (S \cap {i})
  <2>1. CASE i \notin S
    BY <2>1
  <2>2. CASE i \in S
    <3> DEFINE a == Append(s, i)
    <3>1. /\ Len(s) \in Nat /\ DOMAIN s = 1..Len(s) /\ DOMAIN a = 1..(Len(s) + 1)
          /\ a[Len(s) + 1] = i /\ \A k \in 1..Len(s) : a[k] = s[k]
      OBVIOUS
    <3>2. /\ 1..Len(s) \subseteq 1..(Len(s) + 1) /\ Len(s) + 1 \in 1..(Len(s) + 1)
          /\ \A k \in 1..(Len(s) + 1) : k = Len(s) + 1 \/ k \in 1..Len(s)
      BY <3>1
    <3>3. next(i, s) = a
      BY <2>2
    <3> HIDE DEF a, next
    <3> QED BY <2>2, <3>1, <3>2, <3>3
  <2> QED BY <2>1, <2>2
<1> HIDE DEF step, V, none
<1>4. PICK f \in [0..n -> V] : Recursive(n, none, step, f)
  BY <1>1, <1>2, Recursion
<1>5. ASSUME NEW i \in 1..n PROVE f[i] = next(i, f[i - 1])
  <2> HIDE DEF next
  <2>1. i - 1 \in 0..n
    OBVIOUS
  <2>2. f[i - 1] \in V
    BY <2>1, <1>4
  <2> QED BY <2>2, <1>2, <1>4 DEF Recursive
<1>6. Fits(f)
  <2> HIDE DEF next
  <2>1. \A i \in 0..n : i = 0 \/ i \in 1..n
    OBVIOUS
  <2>2. f = [i \in 0..n |-> f[i]]
    BY <1>4
  <2>3. \A i \in 0..n : f[i] = IF i = 0 THEN <<>> ELSE next(i, f[i - 1])
    BY <2>1, <1>4, <1>5 DEF Recursive, none
  <2> QED BY <2>2, <2>3
<1>7. Fits(up)
  <2> HIDE DEF Fits
  <2> QED BY <1>6
<1>8. up[0] = none /\ \A i \in 1..n : up[i] = next(i, up[i - 1])
  <2> HIDE DEF next, up
  <2> QED BY <1>7 DEF none
<1> HIDE DEF up, next
<1>9. \A i \in 0..n : up[i] \in V /\ Elements(up[i]) = S \cap (1..i)
  <2> DEFINE T == {i \in 0..n : up[i] \in V /\ Elements(up[i]) = S \cap (1..i)}
  <2>1. 0 \in T
    <3>1. Elements(none) = {} /\ 1..0 = {} /\ 0 \in 0..n
      BY DEF none
    <3> HIDE DEF Elements
    <3> QED BY <1>1, <1>8, <3>1
  <2>2. ASSUME NEW i \in 1..n, i - 1 \in T PROVE i \in T
    <3>1. up[i - 1] \in V /\ Elements(up[i - 1]) = S \cap (1..(i - 1))
      BY <2>2
    <3>2. up[i] = next(i, up[i - 1])
      BY <1>8
    <3>3. 1..i = (1..(i - 1)) \cup {i} /\ i \in 0..n
      OBVIOUS
    <3> HIDE DEF Elements
    <3>4. up[i] \in V
      BY <1>1, <3>1, <3>2
    <3>5. Elements(up[i]) = (S \cap (1..(i - 1))) \cup (S \cap {i})
      BY <1>3, <3>1, <3>2
    <3> QED BY <3>3, <3>4, <3>5
  <2>3. 0..n \subseteq T
    <3> HIDE DEF T
    <3> QED BY <2>1, <2>2, UpTo
  <2> QED BY <2>3
<1>10. InOrder(S, n) = up[n]
  BY DEF InOrder, up, next
<1>11. n \in 0..n
  OBVIOUS
<1> QED BY <1>9, <1>10, <1>11 DEF V, Range

LEMMA FlattenIsList ==
    ASSUME NEW S, NEW seqs \in Seq(Seq(S)) PROVE FlattenSeq(seqs) \in Seq(S)
<1>1. CASE Len(seqs) = 0
  <2>1. FlattenSeq(seqs) = seqs /\ seqs = <<>>
    BY <1>1 DEF FlattenSeq
  <2> QED BY <2>1
<1>2. CASE Len(seqs) # 0
  <2> DEFINE n == Len(seqs)
             d == n - 1
             V == Seq(S)
             step == [i \in 1..d |-> [s \in V |-> s \o seqs[i + 1]]]
             Fits(f) == f = [i \in 1..n |-> IF i = 1 THEN seqs[i] ELSE f[i - 1] \o seqs[i]]
             flat == CHOOSE f : Fits(f)
             first == seqs[1]
  <2>1. /\ n \in Nat /\ d \in Nat /\ n = d + 1 /\ first \in V
        /\ \A i \in 1..n : seqs[i] \in V
        /\ \A i \in 1..d : i + 1 \in 1..n
    BY <1>2
  <2>2. \A i \in 1..d, s \in V : s \o seqs[i + 1] \in V
    BY <2>1
  <2>3. step \in [1..d -> [V -> V]] /\ \A i \in 1..d, s \in V : step[i][s] = s \o seqs[i + 1]
    <3> HIDE DEF d, V
    <3> QED BY <2>2
  <2> HIDE DEF step, n, d, V, first
  <2>4. PICK f \in [1..(d + 1) -> V] : RecursiveFromOne(d, first, step, f)
    BY <2>1, <2>3, RecursionFromOne
  <2>5. ASSUME NEW i \in 1..d PROVE f[i + 1] = f[i] \o seqs[i + 1]
    <3>1. i \in 1..(d + 1)
      BY <2>1
    <3>2. f[i] \in V
      BY <3>1, <2>4
    <3> QED BY <3>2, <2>3, <2>4 DEF RecursiveFromOne
  <2>6. ASSUME NEW i \in 1..n PROVE f[i] = IF i = 1 THEN seqs[i] ELSE f[i - 1] \o seqs[i]
    <3>1. CASE i = 1
      BY <3>1, <2>4 DEF RecursiveFromOne, first
    <3>2. CASE i # 1
      <4>1. i - 1 \in 1..d /\ (i - 1) + 1 = i
        BY <3>2, <2>1
      <4> QED BY <4>1, <3>2, <2>5
    <3> QED BY <3>1, <3>2
  <2>7. Fits(f)
    <3>1. f = [i \in 1..n |-> f[i]]
      BY <2>1, <2>4
    <3> QED BY <3>1, <2>6
  <2>8. Fits(flat)
    <3> HIDE DEF Fits
    <3> QED BY <2>7
  <2>9. flat[1] = first /\ \A i \in 1..d : flat[i + 1] = flat[i] \o seqs[i + 1]
    <3> HIDE DEF flat
    <3>1. \A i \in 1..n : flat[i] = IF i = 1 THEN seqs[i] ELSE flat[i - 1] \o seqs[i]
      BY <2>8
    <3>2. 1 \in 1..n /\ \A i \in 1..d : i + 1 \in 1..n /\ i + 1 # 1 /\ (i + 1) - 1 = i
      BY <2>1
    <3> QED BY <3>1, <3>2 DEF first
  <2> HIDE DEF flat
  <2>10. 1..(d + 1) \subseteq {i \in 1..(d + 1) : flat[i] \in V}
    <3> DEFINE T == {i \in 1..(d + 1) : flat[i] \in V}
    <3>1. 1 \in T
      BY <2>1, <2>9
    <3>2. \A i \in 1..d : i \in T => i + 1 \in T
      BY <2>1, <2>2, <2>9
    <3> HIDE DEF T
    <3>3. 1..(d + 1) \subseteq T
      BY <2>1, <3>1, <3>2, UpToFromOne
    <3> QED BY <3>3 DEF T
  <2>11. FlattenSeq(seqs) = flat[n]
    BY <1>2 DEF FlattenSeq, flat, n
  <2>12. n \in 1..(d + 1)
    BY <2>1
  <2> QED BY <2>10, <2>11, <2>12 DEF V
<1> QED BY <1>1, <1>2

LEMMA FlattenOne ==
    ASSUME NEW S, NEW s \in Seq(S) PROVE FlattenSeq(<<s>>) = s
<1> DEFINE seqs == <<s>>
           Fits(f) == f = [i \in 1..Len(seqs) |-> IF i = 1 THEN seqs[i] ELSE f[i - 1] \o seqs[i]]
           flat == CHOOSE f : Fits(f)
           one == [i \in 1..1 |-> s]
<1>1. Len(seqs) = 1 /\ seqs[1] = s /\ \A i \in 1..1 : i = 1
  OBVIOUS
<1>2. Fits(one)
  <2> HIDE DEF seqs
  <2> QED BY <1>1
<1>3. Fits(flat)
  <2> HIDE DEF Fits
  <2> QED BY <1>2
<1>4. flat[1] = s
  <2> HIDE DEF flat, seqs
  <2> QED BY <1>1, <1>3
<1>5. FlattenSeq(seqs) = flat[1]
  <2>1. FlattenSeq(seqs) = flat[Len(seqs)]
    BY <1>1 DEF FlattenSeq, flat
  <2> HIDE DEF flat, seqs
  <2> QED BY <1>1, <2>1
<1> QED BY <1>4, <1>5

-----------------------------------------------------------------------------
(* Operations on frames. *)

LEMMA TypesHasNames == Top \in Types /\ ValueTypes \subseteq Types /\ Seq(ValueTypes) \subseteq Seq(Types)
<1>1. Top \in Types /\ ValueTypes \subseteq Types
  BY DEF Types
<1>2. ASSUME NEW s \in Seq(ValueTypes) PROVE s \in Seq(Types)
  BY <1>1
<1> QED BY <1>1, <1>2

LEMMA SlotsAreTypes ==
    ASSUME NEW types \in Seq(Types) PROVE Slots(types) \in Seq(Types)
<1> DEFINE halves == [i \in DOMAIN types |-> IF is_category2(types[i]) THEN <<types[i], Top>> ELSE <<types[i]>>]
           V == Seq(Types)
<1>1. \A i \in DOMAIN types : types[i] \in Types
  OBVIOUS
<1>2. \A t \in Types : <<t, Top>> \in V /\ <<t>> \in V
  BY TypesHasNames
<1>3. halves \in Seq(V)
  <2>1. \A i \in DOMAIN types : halves[i] \in V
    <3> HIDE DEF V
    <3> QED BY <1>1, <1>2
  <2>2. /\ Len(types) \in Nat /\ DOMAIN types = 1..Len(types)
        /\ halves = [i \in DOMAIN types |-> halves[i]]
    OBVIOUS
  <2> HIDE DEF V, halves
  <2>3. \E n \in Nat : halves \in [1..n -> V]
    BY <2>1, <2>2
  <2> QED BY <2>3
<1>4. FlattenSeq(halves) \in Seq(Types)
  BY <1>3, FlattenIsList
<1> QED BY <1>4 DEF Slots

LEMMA SlotsOfOne ==
    ASSUME NEW t \in Types
    PROVE  /\ Slots(<<t>>) = IF t = Long THEN <<t, Top>> ELSE <<t>>
           /\ Len(Slots(<<t>>)) = IF t = Long THEN 2 ELSE 1
           /\ Slots(<<t>>)[1] = t
           /\ t = Long => Slots(<<t>>)[2] = Top
<1> DEFINE s == IF t = Long THEN <<t, Top>> ELSE <<t>>
           types == <<t>>
           halves == [i \in DOMAIN types |-> IF is_category2(types[i]) THEN <<types[i], Top>> ELSE <<types[i]>>]
<1>1. s \in Seq(Types) /\ Len(s) = (IF t = Long THEN 2 ELSE 1) /\ s[1] = t /\ (t = Long => s[2] = Top)
  BY TypesHasNames
<1>2. DOMAIN types = 1..1 /\ types[1] = t /\ \A i \in 1..1 : i = 1
  OBVIOUS
<1> HIDE DEF types
<1>3. \A i \in DOMAIN types : halves[i] = s
  BY <1>2 DEF is_category2
<1>4. halves = <<s>>
  <2>1. halves = [i \in 1..1 |-> s]
    BY <1>2, <1>3
  <2> HIDE DEF s
  <2>2. <<s>> = [i \in 1..1 |-> s]
    OBVIOUS
  <2> QED BY <2>1, <2>2
<1>5. FlattenSeq(<<s>>) = s
  <2> HIDE DEF s
  <2> QED BY <1>1, FlattenOne
<1>6. Slots(types) = FlattenSeq(halves)
  BY DEF Slots
<1>7. Slots(<<t>>) = s
  <2> HIDE DEF s, halves
  <2> QED BY <1>4, <1>5, <1>6 DEF types
<1> HIDE DEF s
<1>8. s = IF t = Long THEN <<t, Top>> ELSE <<t>>
  BY DEF s
<1> QED BY <1>1, <1>7, <1>8

LEMMA FramesBuilt ==
    ASSUME NEW s \in Seq(Types), NEW l \in Seq(Types) PROVE Frame(s, l) \in Frames
BY DEF Frame, Frames

LEMMA PushFacts ==
    ASSUME NEW f \in Frames, NEW types \in Seq(Types)
    PROVE  push(f, types) \in Frames /\ push(f, types).locals = f.locals
<1>1. f.stack \in Seq(Types) /\ f.locals \in Seq(Types) /\ Slots(types) \in Seq(Types)
  BY SlotsAreTypes DEF Frames
<1>2. f.stack \o Slots(types) \in Seq(Types)
  BY <1>1
<1> QED BY <1>1, <1>2, FramesBuilt, FrameFields DEF push

LEMMA PopFacts ==
    ASSUME NEW f \in Frames, NEW n \in Nat, NEW g \in pop(f, n)
    PROVE  /\ g \in Frames /\ g.locals = f.locals
           /\ n <= Len(f.stack) /\ Len(g.stack) = Len(f.stack) - n
           /\ \A i \in 1..Len(g.stack) : i \in DOMAIN f.stack /\ g.stack[i] = f.stack[i]
<1> DEFINE s == f.stack
           k == Len(s) - n
           r == SubSeq(s, 1, k)
<1>1. s \in Seq(Types) /\ f.locals \in Seq(Types)
  BY DEF Frames
<1>2. n <= Len(s) /\ g = Frame(r, f.locals)
  BY <1>1 DEF pop
<1>3. k \in Nat /\ k <= Len(s)
  BY <1>1, <1>2
<1>4. r \in Seq(Types) /\ Len(r) = k /\ \A i \in 1..k : i \in DOMAIN s /\ r[i] = s[i]
  <2> HIDE DEF k, s
  <2> QED BY <1>1, <1>3
<1> HIDE DEF r
<1>5. g.stack = r /\ g.locals = f.locals /\ g \in Frames
  BY <1>1, <1>2, <1>4, FramesBuilt, FrameFields
<1> QED BY <1>2, <1>4, <1>5

\* The local in a slot after a store.
Stored(f, slot, type, i) ==
    IF i \in (slot + 1)..(slot + Len(Slots(<<type>>))) THEN Slots(<<type>>)[i - slot] ELSE At(f.locals, i)

LEMMA SetLocalFacts ==
    ASSUME NEW f \in Frames, NEW slot \in Nat, NEW type \in Types
    PROVE  LET g == set_local(f, slot, type)
           IN  /\ g \in Frames /\ g.stack = f.stack
               /\ slot + Len(Slots(<<type>>)) <= Len(g.locals)
               /\ \A i \in DOMAIN g.locals : g.locals[i] = Stored(f, slot, type, i)
<1> DEFINE s == Slots(<<type>>)
           last == slot + Len(s)
           size == IF Len(f.locals) < last THEN last ELSE Len(f.locals)
           new == [i \in 1..size |-> IF i \in (slot + 1)..last THEN s[i - slot]
                                     ELSE IF i \in DOMAIN f.locals THEN f.locals[i] ELSE Top]
           g == set_local(f, slot, type)
<1>1. /\ s \in Seq(Types) /\ f.stack \in Seq(Types) /\ Len(f.locals) \in Nat
      /\ \A i : At(f.locals, i) \in Types
  <2>1. <<type>> \in Seq(Types)
    OBVIOUS
  <2> QED BY <2>1, SlotsAreTypes, FrameParts DEF Frames
<1>2. g = Frame(f.stack, new)
  BY DEF set_local
<1> HIDE DEF s
<1>3. last \in Nat /\ size \in Nat /\ last <= size
  BY <1>1
<1>4. \A i \in (slot + 1)..last : s[i - slot] \in Types
  BY <1>1
<1>5. \A i \in 1..size : new[i] = Stored(f, slot, type, i)
  BY DEF Stored, At, s
<1>6. \A i : Stored(f, slot, type, i) \in Types
  BY <1>1, <1>4 DEF Stored, s
<1> HIDE DEF size
<1>7. new \in Seq(Types) /\ Len(new) = size /\ DOMAIN new = 1..size
  <2>1. \A i \in 1..size : new[i] \in Types
    BY <1>5, <1>6
  <2>2. DOMAIN new = 1..size
    OBVIOUS
  <2> HIDE DEF new
  <2>3. new = [i \in 1..size |-> new[i]]
    BY <1>2 DEF new
  <2>4. \E n \in Nat : new \in [1..n -> Types]
    BY <1>3, <2>1, <2>2, <2>3
  <2> QED BY <2>1, <2>2, <2>4, <1>3
<1> HIDE DEF new, last
<1>8. g.stack = f.stack /\ g.locals = new /\ g \in Frames
  BY <1>1, <1>2, <1>7, FramesBuilt, FrameFields
<1> QED BY <1>3, <1>5, <1>7, <1>8 DEF last, s

LEMMA GetLocalFacts ==
    ASSUME NEW f \in Frames, NEW slot, NEW t \in get_local(f, slot)
    PROVE  /\ slot + 1 \in DOMAIN f.locals /\ t = f.locals[slot + 1] /\ t # Top /\ t \in Types
           /\ get_local(f, slot) = {t}
BY FrameParts DEF get_local

LEMMA ReplacedFacts ==
    ASSUME NEW f \in Frames, NEW old, NEW new \in Types
    PROVE  LET g == Replaced(f, old, new)
               swap(t) == IF t = old THEN new ELSE t
           IN  /\ g \in Frames
               /\ DOMAIN g.stack = DOMAIN f.stack /\ Len(g.stack) = Len(f.stack)
               /\ DOMAIN g.locals = DOMAIN f.locals
               /\ \A i \in DOMAIN f.stack : g.stack[i] = swap(f.stack[i])
               /\ \A i \in DOMAIN f.locals : g.locals[i] = swap(f.locals[i])
<1> DEFINE swap(types) == [i \in DOMAIN types |-> IF types[i] = old THEN new ELSE types[i]]
<1>1. ASSUME NEW types \in Seq(Types) PROVE swap(types) \in Seq(Types) /\ Len(swap(types)) = Len(types)
  OBVIOUS
<1>2. f.stack \in Seq(Types) /\ f.locals \in Seq(Types)
  BY DEF Frames
<1>3. Replaced(f, old, new) = Frame(swap(f.stack), swap(f.locals))
  BY DEF Replaced
<1>4. Replaced(f, old, new).stack = swap(f.stack) /\ Replaced(f, old, new).locals = swap(f.locals)
  BY <1>3, FrameFields
<1>5. Replaced(f, old, new) \in Frames
  <2> HIDE DEF swap
  <2> QED BY <1>1, <1>2, <1>3, FramesBuilt
<1> QED BY <1>1, <1>2, <1>4, <1>5

-----------------------------------------------------------------------------
(* Instructions. *)

\* The slots that a shuffle takes from the stack, in their new order.
Taken(f, rest, order) == [k \in DOMAIN order |-> f.stack[Len(rest.stack) + order[k]]]

LEMMA AfterPlain ==
    ASSUME NEW item, item.op = "plain", NEW f, NEW n, NEW g \in simulate_item(item, f, n)
    PROVE  \E h \in pop(f, Len(Slots(item.takes))) : g = push(h, item.gives)
BY DEF simulate_item

LEMMA AfterPop ==
    ASSUME NEW item, item.op \in {"jump", "end"}, NEW f, NEW n, NEW g \in simulate_item(item, f, n)
    PROVE  g \in pop(f, Len(Slots(item.takes)))
BY DEF simulate_item

LEMMA AfterShuffle ==
    ASSUME NEW item, item.op = "shuffle", NEW f, NEW n, NEW g \in simulate_item(item, f, n)
    PROVE  \E h \in pop(f, item.needs) : g = Frame(h.stack \o Taken(f, h, item.order), f.locals)
BY DEF simulate_item, Taken

LEMMA AfterLoad ==
    ASSUME NEW item, item.op = "aload", NEW f, NEW n, NEW g \in simulate_item(item, f, n)
    PROVE  \E t \in get_local(f, item.slot) : g = push(f, <<t>>)
BY DEF simulate_item

LEMMA AfterStore ==
    ASSUME NEW item, item.op = "store", NEW f, NEW n, NEW g \in simulate_item(item, f, n)
    PROVE  \E h \in pop(f, Len(Slots(<<item.type>>))) : g = set_local(h, item.slot, item.type)
BY DEF simulate_item

LEMMA AfterStoreTop ==
    ASSUME NEW item, item.op = "astore", NEW f, NEW n, NEW g \in simulate_item(item, f, n)
    PROVE  \E h \in pop(f, 1) : g = set_local(h, item.slot, Last(f.stack))
BY DEF simulate_item

LEMMA AfterIInc ==
    ASSUME NEW item, item.op = "iinc", NEW f, NEW n, NEW g \in simulate_item(item, f, n)
    PROVE  g = f /\ get_local(f, item.slot) = {Integer}
BY DEF simulate_item

LEMMA AfterNew ==
    ASSUME NEW item, item.op = "new", NEW f, NEW n, NEW g \in simulate_item(item, f, n)
    PROVE  g = push(f, <<Uninitialized(n)>>)
BY DEF simulate_item

LEMMA AfterInit ==
    ASSUME NEW item, item.op = "init", NEW f, NEW n, NEW g \in simulate_item(item, f, n)
    PROVE  \E h \in pop(f, 1) : g = initialize_receiver(h, Last(f.stack), item.owner)
BY DEF simulate_item

LEMMA AfterJsr ==
    ASSUME NEW item, item.op = "jsr", NEW f, NEW n, NEW g \in simulate_item(item, f, n)
    PROVE  n + 1 \in Nodes /\ g = push(f, <<ReturnAddress({n + 1})>>)
<1>1. simulate_item(item, f, n) = {push(f, <<ReturnAddress({m})>>) : m \in Range(Next1(n))}
  BY DEF simulate_item
<1>2. PICK m \in Range(Next1(n)) : g = push(f, <<ReturnAddress({m})>>)
  BY <1>1
<1>3. m = n + 1 /\ n + 1 \in Nodes
  BY DEF Next1, Range
<1> QED BY <1>2, <1>3

LEMMA AfterRet ==
    ASSUME NEW item, item.op = "ret", NEW f, NEW n, NEW g \in simulate_item(item, f, n)
    PROVE  g = f /\ \E t \in get_local(f, item.slot) : t.kind = "return"
BY DEF simulate_item

LEMMA LastOfStack ==
    ASSUME NEW f \in Frames, NEW g \in pop(f, 1)
    PROVE  /\ Len(f.stack) \in DOMAIN f.stack
           /\ Last(f.stack) = f.stack[Len(f.stack)]
           /\ Last(f.stack) \in Types
<1>1. Len(f.stack) \in Nat /\ DOMAIN f.stack = 1..Len(f.stack) /\ 1 <= Len(f.stack)
  BY FrameParts, PopFacts
<1>2. Len(f.stack) \in DOMAIN f.stack
  BY <1>1
<1> QED BY <1>2, FrameParts DEF Last

LEMMA ReceiverFacts ==
    ASSUME NEW f \in Frames, NEW receiver, NEW class \in Classes
    PROVE  initialize_receiver(f, receiver, class) \in Frames
BY ReplacedFacts DEF initialize_receiver, Types, ValueTypes

\* An item as instructions are.
Known(item) == item.op \in Ops /\ ItemOK(item)

LEMMA WidthsAreNumbers ==
    ASSUME NEW item, Known(item)
    PROVE  /\ item.op \in {"plain", "jump", "end"} =>
                item.takes \in Seq(Types) /\ Len(Slots(item.takes)) \in Nat
           /\ item.op = "plain" => item.gives \in Seq(Types)
           /\ item.op = "store" => item.type \in Types /\ Len(Slots(<<item.type>>)) \in Nat
<1>1. item.op \in {"plain", "jump", "end"} => item.takes \in Seq(Types)
  BY TypesHasNames DEF Known, ItemOK
<1>2. item.op = "plain" => item.gives \in Seq(Types)
  BY TypesHasNames DEF Known, ItemOK
<1>3. item.op = "store" => item.type \in Types /\ <<item.type>> \in Seq(Types)
  BY TypesHasNames DEF Known, ItemOK
<1>4. \A types \in Seq(Types) : Len(Slots(types)) \in Nat
  BY SlotsAreTypes
<1> QED BY <1>1, <1>2, <1>3, <1>4

\* What an instruction leaves is a frame again.
LEMMA FrameAfter ==
    ASSUME NEW item, Known(item), NEW f \in Frames, NEW n \in Nodes, NEW g \in simulate_item(item, f, n)
    PROVE  g \in Frames
<1>1. CASE item.op = "plain"
  <2>1. PICK h \in pop(f, Len(Slots(item.takes))) : g = push(h, item.gives)
    BY <1>1, AfterPlain
  <2>2. h \in Frames
    BY <1>1, PopFacts, WidthsAreNumbers
  <2> QED BY <1>1, <2>1, <2>2, PushFacts, WidthsAreNumbers
<1>2. CASE item.op \in {"jump", "end"}
  BY <1>2, AfterPop, PopFacts, WidthsAreNumbers
<1>3. CASE item.op = "shuffle"
  <2>1. PICK h \in pop(f, item.needs) : g = Frame(h.stack \o Taken(f, h, item.order), f.locals)
    BY <1>3, AfterShuffle
  <2> DEFINE new == Taken(f, h, item.order)
  <2>2. item.needs \in Nat /\ item.order \in Seq(1..item.needs)
    BY <1>3 DEF Known, ItemOK
  <2>3. h \in Frames /\ item.needs <= Len(f.stack) /\ Len(h.stack) = Len(f.stack) - item.needs
    BY <2>2, PopFacts
  <2>4. f.stack \in Seq(Types) /\ h.stack \in Seq(Types) /\ f.locals \in Seq(Types)
    BY <2>3 DEF Frames
  <2>5. \A k \in DOMAIN item.order : new[k] \in Types
    <3> SUFFICES ASSUME NEW k \in DOMAIN item.order PROVE new[k] \in Types
      OBVIOUS
    <3>1. item.order[k] \in 1..item.needs /\ Len(f.stack) \in Nat /\ DOMAIN f.stack = 1..Len(f.stack)
      BY <2>2, <2>4
    <3>2. Len(h.stack) + item.order[k] \in DOMAIN f.stack
      BY <2>2, <2>3, <3>1
    <3>3. new[k] = f.stack[Len(h.stack) + item.order[k]]
      BY DEF Taken
    <3> QED BY <3>2, <3>3, FrameParts
  <2>6. new \in Seq(Types)
    <3>1. /\ Len(item.order) \in Nat /\ DOMAIN item.order = 1..Len(item.order)
          /\ new = [k \in DOMAIN item.order |-> new[k]]
      BY <2>2 DEF Taken
    <3> HIDE DEF new
    <3>2. \E k \in Nat : new \in [1..k -> Types]
      BY <2>5, <3>1
    <3> QED BY <3>2
  <2> HIDE DEF new
  <2>7. h.stack \o new \in Seq(Types)
    BY <2>4, <2>6
  <2> QED BY <2>1, <2>4, <2>7, FramesBuilt DEF new
<1>4. CASE item.op = "aload"
  <2>1. PICK t \in get_local(f, item.slot) : g = push(f, <<t>>)
    BY <1>4, AfterLoad
  <2>2. <<t>> \in Seq(Types)
    BY GetLocalFacts
  <2> QED BY <2>1, <2>2, PushFacts
<1>5. CASE item.op = "store"
  <2>1. PICK h \in pop(f, Len(Slots(<<item.type>>))) : g = set_local(h, item.slot, item.type)
    BY <1>5, AfterStore
  <2>2. h \in Frames /\ item.type \in Types /\ item.slot \in Nat
    BY <1>5, PopFacts, WidthsAreNumbers DEF Known, ItemOK
  <2> QED BY <2>1, <2>2, SetLocalFacts
<1>6. CASE item.op = "astore"
  <2>1. PICK h \in pop(f, 1) : g = set_local(h, item.slot, Last(f.stack))
    BY <1>6, AfterStoreTop
  <2>2. h \in Frames /\ Last(f.stack) \in Types /\ item.slot \in Nat
    BY <1>6, PopFacts, LastOfStack DEF Known, ItemOK
  <2> QED BY <2>1, <2>2, SetLocalFacts
<1>7. CASE item.op \in {"iinc", "ret"}
  BY <1>7, AfterIInc, AfterRet
<1>8. CASE item.op = "new"
  <2>1. <<Uninitialized(n)>> \in Seq(Types) /\ g = push(f, <<Uninitialized(n)>>)
    BY <1>8, AfterNew DEF Types
  <2> QED BY <2>1, PushFacts
<1>9. CASE item.op = "init"
  <2>1. PICK h \in pop(f, 1) : g = initialize_receiver(h, Last(f.stack), item.owner)
    BY <1>9, AfterInit
  <2>2. h \in Frames /\ item.owner \in Classes
    BY <1>9, PopFacts DEF Known, ItemOK
  <2> QED BY <2>1, <2>2, ReceiverFacts
<1>10. CASE item.op = "jsr"
  <2>1. n + 1 \in Nodes /\ g = push(f, <<ReturnAddress({n + 1})>>)
    BY <1>10, AfterJsr
  <2>2. <<ReturnAddress({n + 1})>> \in Seq(Types)
    BY <2>1 DEF Types
  <2> QED BY <2>1, <2>2, PushFacts
<1> QED BY <1>1, <1>2, <1>3, <1>4, <1>5, <1>6, <1>7, <1>8, <1>9, <1>10 DEF Known, Ops

-----------------------------------------------------------------------------
(* Edges. *)

LEMMA CodeFacts ==
    ASSUME code \in Codes, ~Refused
    PROVE  /\ Len(code.items) \in Nat /\ Nodes = 1..Len(code.items) /\ 1 \in Nodes
           /\ \A n \in Nodes : Known(code.items[n]) /\ NodeTargets(n) \in Seq(Nodes)
           /\ Len(code.handlers) \in Nat /\ DOMAIN code.handlers = 1..Len(code.handlers)
           /\ \A k \in DOMAIN code.handlers :
                 code.handlers[k].handler \in Nodes /\ code.handlers[k].catch \in Classes
<1>1. /\ Len(code.items) \in Nat /\ Nodes = 1..Len(code.items)
      /\ \A n \in Nodes : Known(code.items[n])
      /\ code.handlers \in Seq([start : Nat, end : Nat, handler : Nat, catch : Classes])
  BY CodeShapes DEF Nodes, Known
<1>2. 1 \in Nodes
  <2>1. CASE Len(code.items) = 0
    <3>1. DOMAIN code.items = {}
      BY <2>1, <1>1 DEF Nodes
    <3>2. code.items = <<>>
      <4>1. code.items \in Seq({}) \/ code.items = [i \in {} |-> 0]
        BY <2>1, <3>1
      <4> QED BY <2>1, <3>1, <4>1
    <3> QED BY <3>2 DEF Refused
  <2>2. CASE Len(code.items) # 0
    BY <2>2, <1>1
  <2> QED BY <2>1, <2>2
<1>3. ASSUME NEW n \in Nodes PROVE NodeTargets(n) \in Seq(Nodes)
  <2>1. Range(NodeTargets(n)) \subseteq Nodes
    BY DEF Refused
  <2>2. NodeTargets(n) \in Seq(Nat)
    BY <1>1 DEF NodeTargets, Known, ItemOK
  <2> DEFINE t == NodeTargets(n)
  <2> HIDE DEF t
  <2>3. t \in Seq(Nat) /\ \A k \in DOMAIN t : t[k] \in Nodes
    BY <2>1, <2>2 DEF Range, t
  <2>4. t \in Seq(Nodes)
    BY <2>3
  <2> QED BY <2>4 DEF t
<1>4. /\ Len(code.handlers) \in Nat /\ DOMAIN code.handlers = 1..Len(code.handlers)
      /\ \A k \in DOMAIN code.handlers : code.handlers[k].catch \in Classes
  <2> DEFINE h == code.handlers
             H == [start : Nat, end : Nat, handler : Nat, catch : Classes]
  <2>1. \A r \in H : r.catch \in Classes
    OBVIOUS
  <2>2. h \in Seq(H)
    BY <1>1
  <2> HIDE DEF h, H
  <2>3. Len(h) \in Nat /\ DOMAIN h = 1..Len(h) /\ \A k \in DOMAIN h : h[k] \in H
    BY <2>2
  <2> QED BY <2>1, <2>3 DEF h
<1>5. ASSUME NEW k \in DOMAIN code.handlers PROVE code.handlers[k].handler \in Nodes
  <2>1. code.handlers[k] \in Range(code.handlers)
    BY DEF Range
  <2> QED BY <2>1 DEF Refused
<1> QED BY <1>1, <1>2, <1>3, <1>4, <1>5

LEMMA NextIsNode ==
    ASSUME NEW n PROVE Next1(n) \in Seq(Nodes)
BY DEF Next1

LEMMA SuccessorsAreNodes ==
    ASSUME code \in Codes, ~Refused, NEW n \in Nodes, NEW f
    PROVE  dynamic_successors(n, f) \in Seq(Nodes)
<1> DEFINE item == code.items[n]
<1>1. item.op \in Ops /\ NodeTargets(n) \in Seq(Nodes)
  BY CodeFacts DEF Known
<1>2. CASE item.op = "ret"
  <2>1. /\ dynamic_successors(n, f) = InOrder(ReturnTargets(get_local(f, item.slot)), Len(code.items))
        /\ Len(code.items) \in Nat /\ Nodes = 1..Len(code.items)
    BY <1>2, CodeFacts DEF dynamic_successors
  <2> DEFINE S == ReturnTargets(get_local(f, item.slot))
             m == Len(code.items)
  <2> HIDE DEF S, m
  <2>2. InOrder(S, m) \in Seq(1..m)
    BY <2>1, InOrderFacts DEF m
  <2> QED BY <2>1, <2>2 DEF S, m
<1>3. CASE item.op # "ret"
  <2>1. dynamic_successors(n, f) = normal_successors(n)
    BY <1>3 DEF dynamic_successors
  <2>2. CASE item.op = "jump"
    <3>1. normal_successors(n) = NodeTargets(n) \o (IF item.falls THEN Next1(n) ELSE <<>>)
      BY <2>2 DEF normal_successors, NodeTargets
    <3>2. (IF item.falls THEN Next1(n) ELSE <<>>) \in Seq(Nodes)
      BY NextIsNode
    <3> QED BY <1>1, <2>1, <3>1, <3>2
  <2>3. CASE item.op = "jsr"
    <3>1. normal_successors(n) = NodeTargets(n)
      BY <2>3 DEF normal_successors, NodeTargets
    <3> QED BY <1>1, <2>1, <3>1
  <2>4. CASE item.op = "end"
    <3>1. normal_successors(n) = <<>>
      BY <2>4 DEF normal_successors
    <3> QED BY <2>1, <3>1
  <2>5. CASE item.op \notin {"jump", "jsr", "end", "ret"}
    <3>1. normal_successors(n) = Next1(n)
      BY Zenon, <2>5 DEF normal_successors
    <3> QED BY <2>1, <3>1, NextIsNode
  <2> QED BY <1>3, <2>2, <2>3, <2>4, <2>5
<1> QED BY <1>2, <1>3

Edge == [target : Nodes, frame : Frames]

LEMMA HandlersFacts ==
    ASSUME code \in Codes, ~Refused, NEW n \in Nodes
    PROVE  /\ Len(HandlersOf(n)) \in Nat /\ DOMAIN HandlersOf(n) = 1..Len(HandlersOf(n))
           /\ \A k \in DOMAIN HandlersOf(n) :
                 HandlersOf(n)[k].handler \in Nodes /\ HandlersOf(n)[k].catch \in Classes
<1> DEFINE S == {k \in DOMAIN code.handlers : code.handlers[k].start <= n /\ n < code.handlers[k].end}
           m == Len(code.handlers)
           at == InOrder(S, m)
           handlers == [k \in DOMAIN at |-> code.handlers[at[k]]]
<1>1. m \in Nat /\ DOMAIN code.handlers = 1..m
  BY CodeFacts
<1>2. HandlersOf(n) = handlers
  BY DEF HandlersOf
<1> HIDE DEF S, m
<1>3. at \in Seq(1..m)
  BY <1>1, InOrderFacts
<1> HIDE DEF at
<1>4. /\ Len(at) \in Nat /\ DOMAIN at = 1..Len(at) /\ \A k \in DOMAIN at : at[k] \in DOMAIN code.handlers
  BY <1>1, <1>3
<1>5. \A k \in DOMAIN at : code.handlers[at[k]].handler \in Nodes /\ code.handlers[at[k]].catch \in Classes
  BY <1>4, CodeFacts
<1>6. DOMAIN handlers = 1..Len(at) /\ Len(handlers) = Len(at)
  BY <1>4
<1> QED BY <1>2, <1>4, <1>5, <1>6

LEMMA ExceptionEdgesFacts ==
    ASSUME code \in Codes, ~Refused, NEW n \in Nodes, NEW f \in Frames
    PROVE  /\ ExceptionEdges(n, f) \in Seq(Edge)
           /\ DOMAIN ExceptionEdges(n, f) = DOMAIN HandlersOf(n)
           /\ \A k \in DOMAIN HandlersOf(n) :
                 /\ ExceptionEdges(n, f)[k] =
                        [target |-> HandlersOf(n)[k].handler,
                         frame |-> Frame(<<ObjectOf(HandlersOf(n)[k].catch)>>, f.locals)]
<1> DEFINE h == HandlersOf(n)
           s == ExceptionEdges(n, f)
<1>1. Len(h) \in Nat /\ DOMAIN h = 1..Len(h) /\ \A k \in DOMAIN h : h[k].handler \in Nodes /\ h[k].catch \in Classes
  BY HandlersFacts
<1> HIDE DEF h
<1>2. s = [k \in DOMAIN h |-> [target |-> h[k].handler, frame |-> Frame(<<ObjectOf(h[k].catch)>>, f.locals)]]
  BY DEF ExceptionEdges, h
<1>3. ASSUME NEW k \in DOMAIN h
      PROVE  [target |-> h[k].handler, frame |-> Frame(<<ObjectOf(h[k].catch)>>, f.locals)] \in Edge
  <2>1. ObjectOf(h[k].catch) \in Types
    BY <1>1 DEF Types, ValueTypes
  <2>2. <<ObjectOf(h[k].catch)>> \in Seq(Types) /\ f.locals \in Seq(Types)
    BY <2>1 DEF Frames
  <2>3. Frame(<<ObjectOf(h[k].catch)>>, f.locals) \in Frames
    BY <2>2, FramesBuilt
  <2> QED BY <1>1, <2>3 DEF Edge
<1> HIDE DEF s
<1>4. DOMAIN s = 1..Len(h) /\ \A k \in 1..Len(h) : s[k] \in Edge
  BY <1>1, <1>2, <1>3
<1>5. s = [k \in 1..Len(h) |-> s[k]]
  BY <1>1, <1>2
<1>6. s \in Seq(Edge)
  <2>1. s \in [1..Len(h) -> Edge]
    BY <1>4, <1>5
  <2>2. \E n1 \in Nat : s \in [1..n1 -> Edge]
    BY <1>1, <2>1
  <2> QED BY <2>2
<1> QED BY <1>1, <1>2, <1>4, <1>6 DEF s, h

LEMMA EdgesFacts ==
    ASSUME NEW targets \in Seq(Nodes), NEW f \in Frames
    PROVE  /\ Edges(targets, f) \in Seq(Edge) /\ DOMAIN Edges(targets, f) = DOMAIN targets
           /\ \A k \in DOMAIN targets : Edges(targets, f)[k] = [target |-> targets[k], frame |-> f]
<1> DEFINE s == Edges(targets, f)
<1>1. s = [k \in DOMAIN targets |-> [target |-> targets[k], frame |-> f]]
  BY DEF Edges
<1>2. Len(targets) \in Nat /\ DOMAIN targets = 1..Len(targets) /\ \A k \in DOMAIN targets : targets[k] \in Nodes
  OBVIOUS
<1> HIDE DEF s
<1>3. DOMAIN s = 1..Len(targets) /\ \A k \in 1..Len(targets) : s[k] \in Edge
  BY <1>1, <1>2 DEF Edge
<1>4. s = [k \in 1..Len(targets) |-> s[k]]
  BY <1>1, <1>2
<1>5. s \in Seq(Edge)
  <2>1. s \in [1..Len(targets) -> Edge]
    BY <1>3, <1>4
  <2>2. \E n \in Nat : s \in [1..n -> Edge]
    BY <1>2, <2>1
  <2> QED BY <2>2
<1> QED BY <1>1, <1>2, <1>3, <1>5 DEF s

LEMMA RangeOfBoth ==
    ASSUME NEW S, NEW s \in Seq(S), NEW t \in Seq(S)
    PROVE  s \o t \in Seq(S) /\ Range(s \o t) = Range(s) \cup Range(t)
<1> DEFINE c == s \o t
<1>1. /\ c \in Seq(S) /\ Len(s) \in Nat /\ Len(t) \in Nat /\ DOMAIN s = 1..Len(s) /\ DOMAIN t = 1..Len(t)
      /\ DOMAIN c = 1..(Len(s) + Len(t))
      /\ \A k \in DOMAIN s : c[k] = s[k]
      /\ \A k \in DOMAIN t : c[Len(s) + k] = t[k]
  OBVIOUS
<1> HIDE DEF c
<1>2. /\ \A k \in DOMAIN c : k \in DOMAIN s \/ (k - Len(s) \in DOMAIN t /\ Len(s) + (k - Len(s)) = k)
      /\ \A k \in DOMAIN s : k \in DOMAIN c
      /\ \A k \in DOMAIN t : Len(s) + k \in DOMAIN c
  BY <1>1
<1>3. Range(c) \subseteq Range(s) \cup Range(t)
  BY <1>1, <1>2 DEF Range
<1>4. Range(s) \cup Range(t) \subseteq Range(c)
  BY <1>1, <1>2 DEF Range
<1> QED BY <1>1, <1>3, <1>4 DEF c

\* The edges out of a node: to its successors with the frame after it, and to
\* its handlers with the locals before it.
LEMMA EdgesOfFacts ==
    ASSUME code \in Codes, ~Refused, NEW n \in Nodes, NEW f \in Frames, NEW next \in Frames
    PROVE  /\ EdgesOf(n, f, next) \in Seq(Edge)
           /\ \A m \in Range(dynamic_successors(n, f)) :
                 [target |-> m, frame |-> next] \in Range(EdgesOf(n, f, next))
           /\ \A k \in DOMAIN HandlersOf(n) :
                 [target |-> HandlersOf(n)[k].handler,
                  frame |-> Frame(<<ObjectOf(HandlersOf(n)[k].catch)>>, f.locals)]
                 \in Range(EdgesOf(n, f, next))
<1> DEFINE thrown == ExceptionEdges(n, f)
           targets == dynamic_successors(n, f)
           flows == Edges(targets, next)
<1>1. targets \in Seq(Nodes)
  BY SuccessorsAreNodes
<1> HIDE DEF targets
<1>2. /\ flows \in Seq(Edge) /\ DOMAIN flows = DOMAIN targets
      /\ \A k \in DOMAIN targets : flows[k] = [target |-> targets[k], frame |-> next]
  BY <1>1, EdgesFacts
<1>3. /\ thrown \in Seq(Edge) /\ DOMAIN thrown = DOMAIN HandlersOf(n)
      /\ \A k \in DOMAIN HandlersOf(n) :
            thrown[k] = [target |-> HandlersOf(n)[k].handler,
                         frame |-> Frame(<<ObjectOf(HandlersOf(n)[k].catch)>>, f.locals)]
  BY ExceptionEdgesFacts
<1>4. EdgesOf(n, f, next) = thrown \o flows
  BY DEF EdgesOf, targets
<1> HIDE DEF thrown, flows
<1>5. /\ EdgesOf(n, f, next) \in Seq(Edge)
      /\ Range(EdgesOf(n, f, next)) = Range(thrown) \cup Range(flows)
  BY <1>2, <1>3, <1>4, RangeOfBoth
<1>6. \A m \in Range(targets) : [target |-> m, frame |-> next] \in Range(flows)
  BY <1>2 DEF Range
<1>7. \A k \in DOMAIN HandlersOf(n) :
         [target |-> HandlersOf(n)[k].handler,
          frame |-> Frame(<<ObjectOf(HandlersOf(n)[k].catch)>>, f.locals)] \in Range(thrown)
  BY <1>3 DEF Range
<1> QED BY <1>5, <1>6, <1>7 DEF targets

-----------------------------------------------------------------------------
(* The analysis. *)

\* What has flowed into a node says at least what its frame says.
Absorbed(e) == \E g \in entry_frames[e.target] : FrameSaysLess(g, e.frame)

\* The limits hold at a node and behind it, and all edges out of it are taken
\* care of, now or when their turn comes.
Settled(n, f) ==
    \E next \in simulate_item(code.items[n], f, n) :
        /\ Len(f.stack) <= max_stack
        /\ Len(f.locals) <= max_locals /\ Len(next.locals) <= max_locals
        /\ \A e \in Range(EdgesOf(n, f, next)) : Absorbed(e) \/ e \in Range(edges)

AnalysisState ==
    /\ code \in Codes /\ resolver \in Resolvers
    /\ phase \in {"simulating", "done", "failed"}
    /\ entry_frames \in [Nodes -> SUBSET Frames]
    /\ \A n \in Nodes : \A f, g \in entry_frames[n] : f = g

\* Each node with a frame waits to be visited or is settled.
Accounted ==
    /\ ~Refused
    /\ worklist \in Seq(Nodes) /\ edges \in Seq(Edge)
    /\ max_stack \in Nat /\ max_locals \in Nat
    /\ \E f \in entry_frames[1] : FrameSaysLess(f, initial_frame)
    /\ \A n \in Nodes : \A f \in entry_frames[n] : n \in Range(worklist) \/ Settled(n, f)

IInv ==
    /\ AnalysisState
    /\ phase # "failed" => Accounted
    /\ phase = "done" => worklist = <<>> /\ edges = <<>>

LEMMA SameCode ==
    ASSUME code' = code
    PROVE  /\ Nodes' = Nodes /\ Types' = Types /\ Frames' = Frames /\ Edge' = Edge
           /\ Refused' <=> Refused
           /\ initial_frame' = initial_frame
           /\ \A n, f : simulate_item(code.items[n], f, n)' = simulate_item(code.items[n], f, n)
           /\ \A n, f, g : EdgesOf(n, f, g)' = EdgesOf(n, f, g)
<1>1. Nodes' = Nodes
  BY DEF Nodes
<1>2. Types' = Types
  BY <1>1 DEF Types
<1>3. Frames' = Frames /\ Edge' = Edge
  BY <1>1, <1>2 DEF Frames, Edge
<1>4. initial_frame' = initial_frame
  BY DEF initial_frame
<1>5. \A n : NodeTargets(n)' = NodeTargets(n) /\ Next1(n)' = Next1(n)
  BY <1>1 DEF NodeTargets, Next1
<1>6. Refused' <=> Refused
  BY <1>1, <1>5 DEF Refused
<1>7. \A n, f : simulate_item(code.items[n], f, n)' = simulate_item(code.items[n], f, n)
  BY <1>5 DEF simulate_item
<1>8. \A n : HandlersOf(n)' = HandlersOf(n)
  BY DEF HandlersOf
<1>9. \A n : normal_successors(n)' = normal_successors(n)
  BY <1>5 DEF normal_successors
<1>10. \A n, f : dynamic_successors(n, f)' = dynamic_successors(n, f)
  BY <1>9 DEF dynamic_successors
<1>11. \A n, f, g : EdgesOf(n, f, g)' = EdgesOf(n, f, g)
  BY <1>8, <1>10 DEF EdgesOf, ExceptionEdges
<1> QED BY <1>1, <1>2, <1>3, <1>4, <1>6, <1>7, <1>11

LEMMA InitialFrame ==
    ASSUME code \in Codes PROVE initial_frame \in Frames
<1>1. code.this \in Seq(ValueTypes \cup {UninitializedThis}) /\ code.params \in Seq(ValueTypes)
  BY CodeShapes
<1>2. ValueTypes \cup {UninitializedThis} \subseteq Types
  BY DEF Types
<1>3. code.this \in Seq(Types)
  <2> DEFINE V == ValueTypes \cup {UninitializedThis}
             s == code.this
  <2> HIDE DEF V, s
  <2>1. s \in Seq(V) /\ V \subseteq Types
    BY <1>1, <1>2 DEF V, s
  <2>2. s \in Seq(Types)
    BY <2>1
  <2> QED BY <2>2 DEF s
<1>4. Slots(code.params) \in Seq(Types)
  <2>1. code.params \in Seq(Types)
    BY <1>1, TypesHasNames
  <2> QED BY <2>1, SlotsAreTypes
<1>5. code.this \o Slots(code.params) \in Seq(Types) /\ <<>> \in Seq(Types)
  BY <1>3, <1>4
<1> QED BY <1>5, FramesBuilt DEF initial_frame

LEMMA InitHolds == Init => IInv
<1> SUFFICES ASSUME Init PROVE IInv
  OBVIOUS
<1>1. code \in Codes /\ resolver \in Resolvers /\ initial_frame \in Frames
  BY InitialFrame DEF Init
<1>2. entry_frames = [n \in Nodes |-> IF n = 1 THEN {initial_frame} ELSE {}]
  BY DEF Init
<1>3. AnalysisState
  BY <1>1, <1>2 DEF Init, AnalysisState
<1>4. ASSUME phase # "failed" PROVE Accounted
  <2>1. ~Refused
    BY <1>4 DEF Init
  <2>2. 1 \in Nodes
    BY <1>1, <2>1, CodeFacts
  <2>3. entry_frames[1] = {initial_frame} /\ FrameSaysLess(initial_frame, initial_frame)
    BY <1>1, <1>2, <2>2, SaysLessFrames
  <2>4. worklist = <<1>> /\ edges = <<>> /\ max_stack = 0 /\ max_locals = 0
    BY DEF Init
  <2>5. worklist \in Seq(Nodes) /\ edges \in Seq(Edge) /\ 1 \in Range(worklist)
    BY <2>2, <2>4 DEF Range
  <2>6. \A n \in Nodes : entry_frames[n] # {} => n = 1
    BY <1>2
  <2> QED BY <2>1, <2>3, <2>4, <2>5, <2>6 DEF Accounted
<1>5. phase # "done"
  BY DEF Init
<1> QED BY <1>3, <1>4, <1>5 DEF IInv

LEMMA HeadAndTail ==
    ASSUME NEW S, NEW s \in Seq(S), s # <<>>
    PROVE  /\ Head(s) \in S /\ Tail(s) \in Seq(S)
           /\ Range(s) = {Head(s)} \cup Range(Tail(s))
<1>1. /\ Head(s) = s[1] /\ Head(s) \in S /\ Tail(s) \in Seq(S)
      /\ Len(s) \in Nat /\ Len(s) >= 1 /\ DOMAIN s = 1..Len(s)
      /\ DOMAIN Tail(s) = 1..(Len(s) - 1)
      /\ \A k \in 1..(Len(s) - 1) : Tail(s)[k] = s[k + 1]
  OBVIOUS
<1> DEFINE t == Tail(s)
<1> HIDE DEF t
<1>2. /\ DOMAIN t = 1..(Len(s) - 1) /\ \A k \in 1..(Len(s) - 1) : t[k] = s[k + 1]
      /\ \A k \in DOMAIN s : k = 1 \/ (k - 1 \in 1..(Len(s) - 1) /\ (k - 1) + 1 = k)
      /\ \A k \in 1..(Len(s) - 1) : k + 1 \in DOMAIN s
      /\ 1 \in DOMAIN s
  BY <1>1 DEF t
<1>3. Range(s) \subseteq {s[1]} \cup Range(t)
  BY <1>2 DEF Range
<1>4. {s[1]} \cup Range(t) \subseteq Range(s)
  <2>1. s[1] \in Range(s)
    BY <1>2 DEF Range
  <2>2. \A k \in DOMAIN t : t[k] \in Range(s)
    BY <1>2 DEF Range
  <2> QED BY <2>1, <2>2 DEF Range
<1> QED BY <1>1, <1>3, <1>4 DEF t

LEMMA MaxFacts ==
    ASSUME NEW a \in Nat, NEW b \in Nat, NEW c \in Nat
    PROVE  Max({a, b, c}) \in Nat /\ a <= Max({a, b, c}) /\ b <= Max({a, b, c}) /\ c <= Max({a, b, c})
<1>1. \E x \in {a, b, c} : \A y \in {a, b, c} : x >= y
  OBVIOUS
<1>2. Max({a, b, c}) \in {a, b, c} /\ \A y \in {a, b, c} : Max({a, b, c}) >= y
  BY <1>1 DEF Max
<1> DEFINE m == Max({a, b, c})
<1> HIDE DEF m
<1>3. m \in {a, b, c} /\ \A y \in {a, b, c} : m >= y
  BY <1>2 DEF m
<1>4. m \in Nat /\ a <= m /\ b <= m /\ c <= m
  BY <1>3
<1> QED BY <1>4 DEF m

LEMMA VisitSteps == ASSUME IInv, Visit PROVE IInv' /\ entry_frames' = entry_frames
<1>1. /\ phase = "simulating" /\ edges = <<>> /\ worklist # <<>>
      /\ code' = code /\ resolver' = resolver /\ entry_frames' = entry_frames
  BY DEF Visit
<1>2. AnalysisState /\ Accounted
  BY <1>1 DEF IInv
<1>3. PICK n \in Nodes : n = Head(worklist)
  BY <1>1, <1>2, HeadAndTail DEF Accounted
<1>4. Tail(worklist) \in Seq(Nodes) /\ Range(worklist) = {n} \cup Range(Tail(worklist))
  BY <1>1, <1>2, <1>3, HeadAndTail DEF Accounted
<1>5. /\ Nodes' = Nodes /\ Frames' = Frames /\ Edge' = Edge /\ (Refused' <=> Refused)
      /\ initial_frame' = initial_frame
      /\ \A m, f : simulate_item(code.items[m], f, m)' = simulate_item(code.items[m], f, m)
      /\ \A m, f, g : EdgesOf(m, f, g)' = EdgesOf(m, f, g)
  BY <1>1, SameCode
<1>6. PICK f \in entry_frames[n] :
         \/ phase' = "failed"
         \/ \E next \in simulate_item(code.items[n], f, n) :
               /\ edges' = EdgesOf(n, f, next)
               /\ worklist' = Tail(worklist)
               /\ max_stack' = Max({max_stack, Len(f.stack), Len(next.stack)})
               /\ max_locals' = Max({max_locals, Len(f.locals), Len(next.locals)})
               /\ phase' = phase
  BY <1>3 DEF Visit
<1>7. phase' \in {"simulating", "failed"}
  BY <1>1, <1>6
<1>8. AnalysisState'
  BY <1>1, <1>2, <1>5, <1>7 DEF AnalysisState
<1>9. CASE phase' = "failed"
  BY <1>1, <1>8, <1>9 DEF IInv
<1>10. CASE phase' # "failed"
  <2>1. PICK next \in simulate_item(code.items[n], f, n) :
               /\ edges' = EdgesOf(n, f, next)
               /\ worklist' = Tail(worklist)
               /\ max_stack' = Max({max_stack, Len(f.stack), Len(next.stack)})
               /\ max_locals' = Max({max_locals, Len(f.locals), Len(next.locals)})
    BY <1>6, <1>10
  <2>2. /\ code \in Codes /\ ~Refused /\ max_stack \in Nat /\ max_locals \in Nat
        /\ f \in Frames /\ \A g \in entry_frames[n] : g = f
    BY <1>2, <1>6 DEF AnalysisState, Accounted
  <2>3. Known(code.items[n])
    BY <2>2, CodeFacts
  <2>4. next \in Frames
    BY <2>1, <2>2, <2>3, FrameAfter
  <2>5. edges' \in Seq(Edge)
    BY <2>1, <2>2, <2>4, EdgesOfFacts
  <2>6. /\ Len(f.stack) \in Nat /\ Len(f.locals) \in Nat /\ Len(next.stack) \in Nat /\ Len(next.locals) \in Nat
    BY <2>2, <2>4, FrameParts
  <2>7. /\ max_stack' \in Nat /\ max_stack <= max_stack' /\ Len(f.stack) <= max_stack'
        /\ max_locals' \in Nat /\ max_locals <= max_locals'
        /\ Len(f.locals) <= max_locals' /\ Len(next.locals) <= max_locals'
    BY <2>1, <2>2, <2>6, MaxFacts
  <2>8. Settled(n, f)'
    <3>1. next \in simulate_item(code.items[n], f, n)'
      BY <1>5
    <3>2. EdgesOf(n, f, next)' = edges'
      BY <1>5, <2>1
    <3> QED BY <2>7, <3>1, <3>2 DEF Settled
  <2>9. ASSUME NEW m \in Nodes, NEW g \in entry_frames[m]
        PROVE  m \in Range(worklist') \/ Settled(m, g)'
    <3>1. CASE m = n
      BY <2>2, <2>8, <3>1
    <3>2. CASE m # n /\ m \in Range(worklist)
      BY <1>4, <2>1, <3>2
    <3>3. CASE Settled(m, g)
      <4>1. PICK after \in simulate_item(code.items[m], g, m) :
               /\ Len(g.stack) <= max_stack
               /\ Len(g.locals) <= max_locals /\ Len(after.locals) <= max_locals
               /\ \A e \in Range(EdgesOf(m, g, after)) : Absorbed(e)
        BY <1>1, <3>3 DEF Settled, Range
      <4>2. g \in Frames /\ after \in Frames
        BY <1>2, <2>2, CodeFacts, FrameAfter DEF AnalysisState
      <4>3. /\ Len(g.stack) <= max_stack'
            /\ Len(g.locals) <= max_locals' /\ Len(after.locals) <= max_locals'
        BY <2>2, <2>7, <4>1, <4>2, FrameParts
      <4>4. after \in simulate_item(code.items[m], g, m)'
        BY <1>5
      <4>5. \A e \in Range(EdgesOf(m, g, after)') : Absorbed(e)'
        BY <1>1, <1>5, <4>1 DEF Absorbed
      <4> QED BY <4>3, <4>4, <4>5 DEF Settled
    <3> QED BY <1>2, <3>1, <3>2, <3>3 DEF Accounted
  <2>10. worklist' \in Seq(Nodes)
    BY <1>4, <2>1
  <2>11. \E g \in entry_frames'[1] : FrameSaysLess(g, initial_frame')
    BY <1>1, <1>2, <1>5 DEF Accounted
  <2>12. Accounted'
    BY <1>1, <1>5, <2>2, <2>5, <2>7, <2>9, <2>10, <2>11 DEF Accounted
  <2> QED BY <1>1, <1>7, <1>8, <1>10, <2>12 DEF IInv
<1> QED BY <1>1, <1>9, <1>10

\* A new frame of a node that says less takes nothing back.
LEMMA AbsorbedStays ==
    ASSUME IInv, NEW t \in Nodes, NEW g \in Frames,
           entry_frames' = [entry_frames EXCEPT ![t] = {g}],
           \A f \in entry_frames[t] : FrameSaysLess(g, f),
           NEW e \in Edge, Absorbed(e)
    PROVE  Absorbed(e)'
<1>1. PICK f \in entry_frames[e.target] : FrameSaysLess(f, e.frame)
  BY DEF Absorbed
<1>2. e.target \in Nodes /\ e.frame \in Frames
  BY DEF Edge
<1>3. f \in Frames /\ DOMAIN entry_frames = Nodes
  BY <1>1, <1>2 DEF IInv, AnalysisState
<1>4. CASE e.target = t
  <2>1. FrameSaysLess(g, e.frame)
    BY <1>1, <1>2, <1>3, <1>4, FramesTransitive
  <2>2. entry_frames'[e.target] = {g}
    BY <1>3, <1>4
  <2> QED BY <2>1, <2>2 DEF Absorbed
<1>5. CASE e.target # t
  <2>1. entry_frames'[e.target] = entry_frames[e.target]
    BY <1>2, <1>3, <1>5
  <2> QED BY <1>1, <2>1 DEF Absorbed
<1> QED BY <1>4, <1>5

\* A node stays settled as long as what it waits for is absorbed.
LEMMA SettledStays ==
    ASSUME IInv, Accounted, code' = code, max_stack' = max_stack, max_locals' = max_locals,
           \A e \in Edge : Absorbed(e) => Absorbed(e)',
           \A e \in Range(edges) : e \in Range(edges') \/ Absorbed(e)',
           NEW n \in Nodes, NEW f \in entry_frames[n], Settled(n, f)
    PROVE  Settled(n, f)'
<1>1. PICK next \in simulate_item(code.items[n], f, n) :
         /\ Len(f.stack) <= max_stack
         /\ Len(f.locals) <= max_locals /\ Len(next.locals) <= max_locals
         /\ \A e \in Range(EdgesOf(n, f, next)) : Absorbed(e) \/ e \in Range(edges)
  BY DEF Settled
<1>2. /\ next \in simulate_item(code.items[n], f, n)'
      /\ EdgesOf(n, f, next)' = EdgesOf(n, f, next)
  BY <1>1, SameCode
<1>3. f \in Frames /\ code \in Codes /\ ~Refused
  BY DEF IInv, AnalysisState, Accounted
<1>4. next \in Frames
  BY <1>1, <1>3, CodeFacts, FrameAfter
<1>5. Range(EdgesOf(n, f, next)) \subseteq Edge
  BY <1>3, <1>4, EdgesOfFacts DEF Range
<1>6. \A e \in Range(EdgesOf(n, f, next)') : Absorbed(e)' \/ e \in Range(edges')
  BY <1>1, <1>2, <1>5
<1> QED BY <1>1, <1>2, <1>6 DEF Settled

LEMMA QueueFacts ==
    ASSUME worklist \in Seq(Nodes), NEW t \in Nodes, NEW old, NEW new
    PROVE  /\ Queue(t, old, new) \in Seq(Nodes)
           /\ Range(worklist) \subseteq Range(Queue(t, old, new))
           /\ new # old => t \in Range(Queue(t, old, new))
<1>1. CASE new = old \/ t \in Range(worklist)
  BY <1>1 DEF Queue
<1>2. CASE new # old /\ t \notin Range(worklist)
  <2>1. Queue(t, old, new) = Append(worklist, t)
    BY <1>2 DEF Queue
  <2>2. Append(worklist, t) = worklist \o <<t>> /\ <<t>> \in Seq(Nodes) /\ t \in Range(<<t>>)
    BY DEF Range
  <2>3. worklist \o <<t>> \in Seq(Nodes) /\ Range(worklist \o <<t>>) = Range(worklist) \cup Range(<<t>>)
    BY ZenonT(40), <2>2, RangeOfBoth
  <2> QED BY <2>1, <2>2, <2>3
<1> QED BY <1>1, <1>2

\* The frame of a node after a step.
Grows(n) == \A f \in entry_frames[n] : \E g \in entry_frames'[n] : merge_frames(f, g) = {g}

LEMMA SameFramesGrow ==
    ASSUME IInv, entry_frames' = entry_frames, NEW n \in Nodes PROVE Grows(n)
BY MergeSame DEF IInv, AnalysisState, Grows

LEMMA PropagateSteps ==
    ASSUME IInv, Propagate PROVE IInv' /\ \A n \in Nodes : Grows(n)
<1>1. /\ phase = "simulating" /\ edges # <<>>
      /\ code' = code /\ resolver' = resolver /\ max_stack' = max_stack /\ max_locals' = max_locals
  BY DEF Propagate
<1>2. AnalysisState /\ Accounted
  BY <1>1 DEF IInv
<1>3. PICK e \in Edge : e = Head(edges)
  BY <1>1, <1>2, HeadAndTail DEF Accounted
<1>4. Tail(edges) \in Seq(Edge) /\ Range(edges) = {e} \cup Range(Tail(edges))
  BY <1>1, <1>2, <1>3, HeadAndTail DEF Accounted
<1>5. /\ Nodes' = Nodes /\ Frames' = Frames /\ Edge' = Edge /\ (Refused' <=> Refused)
      /\ initial_frame' = initial_frame
  BY <1>1, SameCode
<1>6. PICK t \in Nodes : t = e.target
  BY DEF Edge
<1>7. e.frame \in Frames
  BY DEF Edge
<1> DEFINE old == entry_frames[t]
           new == Merged(old, e.frame)
<1>8. \/ new = {} /\ phase' = "failed" /\ entry_frames' = entry_frames
      \/ /\ new # {} /\ phase' = phase
         /\ entry_frames' = [entry_frames EXCEPT ![t] = new]
         /\ worklist' = Queue(t, old, new)
         /\ edges' = Tail(edges)
  BY <1>3, <1>6 DEF Propagate
<1>9. CASE new = {}
  <2>1. AnalysisState'
    BY <1>1, <1>2, <1>5, <1>8, <1>9 DEF AnalysisState
  <2>2. IInv'
    BY <1>8, <1>9, <2>1 DEF IInv
  <2> QED BY <1>8, <1>9, <2>2, SameFramesGrow
<1>10. CASE new # {}
  <2>1. resolver \in Resolvers /\ entry_frames \in [Nodes -> SUBSET Frames]
    BY <1>2 DEF AnalysisState
  <2>2. old = {} \/ \E a \in Frames : old = {a}
    BY <1>2, <2>1 DEF AnalysisState
  <2> HIDE DEF old
  <2>3. PICK g \in Frames :
            /\ new = {g} /\ FrameSaysLess(g, e.frame)
            /\ \A a \in old : merge_frames(a, g) = {g} /\ FrameSaysLess(g, a)
    BY <1>7, <1>10, <2>1, <2>2, MergedFacts
  <2>4. /\ entry_frames' = [entry_frames EXCEPT ![t] = {g}]
        /\ worklist' = Queue(t, old, new) /\ edges' = Tail(edges) /\ phase' = phase
    BY <1>8, <1>10, <2>3
  <2>5. /\ entry_frames' \in [Nodes -> SUBSET Frames]
        /\ entry_frames'[t] = {g} /\ \A n \in Nodes \ {t} : entry_frames'[n] = entry_frames[n]
    BY <2>1, <2>4
  <2>6. \A n \in Nodes : Grows(n)
    <3>1. Grows(t)
      BY <2>3, <2>5 DEF Grows, old
    <3>2. ASSUME NEW n \in Nodes \ {t} PROVE Grows(n)
      BY <2>1, <2>5, MergeSame DEF Grows
    <3> QED BY <3>1, <3>2
  <2>7. AnalysisState'
    <3>1. \A n \in Nodes : \A a, b \in entry_frames'[n] : a = b
      BY <1>2, <2>5 DEF AnalysisState
    <3> QED BY <1>1, <1>2, <1>5, <2>4, <2>5, <3>1 DEF AnalysisState
  <2>8. \A x \in Edge : Absorbed(x) => Absorbed(x)'
    BY <2>3, <2>4, AbsorbedStays DEF old
  <2>9. Absorbed(e)'
    <3>1. g \in entry_frames'[e.target]
      BY <1>6, <2>5
    <3> QED BY <2>3, <3>1 DEF Absorbed
  <2>10. \A x \in Range(edges) : x \in Range(edges') \/ Absorbed(x)'
    BY <1>4, <2>4, <2>9
  <2>11. /\ worklist' \in Seq(Nodes) /\ Range(worklist) \subseteq Range(worklist')
         /\ new # old => t \in Range(worklist')
    BY <1>2, <2>4, QueueFacts DEF Accounted
  <2>12. ASSUME NEW n \in Nodes, NEW f \in entry_frames'[n]
         PROVE  n \in Range(worklist') \/ Settled(n, f)'
    <3>1. CASE n = t /\ new # old
      BY <2>11, <3>1
    <3>2. CASE n # t \/ new = old
      <4>1. f \in entry_frames[n]
        BY <2>3, <2>5, <3>2 DEF old
      <4>2. n \in Range(worklist) \/ Settled(n, f)
        BY <1>2, <4>1 DEF Accounted
      <4>3. CASE n \in Range(worklist)
        BY <2>11, <4>3
      <4>4. CASE Settled(n, f)
        BY <1>1, <1>2, <2>8, <2>10, <4>1, <4>4, SettledStays
      <4> QED BY <4>2, <4>3, <4>4
    <3> QED BY <3>1, <3>2
  <2>13. \E f \in entry_frames'[1] : FrameSaysLess(f, initial_frame)
    <3>1. 1 \in Nodes /\ initial_frame \in Frames
      BY <1>2, CodeFacts, InitialFrame DEF AnalysisState, Accounted
    <3>2. PICK f \in entry_frames[1] : FrameSaysLess(f, initial_frame)
      BY <1>2 DEF Accounted
    <3>3. CASE t = 1
      <4>1. FrameSaysLess(g, f) /\ f \in Frames
        BY <2>1, <2>3, <3>1, <3>2, <3>3 DEF old
      <4>2. FrameSaysLess(g, initial_frame)
        BY <3>1, <3>2, <4>1, FramesTransitive
      <4> QED BY <2>5, <3>3, <4>2
    <3>4. CASE t # 1
      BY <2>5, <3>1, <3>2, <3>4
    <3> QED BY <3>3, <3>4
  <2>14. Accounted'
    BY <1>1, <1>2, <1>4, <1>5, <2>4, <2>11, <2>12, <2>13 DEF Accounted
  <2> QED BY <1>1, <2>4, <2>6, <2>7, <2>14 DEF IInv
<1> QED BY <1>9, <1>10

\* Whatever else changes, the analysis stays as it was.
AnalysisRests == UNCHANGED <<code, resolver, entry_frames, worklist, edges, max_stack, max_locals>>

LEMMA RestKeeps ==
    ASSUME IInv, AnalysisRests,
           phase' = phase \/ (phase' = "done" /\ phase # "failed" /\ worklist = <<>> /\ edges = <<>>)
    PROVE  IInv' /\ \A n \in Nodes : Grows(n)
<1>1. /\ code' = code /\ resolver' = resolver /\ entry_frames' = entry_frames
      /\ worklist' = worklist /\ edges' = edges
      /\ max_stack' = max_stack /\ max_locals' = max_locals
  BY DEF AnalysisRests
<1>2. /\ Nodes' = Nodes /\ Frames' = Frames /\ Edge' = Edge /\ (Refused' <=> Refused)
      /\ initial_frame' = initial_frame
  BY <1>1, SameCode
<1>3. AnalysisState'
  BY <1>1, <1>2 DEF IInv, AnalysisState
<1>4. ASSUME Accounted PROVE Accounted'
  <2>1. \A e \in Edge : Absorbed(e) => Absorbed(e)'
    BY <1>1 DEF Absorbed
  <2>2. \A e \in Range(edges) : e \in Range(edges')
    BY <1>1
  <2>3. \A n \in Nodes : \A f \in entry_frames[n] : Settled(n, f) => Settled(n, f)'
    BY <1>1, <1>4, <2>1, <2>2, SettledStays
  <2> QED BY <1>1, <1>2, <1>4, <2>3 DEF Accounted
<1>5. IInv'
  BY <1>1, <1>3, <1>4 DEF IInv
<1> QED BY <1>1, <1>5, SameFramesGrow

LEMMA NextGrows == ASSUME IInv, [Next]_vars PROVE IInv' /\ \A n \in Nodes : Grows(n)
<1>1. CASE Visit
  BY <1>1, VisitSteps, SameFramesGrow
<1>2. CASE Propagate
  BY <1>2, PropagateSteps
<1>3. CASE Finish
  <2>1. /\ AnalysisRests /\ phase = "simulating" /\ phase' = "done" /\ worklist = <<>> /\ edges = <<>>
    BY <1>3 DEF Finish, AnalysisRests
  <2> QED BY <2>1, RestKeeps
<1>4. CASE Enter
  <2>1. AnalysisRests /\ phase' = phase
    BY <1>4 DEF Enter, AnalysisRests
  <2> QED BY <2>1, RestKeeps
<1>5. CASE Execute
  <2>1. AnalysisRests /\ phase' = phase
    BY <1>5 DEF Execute, AnalysisRests
  <2> QED BY <2>1, RestKeeps
<1>6. CASE Throw
  <2>1. AnalysisRests /\ phase' = phase
    BY <1>6 DEF Throw, AnalysisRests
  <2> QED BY <2>1, RestKeeps
<1>7. CASE UNCHANGED vars
  <2>1. AnalysisRests /\ phase' = phase
    BY <1>7 DEF vars, AnalysisRests
  <2> QED BY <2>1, RestKeeps
<1> QED BY <1>1, <1>2, <1>3, <1>4, <1>5, <1>6, <1>7 DEF Next, Simulate

\* A frame is only ever replaced by one that says less (propagate and
\* merge_frames in analysis/mod.rs), whatever the code and the class hierarchy:
\* a chain that is cyclic or leaves the known classes joins in Object for good.
THEOREM FramesAlwaysOnlyGrow == Spec => FramesOnlyGrow
<1>1. ASSUME IInv, [Next]_vars
      PROVE  \A n \in DOMAIN entry_frames :
                \A f \in entry_frames[n] : \E g \in entry_frames'[n] : merge_frames(f, g) = {g}
  <2>1. \A n \in Nodes : Grows(n)
    BY <1>1, NextGrows
  <2>2. DOMAIN entry_frames = Nodes
    BY <1>1 DEF IInv, AnalysisState
  <2> QED BY <2>1, <2>2 DEF Grows
<1>2. IInv /\ [Next]_vars => IInv'
  BY NextGrows
<1> QED BY <1>1, <1>2, InitHolds, PTL DEF Spec, FramesOnlyGrow

-----------------------------------------------------------------------------
(* The machine.                                                            *)
(*                                                                         *)
(* Nothing is said of the classes of objects: the limits need to know only   *)
(* where the longs are and to where a subroutine may return.                 *)

\* A type and the type of a value that it stands for.
Alike(t, a) ==
    \/ t = Top \/ a = Top
    \/ /\ t = Long <=> a = Long
       /\ a.kind = "return" => t.kind = "return" /\ a.targets \subseteq t.targets

FrameFits(f, m) ==
    /\ Len(f.stack) = Len(m.stack)
    /\ \A i \in DOMAIN f.stack : Alike(f.stack[i], m.stack[i])
    /\ \A i : Alike(At(f.locals, i), At(m.locals, i))

LEMMA AlikeItself == ASSUME NEW t PROVE Alike(t, t)
BY DEF Alike

LEMMA FitsItself == ASSUME NEW f \in Frames PROVE FrameFits(f, f)
BY AlikeItself DEF FrameFits

LEMMA LessIsAlike == ASSUME NEW t, NEW b, NEW a, SaysLess(t, b), Alike(b, a) PROVE Alike(t, a)
BY DEF SaysLess, Alike

\* A frame that says less fits what the other fits.
LEMMA LessFits ==
    ASSUME NEW g \in Frames, NEW e \in Frames, NEW m \in Frames, FrameSaysLess(g, e), FrameFits(e, m)
    PROVE  FrameFits(g, m)
<1>1. DOMAIN g.stack = DOMAIN e.stack /\ Len(g.stack) = Len(m.stack)
  BY FrameParts DEF FrameSaysLess, FrameFits
<1>2. \A i \in DOMAIN g.stack : Alike(g.stack[i], m.stack[i])
  BY <1>1, LessIsAlike DEF FrameSaysLess, FrameFits
<1>3. ASSUME NEW i PROVE Alike(At(g.locals, i), At(m.locals, i))
  <2>1. CASE i \in DOMAIN g.locals
    <3>1. SaysLess(At(g.locals, i), At(e.locals, i))
      BY <2>1 DEF FrameSaysLess, At
    <3> QED BY <3>1, LessIsAlike DEF FrameFits
  <2>2. CASE i \notin DOMAIN g.locals
    BY <2>2 DEF At, Alike
  <2> QED BY <2>1, <2>2
<1> QED BY <1>1, <1>2, <1>3 DEF FrameFits

LEMMA PopFits ==
    ASSUME NEW f \in Frames, NEW m \in Frames, FrameFits(f, m), NEW k \in Nat,
           NEW g \in pop(f, k), NEW h \in pop(m, k)
    PROVE  g \in Frames /\ h \in Frames /\ FrameFits(g, h)
<1>1. /\ g \in Frames /\ g.locals = f.locals /\ Len(g.stack) = Len(f.stack) - k
      /\ \A i \in 1..Len(g.stack) : i \in DOMAIN f.stack /\ g.stack[i] = f.stack[i]
  BY PopFacts
<1>2. /\ h \in Frames /\ h.locals = m.locals /\ Len(h.stack) = Len(m.stack) - k
      /\ \A i \in 1..Len(h.stack) : h.stack[i] = m.stack[i]
  BY PopFacts
<1>3. Len(g.stack) = Len(h.stack) /\ DOMAIN g.stack = 1..Len(g.stack)
  BY <1>1, <1>2, FrameParts DEF FrameFits
<1>4. \A i \in DOMAIN g.stack : Alike(g.stack[i], h.stack[i])
  BY <1>1, <1>2, <1>3 DEF FrameFits
<1> QED BY <1>1, <1>2, <1>3, <1>4 DEF FrameFits

\* Lists of types that are alike, one by one.
AllAlike(s, t) == Len(s) = Len(t) /\ \A i \in DOMAIN s : Alike(s[i], t[i])

LEMMA StackFits ==
    ASSUME NEW f \in Frames, NEW m \in Frames, FrameFits(f, m),
           NEW s \in Seq(Types), NEW t \in Seq(Types), AllAlike(s, t)
    PROVE  FrameFits(Frame(f.stack \o s, f.locals), Frame(m.stack \o t, m.locals))
<1> DEFINE a == f.stack
           b == m.stack
           x == a \o s
           y == b \o t
<1>1. a \in Seq(Types) /\ b \in Seq(Types) /\ AllAlike(a, b)
  BY DEF Frames, FrameFits, AllAlike
<1> HIDE DEF a, b
<1>2. /\ Len(x) = Len(y) /\ DOMAIN x = 1..(Len(a) + Len(s))
      /\ Len(a) = Len(b) /\ Len(s) = Len(t) /\ Len(a) \in Nat /\ Len(s) \in Nat
      /\ DOMAIN a = 1..Len(a) /\ DOMAIN s = 1..Len(s)
  <2>1. Len(a) = Len(b) /\ Len(s) = Len(t)
    BY <1>1 DEF AllAlike
  <2>2. /\ Len(a) \in Nat /\ Len(s) \in Nat /\ DOMAIN a = 1..Len(a) /\ DOMAIN s = 1..Len(s)
        /\ DOMAIN x = 1..(Len(a) + Len(s)) /\ Len(x) = Len(a) + Len(s)
    BY <1>1
  <2>3. Len(y) = Len(b) + Len(t)
    BY <1>1
  <2> HIDE DEF x, y
  <2> QED BY <2>1, <2>2, <2>3
<1>3. ASSUME NEW i \in DOMAIN x PROVE Alike(x[i], y[i])
  <2>1. CASE i <= Len(a)
    <3>1. i \in DOMAIN a /\ x[i] = a[i] /\ y[i] = b[i]
      BY <1>1, <1>2, <2>1
    <3> HIDE DEF x, y
    <3> QED BY <3>1, <1>1 DEF AllAlike
  <2>2. CASE i > Len(a)
    <3>1. i - Len(a) \in DOMAIN s /\ x[i] = s[i - Len(a)] /\ y[i] = t[i - Len(a)]
      BY <1>1, <1>2, <2>2
    <3> HIDE DEF x, y
    <3> QED BY <3>1 DEF AllAlike
  <2> QED BY <1>2, <2>1, <2>2
<1> HIDE DEF x, y
<1>4. FrameFits(Frame(x, f.locals), Frame(y, m.locals))
  BY <1>2, <1>3, FrameFields DEF FrameFits
<1> QED BY <1>4 DEF x, y, a, b

LEMMA PushFits ==
    ASSUME NEW f \in Frames, NEW m \in Frames, FrameFits(f, m),
           NEW s \in Seq(Types), NEW t \in Seq(Types), AllAlike(Slots(s), Slots(t))
    PROVE  FrameFits(push(f, s), push(m, t))
BY StackFits, SlotsAreTypes DEF push

LEMMA AlikeSlots ==
    ASSUME NEW t \in Types, NEW a \in Types, t = a \/ (Alike(t, a) /\ t # Long /\ a # Long)
    PROVE  AllAlike(Slots(<<t>>), Slots(<<a>>))
<1>1. CASE t = a
  BY <1>1, AlikeItself DEF AllAlike
<1>2. CASE Alike(t, a) /\ t # Long /\ a # Long
  <2>1. Slots(<<t>>) = <<t>> /\ Slots(<<a>>) = <<a>>
    BY <1>2, SlotsOfOne
  <2>2. Len(<<t>>) = 1 /\ Len(<<a>>) = 1 /\ DOMAIN <<t>> = 1..1 /\ <<t>>[1] = t /\ <<a>>[1] = a
        /\ \A i \in 1..1 : i = 1
    OBVIOUS
  <2>3. AllAlike(<<t>>, <<a>>)
    BY <1>2, <2>2 DEF AllAlike
  <2> QED BY <2>1, <2>3
<1> QED BY <1>1, <1>2

LEMMA StoreFits ==
    ASSUME NEW f \in Frames, NEW m \in Frames, FrameFits(f, m), NEW slot \in Nat,
           NEW t \in Types, NEW a \in Types, AllAlike(Slots(<<t>>), Slots(<<a>>))
    PROVE  FrameFits(set_local(f, slot, t), set_local(m, slot, a))
<1> DEFINE g == set_local(f, slot, t)
           h == set_local(m, slot, a)
<1>1. /\ g \in Frames /\ g.stack = f.stack
      /\ \A i \in DOMAIN g.locals : g.locals[i] = Stored(f, slot, t, i)
  BY SetLocalFacts
<1>2. /\ h \in Frames /\ h.stack = m.stack
      /\ \A i \in DOMAIN h.locals : h.locals[i] = Stored(m, slot, a, i)
  BY SetLocalFacts
<1>3. ASSUME NEW i \in DOMAIN g.locals, i \in DOMAIN h.locals
      PROVE  Alike(g.locals[i], h.locals[i])
  <2>1. i \in Nat /\ Len(Slots(<<t>>)) \in Nat /\ Len(Slots(<<t>>)) = Len(Slots(<<a>>))
    BY <1>1, FrameParts, SlotsOfOne DEF AllAlike
  <2>2. CASE i \in (slot + 1)..(slot + Len(Slots(<<t>>)))
    <3>1. i - slot \in 1..Len(Slots(<<t>>))
      BY <2>1, <2>2
    <3>2. DOMAIN Slots(<<t>>) = 1..Len(Slots(<<t>>))
      <4>1. <<t>> \in Seq(Types)
        OBVIOUS
      <4>2. Slots(<<t>>) \in Seq(Types)
        BY <4>1, SlotsAreTypes
      <4> QED BY <4>2
    <3>3. Alike(Slots(<<t>>)[i - slot], Slots(<<a>>)[i - slot])
      BY <3>1, <3>2 DEF AllAlike
    <3>4. g.locals[i] = Slots(<<t>>)[i - slot] /\ h.locals[i] = Slots(<<a>>)[i - slot]
      BY <1>1, <1>2, <1>3, <2>1, <2>2 DEF Stored
    <3> QED BY <3>3, <3>4
  <2>3. CASE i \notin (slot + 1)..(slot + Len(Slots(<<t>>)))
    <3>1. g.locals[i] = At(f.locals, i) /\ h.locals[i] = At(m.locals, i)
      BY <1>1, <1>2, <1>3, <2>1, <2>3 DEF Stored
    <3> QED BY <3>1 DEF FrameFits
  <2> QED BY <2>2, <2>3
<1>4. ASSUME NEW i PROVE Alike(At(g.locals, i), At(h.locals, i))
  <2> HIDE DEF g, h
  <2> QED BY <1>3 DEF At, Alike
<1> QED BY <1>1, <1>2, <1>4 DEF FrameFits

LEMMA ReplacedFits ==
    ASSUME NEW f \in Frames, NEW m \in Frames, FrameFits(f, m), NEW old, NEW new \in Types,
           old # Top, \A t \in Types : Alike(t, old) => Alike(t, new)
    PROVE  Replaced(m, old, new) \in Frames /\ FrameFits(f, Replaced(m, old, new))
<1> DEFINE g == Replaced(m, old, new)
           swap(t) == IF t = old THEN new ELSE t
<1>1. /\ g \in Frames
      /\ DOMAIN g.stack = DOMAIN m.stack /\ Len(g.stack) = Len(m.stack)
      /\ DOMAIN g.locals = DOMAIN m.locals
      /\ \A i \in DOMAIN m.stack : g.stack[i] = swap(m.stack[i])
      /\ \A i \in DOMAIN m.locals : g.locals[i] = swap(m.locals[i])
  BY ReplacedFacts
<1>2. \A t \in Types : \A a : Alike(t, a) => Alike(t, swap(a))
  OBVIOUS
<1> HIDE DEF g
<1>3. DOMAIN f.stack = DOMAIN m.stack
  BY FrameParts DEF FrameFits
<1>4. \A i \in DOMAIN f.stack : Alike(f.stack[i], g.stack[i])
  BY <1>1, <1>2, <1>3, FrameParts DEF FrameFits
<1>5. ASSUME NEW i PROVE Alike(At(f.locals, i), At(g.locals, i))
  <2>1. CASE i \in DOMAIN m.locals
    <3>1. At(g.locals, i) = swap(At(m.locals, i))
      BY <1>1, <2>1 DEF At
    <3>2. At(f.locals, i) \in Types /\ Alike(At(f.locals, i), At(m.locals, i))
      BY FrameParts DEF FrameFits
    <3> HIDE DEF swap
    <3> QED BY <1>2, <3>1, <3>2
  <2>2. CASE i \notin DOMAIN m.locals
    BY <1>1, <2>2 DEF At, Alike
  <2> QED BY <2>1, <2>2
<1> QED BY <1>1, <1>3, <1>4, <1>5 DEF FrameFits, g

\* The same on the other side.
LEMMA ReplacedIsFit ==
    ASSUME NEW f \in Frames, NEW m \in Frames, FrameFits(f, m), NEW old, NEW new \in Types,
           \A a \in Types : Alike(old, a) => Alike(new, a)
    PROVE  Replaced(f, old, new) \in Frames /\ FrameFits(Replaced(f, old, new), m)
<1> DEFINE g == Replaced(f, old, new)
           swap(t) == IF t = old THEN new ELSE t
<1>1. /\ g \in Frames
      /\ DOMAIN g.stack = DOMAIN f.stack /\ Len(g.stack) = Len(f.stack)
      /\ DOMAIN g.locals = DOMAIN f.locals
      /\ \A i \in DOMAIN f.stack : g.stack[i] = swap(f.stack[i])
      /\ \A i \in DOMAIN f.locals : g.locals[i] = swap(f.locals[i])
  BY ReplacedFacts
<1>2. \A a \in Types : \A t : Alike(t, a) => Alike(swap(t), a)
  OBVIOUS
<1> HIDE DEF g
<1>3. DOMAIN f.stack = DOMAIN m.stack
  BY FrameParts DEF FrameFits
<1>4. \A i \in DOMAIN g.stack : Alike(g.stack[i], m.stack[i])
  BY <1>1, <1>2, <1>3, FrameParts DEF FrameFits
<1>5. ASSUME NEW i PROVE Alike(At(g.locals, i), At(m.locals, i))
  <2>1. CASE i \in DOMAIN f.locals
    <3>1. At(g.locals, i) = swap(At(f.locals, i))
      BY <1>1, <2>1 DEF At
    <3>2. At(m.locals, i) \in Types /\ Alike(At(f.locals, i), At(m.locals, i))
      BY FrameParts DEF FrameFits
    <3> HIDE DEF swap
    <3> QED BY <1>2, <3>1, <3>2
  <2>2. CASE i \notin DOMAIN f.locals
    BY <1>1, <2>2 DEF At, Alike
  <2> QED BY <2>1, <2>2
<1> QED BY <1>1, <1>4, <1>5 DEF FrameFits, g

\* To construct an object changes neither its width nor makes it an address.
LEMMA ConstructedFits ==
    ASSUME NEW f \in Frames, NEW m \in Frames, FrameFits(f, m),
           NEW r, NEW s, NEW c \in Classes, NEW d \in Classes
    PROVE  /\ initialize_receiver(f, r, c) \in Frames /\ initialize_receiver(m, s, d) \in Frames
           /\ FrameFits(initialize_receiver(f, r, c), initialize_receiver(m, s, d))
<1>1. ObjectOf(c) \in Types /\ ObjectOf(d) \in Types
  BY DEF Types, ValueTypes
<1>2. initialize_receiver(m, s, d) \in Frames /\ FrameFits(f, initialize_receiver(m, s, d))
  <2>1. CASE s.kind \in {"this", "new"}
    <3>1. s # Top /\ s # Long /\ s.kind # "return"
      BY <2>1, KindFacts
    <3>2. ObjectOf(d) # Top /\ ObjectOf(d) # Long /\ ObjectOf(d).kind # "return"
      BY KindFacts
    <3>3. \A t \in Types : Alike(t, s) => Alike(t, ObjectOf(d))
      BY <3>1, <3>2 DEF Alike
    <3>4. initialize_receiver(m, s, d) = Replaced(m, s, ObjectOf(d))
      BY <2>1 DEF initialize_receiver
    <3> QED BY <1>1, <3>1, <3>3, <3>4, ReplacedFits
  <2>2. CASE s.kind \notin {"this", "new"}
    BY <2>2 DEF initialize_receiver
  <2> QED BY <2>1, <2>2
<1> DEFINE h == initialize_receiver(m, s, d)
<1> HIDE DEF h
<1>3. h \in Frames /\ FrameFits(f, h)
  BY <1>2 DEF h
<1>4. initialize_receiver(f, r, c) \in Frames /\ FrameFits(initialize_receiver(f, r, c), h)
  <2>1. CASE r.kind \in {"this", "new"}
    <3>1. r # Top /\ r # Long /\ r.kind # "return"
      BY <2>1, KindFacts
    <3>2. ObjectOf(c) # Top /\ ObjectOf(c) # Long
      BY KindFacts
    <3>3. \A a \in Types : Alike(r, a) => Alike(ObjectOf(c), a)
      BY <3>1, <3>2 DEF Alike
    <3>4. initialize_receiver(f, r, c) = Replaced(f, r, ObjectOf(c))
      BY <2>1 DEF initialize_receiver
    <3> QED BY <1>1, <1>3, <3>3, <3>4, ReplacedIsFit
  <2>2. CASE r.kind \notin {"this", "new"}
    BY <1>3, <2>2 DEF initialize_receiver
  <2> QED BY <2>1, <2>2
<1> QED BY <1>3, <1>4 DEF h

LEMMA BrokenFits ==
    ASSUME NEW f \in Frames, NEW m \in Frames, FrameFits(f, m), NEW slot \in Nat
    PROVE  BreakPair(m, slot) \in Frames /\ FrameFits(f, BreakPair(m, slot)) /\ BreakPair(m, slot).stack = m.stack
<1>1. CASE slot \in DOMAIN m.locals /\ m.locals[slot] = Long
  <2> DEFINE l == [m.locals EXCEPT ![slot] = Top]
  <2>1. BreakPair(m, slot) = Frame(m.stack, l)
    BY <1>1 DEF BreakPair, Frames, Frame
  <2>2. m.locals \in Seq(Types) /\ m.stack \in Seq(Types)
    BY DEF Frames
  <2>3. l \in Seq(Types) /\ DOMAIN l = DOMAIN m.locals /\ l[slot] = Top
        /\ \A i \in DOMAIN m.locals : i # slot => l[i] = m.locals[i]
    BY <1>1, <2>2, TypesHasNames
  <2> HIDE DEF l
  <2>4. \A i : Alike(At(f.locals, i), At(l, i))
    BY <2>3 DEF FrameFits, At, Alike
  <2> QED BY <2>1, <2>2, <2>3, <2>4, FramesBuilt, FrameFields DEF FrameFits
<1>2. CASE ~(slot \in DOMAIN m.locals /\ m.locals[slot] = Long)
  BY <1>2 DEF BreakPair
<1> QED BY <1>1, <1>2

-----------------------------------------------------------------------------
(* What the machine does and what the analysis says of it. *)

LEMMA ByRulesStore ==
    ASSUME NEW item, item.op \in {"store", "astore"}, NEW m, NEW n
    PROVE  ByRules(item, m, n) = simulate_item(item, BreakPair(m, item.slot), n)
BY Zenon DEF ByRules

LEMMA ByRulesNew ==
    ASSUME NEW item, item.op = "new", NEW m, NEW n
    PROVE  ByRules(item, m, n) = {push(Replaced(m, Uninitialized(n), Top), <<Uninitialized(n)>>)}
BY DEF ByRules

\* The constructor of the class itself, for an uninitialized this.
LEMMA ByRulesInit ==
    ASSUME NEW item, Known(item), item.op = "init", NEW m, NEW n
    PROVE  \E i : Known(i) /\ i.op = "init" /\ ByRules(item, m, n) = simulate_item(i, m, n)
<1> DEFINE own == [item EXCEPT !.owner = ThisClass]
<1>1. item \in [op : {"init"}, owner : Classes]
  BY DEF Known, ItemOK
<1>2. own \in [op : {"init"}, owner : Classes]
  BY <1>1, ClassNames
<1> HIDE DEF own
<1>3. Known(own) /\ own.op = "init"
  BY <1>2 DEF Known, ItemOK, Ops
<1>4. CASE Last(m.stack) = UninitializedThis
  <2>1. ByRules(item, m, n) = simulate_item(own, m, n)
    BY <1>4, Zenon DEF ByRules, own
  <2> QED BY <1>3, <2>1
<1>5. CASE Last(m.stack) # UninitializedThis
  <2>1. ByRules(item, m, n) = simulate_item(item, m, n)
    BY <1>5, Zenon DEF ByRules
  <2> QED BY <2>1
<1> QED BY <1>4, <1>5

LEMMA ByRulesOther ==
    ASSUME NEW item, item.op \notin {"store", "astore", "init", "new"}, NEW m, NEW n
    PROVE  ByRules(item, m, n) = simulate_item(item, m, n)
BY Zenon DEF ByRules

LEMMA LegalArms ==
    ASSUME NEW item, NEW m, Legal(item, m)
    PROVE  /\ item.op = "aload" => \A t \in get_local(m, item.slot) : is_reference(t)
           /\ item.op = "astore" => is_reference(Last(m.stack)) \/ Last(m.stack).kind = "return"
<1>1. item.op = "aload" => \A t \in get_local(m, item.slot) : is_reference(t)
  BY DEF Legal
<1>2. item.op = "astore" => is_reference(Last(m.stack)) \/ Last(m.stack).kind = "return"
  BY DEF Legal
<1> QED BY <1>1, <1>2

\* A reference or an address is not a long, nor is the type that stands for it.
LEMMA NarrowIsAlike ==
    ASSUME NEW t \in Types, NEW a, is_reference(a) \/ a.kind = "return", Alike(t, a)
    PROVE  t # Long /\ a # Long
<1>1. a # Top /\ a # Long /\ Top # Long
  BY KindFacts DEF is_reference
<1> QED BY <1>1 DEF Alike

LEMMA ShuffleFits ==
    ASSUME NEW item, Known(item), item.op = "shuffle", NEW n,
           NEW f \in Frames, NEW m \in Frames, FrameFits(f, m),
           NEW next \in simulate_item(item, f, n), NEW after \in simulate_item(item, m, n)
    PROVE  FrameFits(next, after)
<1>1. item.needs \in Nat /\ item.order \in Seq(1..item.needs)
  BY DEF Known, ItemOK
<1>2. PICK g \in pop(f, item.needs) : next = Frame(g.stack \o Taken(f, g, item.order), f.locals)
  BY AfterShuffle
<1>3. PICK h \in pop(m, item.needs) : after = Frame(h.stack \o Taken(m, h, item.order), m.locals)
  BY AfterShuffle
<1>4. g \in Frames /\ h \in Frames /\ FrameFits(g, h)
  BY <1>1, PopFits
<1>5. /\ g.locals = f.locals /\ h.locals = m.locals
      /\ item.needs <= Len(f.stack) /\ Len(g.stack) = Len(f.stack) - item.needs
      /\ Len(h.stack) = Len(g.stack) /\ Len(f.stack) \in Nat /\ DOMAIN f.stack = 1..Len(f.stack)
      /\ DOMAIN m.stack = DOMAIN f.stack
  BY <1>1, <1>4, PopFacts, FrameParts DEF FrameFits
<1> DEFINE s == Taken(f, g, item.order)
           t == Taken(m, h, item.order)
<1>6. ASSUME NEW k \in DOMAIN item.order
      PROVE  s[k] \in Types /\ t[k] \in Types /\ Alike(s[k], t[k])
  <2>1. item.order[k] \in 1..item.needs
    BY <1>1
  <2>2. Len(g.stack) + item.order[k] \in DOMAIN f.stack
    <3>1. /\ item.needs \in Nat /\ item.needs <= Len(f.stack)
          /\ Len(g.stack) = Len(f.stack) - item.needs /\ Len(f.stack) \in Nat
      BY <1>1, <1>5
    <3>2. Len(g.stack) + item.order[k] \in 1..Len(f.stack)
      BY <2>1, <3>1
    <3> QED BY <1>5, <3>2
  <2>3. s[k] = f.stack[Len(g.stack) + item.order[k]] /\ t[k] = m.stack[Len(g.stack) + item.order[k]]
    BY <1>5 DEF Taken
  <2> QED BY <1>5, <2>2, <2>3, FrameParts DEF FrameFits
<1>7. /\ Len(item.order) \in Nat /\ DOMAIN item.order = 1..Len(item.order)
      /\ s = [k \in DOMAIN item.order |-> s[k]] /\ t = [k \in DOMAIN item.order |-> t[k]]
  BY <1>1 DEF Taken
<1> HIDE DEF s, t
<1>8. s \in Seq(Types) /\ t \in Seq(Types) /\ AllAlike(s, t)
  <2>1. s \in [1..Len(item.order) -> Types] /\ t \in [1..Len(item.order) -> Types]
    BY <1>6, <1>7
  <2>2. s \in Seq(Types) /\ t \in Seq(Types) /\ Len(s) = Len(item.order) /\ Len(t) = Len(item.order)
        /\ DOMAIN s = DOMAIN item.order
    BY <1>7, <2>1
  <2> QED BY <1>6, <2>2 DEF AllAlike
<1>9. FrameFits(Frame(g.stack \o s, g.locals), Frame(h.stack \o t, h.locals))
  BY <1>4, <1>8, StackFits
<1> QED BY <1>2, <1>3, <1>5, <1>9 DEF s, t

\* When a frame fits, the frame after an instruction fits what the machine
\* makes of it.
LEMMA ExecuteFits ==
    ASSUME NEW item, Known(item), NEW n \in Nodes,
           NEW f \in Frames, NEW m \in Frames, FrameFits(f, m), Legal(item, m),
           NEW next \in simulate_item(item, f, n), NEW after \in ByRules(item, m, n)
    PROVE  after \in Frames /\ FrameFits(next, after)
<1>1. CASE item.op = "plain"
  <2> DEFINE k == Len(Slots(item.takes))
  <2>1. k \in Nat /\ item.gives \in Seq(Types)
    BY <1>1, WidthsAreNumbers
  <2>2. after \in simulate_item(item, m, n)
    BY <1>1, ByRulesOther
  <2>3. PICK g \in pop(f, k) : next = push(g, item.gives)
    BY <1>1, AfterPlain
  <2>4. PICK h \in pop(m, k) : after = push(h, item.gives)
    BY <1>1, <2>2, AfterPlain
  <2> HIDE DEF k
  <2>5. g \in Frames /\ h \in Frames /\ FrameFits(g, h)
    BY <2>1, PopFits
  <2>6. AllAlike(Slots(item.gives), Slots(item.gives))
    BY AlikeItself DEF AllAlike
  <2> QED BY <2>1, <2>3, <2>4, <2>5, <2>6, PushFits, PushFacts
<1>2. CASE item.op \in {"jump", "end"}
  <2> DEFINE k == Len(Slots(item.takes))
  <2>1. k \in Nat
    BY <1>2, WidthsAreNumbers
  <2>2. after \in simulate_item(item, m, n)
    BY <1>2, ByRulesOther
  <2>3. next \in pop(f, k) /\ after \in pop(m, k)
    BY <1>2, <2>2, AfterPop
  <2> HIDE DEF k
  <2> QED BY <2>1, <2>3, PopFits
<1>3. CASE item.op = "shuffle"
  <2>1. after \in simulate_item(item, m, n)
    BY <1>3, ByRulesOther
  <2> QED BY <1>3, <2>1, ShuffleFits, FrameAfter
<1>4. CASE item.op = "aload"
  <2>1. after \in simulate_item(item, m, n)
    BY <1>4, ByRulesOther
  <2>2. PICK t \in get_local(f, item.slot) : next = push(f, <<t>>)
    BY <1>4, AfterLoad
  <2>3. PICK a \in get_local(m, item.slot) : after = push(m, <<a>>)
    BY <1>4, <2>1, AfterLoad
  <2>4. is_reference(a)
    BY <1>4, LegalArms
  <2>5. /\ t \in Types /\ a \in Types /\ t = At(f.locals, item.slot + 1) /\ a = At(m.locals, item.slot + 1)
    BY GetLocalFacts DEF At
  <2>6. Alike(t, a)
    BY <2>5 DEF FrameFits
  <2>7. AllAlike(Slots(<<t>>), Slots(<<a>>))
    BY <2>4, <2>5, <2>6, NarrowIsAlike, AlikeSlots
  <2>8. <<t>> \in Seq(Types) /\ <<a>> \in Seq(Types)
    BY <2>5
  <2> QED BY <2>2, <2>3, <2>7, <2>8, PushFits, PushFacts
<1>5. CASE item.op = "store"
  <2> DEFINE k == Len(Slots(<<item.type>>))
             b == BreakPair(m, item.slot)
  <2>1. k \in Nat /\ item.type \in Types /\ item.slot \in Nat
    BY <1>5, WidthsAreNumbers DEF Known, ItemOK
  <2>2. after \in simulate_item(item, b, n)
    BY <1>5, ByRulesStore
  <2>3. b \in Frames /\ FrameFits(f, b)
    BY <2>1, BrokenFits
  <2> HIDE DEF b
  <2>4. PICK g \in pop(f, k) : next = set_local(g, item.slot, item.type)
    BY <1>5, AfterStore
  <2>5. PICK h \in pop(b, k) : after = set_local(h, item.slot, item.type)
    BY <1>5, <2>2, AfterStore
  <2>6. g \in Frames /\ h \in Frames /\ FrameFits(g, h)
    <3> HIDE DEF k
    <3> QED BY <2>1, <2>3, PopFits
  <2>7. AllAlike(Slots(<<item.type>>), Slots(<<item.type>>))
    BY AlikeItself DEF AllAlike
  <2> QED BY <2>1, <2>4, <2>5, <2>6, <2>7, StoreFits, SetLocalFacts
<1>6. CASE item.op = "astore"
  <2> DEFINE b == BreakPair(m, item.slot)
  <2>1. item.slot \in Nat
    BY <1>6 DEF Known, ItemOK
  <2>2. after \in simulate_item(item, b, n)
    BY <1>6, ByRulesStore
  <2>3. b \in Frames /\ FrameFits(f, b) /\ b.stack = m.stack
    BY <2>1, BrokenFits
  <2> HIDE DEF b
  <2>4. PICK g \in pop(f, 1) : next = set_local(g, item.slot, Last(f.stack))
    BY <1>6, AfterStoreTop
  <2>5. PICK h \in pop(b, 1) : after = set_local(h, item.slot, Last(b.stack))
    BY <1>6, <2>2, AfterStoreTop
  <2>6. g \in Frames /\ h \in Frames /\ FrameFits(g, h)
    BY <2>3, PopFits
  <2> DEFINE t == Last(f.stack)
             a == Last(b.stack)
  <2>7. t \in Types /\ a \in Types /\ Alike(t, a)
    <3>1. Len(f.stack) \in DOMAIN f.stack /\ t = f.stack[Len(f.stack)] /\ t \in Types
      BY LastOfStack
    <3>2. a = b.stack[Len(b.stack)] /\ a \in Types /\ Len(b.stack) = Len(f.stack)
      BY <2>3, LastOfStack DEF FrameFits
    <3> QED BY <2>3, <3>1, <3>2 DEF FrameFits
  <2>8. is_reference(a) \/ a.kind = "return"
    BY <1>6, <2>3, LegalArms
  <2> HIDE DEF t, a
  <2>9. AllAlike(Slots(<<t>>), Slots(<<a>>))
    BY <2>7, <2>8, NarrowIsAlike, AlikeSlots
  <2>10. after \in Frames
    BY <2>1, <2>5, <2>6, <2>7, SetLocalFacts DEF a
  <2>11. FrameFits(set_local(g, item.slot, t), set_local(h, item.slot, a))
    BY <2>1, <2>6, <2>7, <2>9, StoreFits
  <2> QED BY <2>4, <2>5, <2>10, <2>11 DEF t, a
<1>7. CASE item.op \in {"iinc", "ret"}
  <2>1. after \in simulate_item(item, m, n)
    BY <1>7, ByRulesOther
  <2>2. next = f /\ after = m
    BY <1>7, <2>1, AfterIInc, AfterRet
  <2> QED BY <2>2
<1>8. CASE item.op = "new"
  <2> DEFINE u == Uninitialized(n)
             b == Replaced(m, u, Top)
  <2>1. u \in Types /\ u # Top /\ u # Long
    BY KindFacts DEF Types
  <2>2. \A t \in Types : Alike(t, Top)
    BY DEF Alike
  <2>3. next = push(f, <<u>>) /\ after = push(b, <<u>>)
    BY <1>8, AfterNew, ByRulesNew
  <2> HIDE DEF u
  <2>4. b \in Frames /\ FrameFits(f, b)
    BY <2>1, <2>2, TypesHasNames, ReplacedFits
  <2> HIDE DEF b
  <2>5. AllAlike(Slots(<<u>>), Slots(<<u>>)) /\ <<u>> \in Seq(Types)
    BY <2>1, AlikeItself DEF AllAlike
  <2> QED BY <2>3, <2>4, <2>5, PushFits, PushFacts
<1>9. CASE item.op = "init"
  <2>1. PICK i : Known(i) /\ i.op = "init" /\ after \in simulate_item(i, m, n)
    BY <1>9, ByRulesInit
  <2>2. PICK g \in pop(f, 1) : next = initialize_receiver(g, Last(f.stack), item.owner)
    BY <1>9, AfterInit
  <2>3. PICK h \in pop(m, 1) : after = initialize_receiver(h, Last(m.stack), i.owner)
    BY <2>1, AfterInit
  <2>4. g \in Frames /\ h \in Frames /\ FrameFits(g, h)
    BY PopFits
  <2>5. item.owner \in Classes /\ i.owner \in Classes
    BY <1>9, <2>1 DEF Known, ItemOK
  <2> QED BY <2>2, <2>3, <2>4, <2>5, ConstructedFits
<1>10. CASE item.op = "jsr"
  <2> DEFINE t == ReturnAddress({n + 1})
  <2>1. after \in simulate_item(item, m, n)
    BY <1>10, ByRulesOther
  <2>2. next = push(f, <<t>>) /\ after = push(m, <<t>>) /\ t \in Types
    BY <1>10, <2>1, AfterJsr DEF Types
  <2> HIDE DEF t
  <2>3. AllAlike(Slots(<<t>>), Slots(<<t>>)) /\ <<t>> \in Seq(Types)
    BY <2>2, AlikeItself DEF AllAlike
  <2> QED BY <2>2, <2>3, PushFits, PushFacts
<1> QED BY <1>1, <1>2, <1>3, <1>4, <1>5, <1>6, <1>7, <1>8, <1>9, <1>10 DEF Known, Ops

\* The machine goes on to where the analysis has gone.
LEMMA SuccessorsFollow ==
    ASSUME code \in Codes, ~Refused, NEW n \in Nodes,
           NEW f \in Frames, NEW m \in Frames, FrameFits(f, m),
           NEW next \in simulate_item(code.items[n], f, n),
           NEW k \in Range(dynamic_successors(n, m))
    PROVE  k \in Range(dynamic_successors(n, f))
<1> DEFINE item == code.items[n]
           size == Len(code.items)
<1>1. CASE item.op # "ret"
  BY <1>1 DEF dynamic_successors
<1>2. CASE item.op = "ret"
  <2> DEFINE S == ReturnTargets(get_local(f, item.slot))
             T == ReturnTargets(get_local(m, item.slot))
  <2>1. dynamic_successors(n, f) = InOrder(S, size) /\ dynamic_successors(n, m) = InOrder(T, size)
    BY <1>2 DEF dynamic_successors
  <2>2. size \in Nat
    BY CodeFacts
  <2>3. T \subseteq S
    <3>1. PICK t \in get_local(f, item.slot) : t.kind = "return"
      BY <1>2, AfterRet
    <3>2. ASSUME NEW x \in T PROVE x \in S
      <4>1. PICK a \in get_local(m, item.slot) : a.kind = "return" /\ x \in a.targets
        BY <3>2 DEF ReturnTargets
      <4>2. /\ t = At(f.locals, item.slot + 1) /\ a = At(m.locals, item.slot + 1)
            /\ t # Top /\ a # Top
        BY <3>1, <4>1, GetLocalFacts DEF At
      <4>3. a.targets \subseteq t.targets
        BY <4>1, <4>2 DEF FrameFits, Alike
      <4> QED BY <3>1, <4>1, <4>3 DEF ReturnTargets
    <3> QED BY <3>2
  <2> HIDE DEF S, T, size
  <2>4. Range(InOrder(S, size)) = S \cap (1..size) /\ Range(InOrder(T, size)) = T \cap (1..size)
    BY <2>2, InOrderFacts
  <2> QED BY <2>1, <2>3, <2>4
<1> QED BY <1>1, <1>2

\* The machine only runs when the analysis is done, and is where a frame fits.
MachineFits ==
    \A m \in machine :
        /\ phase = "done"
        /\ m.node \in Nodes /\ m.frame \in Frames
        /\ \E f \in entry_frames[m.node] : FrameFits(f, m.frame)

\* Arrived over an edge that the analysis has absorbed, it is there again.
LEMMA Arrives ==
    ASSUME IInv, phase = "done", NEW k \in Nodes, NEW e \in Frames, NEW m \in Frames,
           Absorbed([target |-> k, frame |-> e]), FrameFits(e, m)
    PROVE  \E g \in entry_frames[k] : FrameFits(g, m)
<1>1. PICK g \in entry_frames[k] : FrameSaysLess(g, e)
  BY DEF Absorbed
<1>2. g \in Frames
  BY <1>1 DEF IInv, AnalysisState
<1> QED BY <1>1, <1>2, LessFits

LEMMA MachineIsSettled ==
    ASSUME IInv, MachineFits, NEW m \in machine
    PROVE  /\ phase = "done" /\ code \in Codes /\ ~Refused
           /\ m.node \in Nodes /\ m.frame \in Frames /\ Known(code.items[m.node])
           /\ \E f \in Frames :
                 /\ FrameFits(f, m.frame)
                 /\ \E next \in simulate_item(code.items[m.node], f, m.node) :
                       /\ next \in Frames
                       /\ Len(f.stack) <= max_stack
                       /\ Len(f.locals) <= max_locals /\ Len(next.locals) <= max_locals
                       /\ \A e \in Range(EdgesOf(m.node, f, next)) : Absorbed(e)
<1>1. /\ phase = "done" /\ m.node \in Nodes /\ m.frame \in Frames
  BY DEF MachineFits
<1>2. PICK f \in entry_frames[m.node] : FrameFits(f, m.frame)
  BY DEF MachineFits
<1>3. AnalysisState /\ Accounted /\ worklist = <<>> /\ edges = <<>>
  BY <1>1 DEF IInv
<1>4. code \in Codes /\ ~Refused /\ f \in Frames
  BY <1>1, <1>2, <1>3 DEF AnalysisState, Accounted
<1>5. Known(code.items[m.node])
  BY <1>1, <1>4, CodeFacts
<1>6. Settled(m.node, f)
  <2>1. Range(worklist) = {}
    BY <1>3 DEF Range
  <2> QED BY <1>1, <1>2, <1>3, <2>1 DEF Accounted
<1>7. PICK next \in simulate_item(code.items[m.node], f, m.node) :
         /\ Len(f.stack) <= max_stack
         /\ Len(f.locals) <= max_locals /\ Len(next.locals) <= max_locals
         /\ \A e \in Range(EdgesOf(m.node, f, next)) : Absorbed(e) \/ e \in Range(edges)
  BY <1>6 DEF Settled
<1>8. next \in Frames
  BY <1>1, <1>4, <1>5, <1>7, FrameAfter
<1>9. Range(edges) = {}
  BY <1>3 DEF Range
<1> QED BY <1>1, <1>2, <1>4, <1>5, <1>7, <1>8, <1>9

LEMMA EnterFits ==
    ASSUME IInv, Enter, NEW m \in machine'
    PROVE  phase = "done" /\ m.node \in Nodes /\ m.frame \in Frames
           /\ \E f \in entry_frames[m.node] : FrameFits(f, m.frame)
<1>1. phase = "done" /\ m = [node |-> 1, frame |-> initial_frame]
  BY DEF Enter
<1>2. AnalysisState /\ Accounted
  BY <1>1 DEF IInv
<1>3. 1 \in Nodes /\ initial_frame \in Frames
  BY <1>2, CodeFacts, InitialFrame DEF AnalysisState, Accounted
<1>4. PICK f \in entry_frames[1] : FrameSaysLess(f, initial_frame)
  BY <1>2 DEF Accounted
<1>5. f \in Frames
  BY <1>2, <1>3, <1>4 DEF AnalysisState
<1>6. FrameFits(f, initial_frame)
  BY <1>3, <1>4, <1>5, FitsItself, LessFits
<1> QED BY <1>1, <1>3, <1>4, <1>6

LEMMA ExecuteIsFit ==
    ASSUME IInv, MachineFits, Execute, NEW m \in machine'
    PROVE  phase = "done" /\ m.node \in Nodes /\ m.frame \in Frames
           /\ \E f \in entry_frames[m.node] : FrameFits(f, m.frame)
<1>1. PICK old \in machine :
         /\ Legal(code.items[old.node], old.frame)
         /\ \E f \in ByRules(code.items[old.node], old.frame, old.node),
               k \in Range(dynamic_successors(old.node, old.frame)) :
                  machine' = {[node |-> k, frame |-> f]}
  BY DEF Execute
<1>2. PICK after \in ByRules(code.items[old.node], old.frame, old.node),
           k \in Range(dynamic_successors(old.node, old.frame)) :
              machine' = {[node |-> k, frame |-> after]}
  BY <1>1
<1>3. /\ phase = "done" /\ code \in Codes /\ ~Refused
      /\ old.node \in Nodes /\ old.frame \in Frames /\ Known(code.items[old.node])
  BY MachineIsSettled
<1>4. PICK f \in Frames :
         /\ FrameFits(f, old.frame)
         /\ \E next \in simulate_item(code.items[old.node], f, old.node) :
               next \in Frames /\ \A e \in Range(EdgesOf(old.node, f, next)) : Absorbed(e)
  BY MachineIsSettled
<1>5. PICK next \in simulate_item(code.items[old.node], f, old.node) :
         next \in Frames /\ \A e \in Range(EdgesOf(old.node, f, next)) : Absorbed(e)
  BY <1>4
<1>6. after \in Frames /\ FrameFits(next, after)
  BY <1>1, <1>2, <1>3, <1>4, <1>5, ExecuteFits
<1>7. k \in Range(dynamic_successors(old.node, f)) /\ k \in Nodes
  <2>1. k \in Range(dynamic_successors(old.node, f))
    BY <1>2, <1>3, <1>4, <1>5, SuccessorsFollow
  <2>2. dynamic_successors(old.node, f) \in Seq(Nodes)
    BY <1>3, SuccessorsAreNodes
  <2> QED BY <2>1, <2>2 DEF Range
<1>8. Absorbed([target |-> k, frame |-> next])
  BY <1>3, <1>5, <1>7, EdgesOfFacts
<1>9. \E g \in entry_frames[k] : FrameFits(g, after)
  BY <1>3, <1>5, <1>6, <1>7, <1>8, Arrives
<1>10. m = [node |-> k, frame |-> after]
  BY <1>2
<1> QED BY <1>3, <1>6, <1>7, <1>9, <1>10

LEMMA ThrowIsFit ==
    ASSUME IInv, MachineFits, Throw, NEW m \in machine'
    PROVE  phase = "done" /\ m.node \in Nodes /\ m.frame \in Frames
           /\ \E f \in entry_frames[m.node] : FrameFits(f, m.frame)
<1>1. PICK old \in machine : \E e \in Range(ExceptionEdges(old.node, old.frame)) :
         machine' = {[node |-> e.target, frame |-> e.frame]}
  BY DEF Throw
<1>2. PICK e \in Range(ExceptionEdges(old.node, old.frame)) :
         machine' = {[node |-> e.target, frame |-> e.frame]}
  BY <1>1
<1>3. /\ phase = "done" /\ code \in Codes /\ ~Refused
      /\ old.node \in Nodes /\ old.frame \in Frames
  BY MachineIsSettled
<1>4. PICK f \in Frames :
         /\ FrameFits(f, old.frame)
         /\ \E next \in simulate_item(code.items[old.node], f, old.node) :
               next \in Frames /\ \A x \in Range(EdgesOf(old.node, f, next)) : Absorbed(x)
  BY MachineIsSettled
<1>5. PICK next \in simulate_item(code.items[old.node], f, old.node) :
         next \in Frames /\ \A x \in Range(EdgesOf(old.node, f, next)) : Absorbed(x)
  BY <1>4
<1> DEFINE h == HandlersOf(old.node)
<1>6. PICK k \in DOMAIN h :
         e = [target |-> h[k].handler, frame |-> Frame(<<ObjectOf(h[k].catch)>>, old.frame.locals)]
  BY ZenonT(40), <1>2, <1>3, ExceptionEdgesFacts DEF Range
<1>7. h[k].handler \in Nodes /\ h[k].catch \in Classes
  BY <1>3, HandlersFacts
<1>8. Absorbed([target |-> h[k].handler, frame |-> Frame(<<ObjectOf(h[k].catch)>>, f.locals)])
  BY <1>3, <1>4, <1>5, EdgesOfFacts
<1> HIDE DEF h
<1> DEFINE s == <<ObjectOf(h[k].catch)>>
<1>9. s \in Seq(Types) /\ f.locals \in Seq(Types) /\ old.frame.locals \in Seq(Types)
  <2>1. ObjectOf(h[k].catch) \in Types
    BY <1>7 DEF Types, ValueTypes
  <2> QED BY <1>3, <1>4, <2>1 DEF Frames
<1> HIDE DEF s
<1>10. Frame(s, f.locals) \in Frames /\ Frame(s, old.frame.locals) \in Frames
  BY <1>9, FramesBuilt
<1>11. FrameFits(Frame(s, f.locals), Frame(s, old.frame.locals))
  BY <1>4, FrameFields, AlikeItself DEF FrameFits
<1>12. \E g \in entry_frames[h[k].handler] : FrameFits(g, Frame(s, old.frame.locals))
  BY <1>3, <1>7, <1>8, <1>10, <1>11, Arrives DEF s
<1>13. m.node = h[k].handler /\ m.frame = Frame(s, old.frame.locals)
  BY <1>2, <1>6 DEF s
<1> QED BY <1>3, <1>7, <1>10, <1>12, <1>13

LEMMA NextFits == ASSUME IInv, MachineFits, [Next]_vars PROVE MachineFits'
<1>1. SUFFICES ASSUME NEW m \in machine'
               PROVE  phase' = "done" /\ m.node \in Nodes' /\ m.frame \in Frames'
                      /\ \E f \in entry_frames'[m.node] : FrameFits(f, m.frame)
  BY DEF MachineFits
<1>2. code' = code
  BY DEF Next, Simulate, Visit, Propagate, Finish, Enter, Execute, Throw, vars
<1>3. Nodes' = Nodes /\ Frames' = Frames
  BY <1>2, SameCode
<1>4. CASE Simulate
  <2>1. machine' = machine /\ phase = "simulating"
    BY <1>4 DEF Simulate, Visit, Propagate, Finish
  <2>2. phase = "done"
    BY <1>1, <2>1 DEF MachineFits
  <2> QED BY <2>1, <2>2
<1>5. CASE Enter
  <2>1. phase' = phase /\ entry_frames' = entry_frames
    BY <1>5 DEF Enter
  <2> QED BY <1>1, <1>3, <1>5, <2>1, EnterFits
<1>6. CASE Execute
  <2>1. phase' = phase /\ entry_frames' = entry_frames
    BY <1>6 DEF Execute
  <2> QED BY <1>1, <1>3, <1>6, <2>1, ExecuteIsFit
<1>7. CASE Throw
  <2>1. phase' = phase /\ entry_frames' = entry_frames
    BY <1>7 DEF Throw
  <2> QED BY <1>1, <1>3, <1>7, <2>1, ThrowIsFit
<1>8. CASE UNCHANGED vars
  <2>1. phase' = phase /\ entry_frames' = entry_frames /\ machine' = machine
    BY <1>8 DEF vars
  <2> QED BY <1>1, <1>3, <2>1 DEF MachineFits
<1> QED BY <1>4, <1>5, <1>6, <1>7, <1>8 DEF Next

LEMMA FittingLimits == ASSUME IInv, MachineFits PROVE LimitsHold
<1> SUFFICES ASSUME NEW m \in machine
             PROVE  LET item == code.items[m.node]
                    IN  /\ Len(m.frame.stack) <= max_stack
                        /\ item.op \in {"aload", "astore", "iinc", "ret"} => item.slot + 1 <= max_locals
                        /\ item.op = "store" => item.slot + Len(Slots(<<item.type>>)) <= max_locals
  BY DEF LimitsHold
<1> DEFINE item == code.items[m.node]
<1>1. m.node \in Nodes /\ m.frame \in Frames /\ Known(item) /\ phase = "done"
  BY MachineIsSettled
<1>2. PICK f \in Frames :
         /\ FrameFits(f, m.frame)
         /\ \E next \in simulate_item(item, f, m.node) :
               /\ next \in Frames /\ Len(f.stack) <= max_stack
               /\ Len(f.locals) <= max_locals /\ Len(next.locals) <= max_locals
  BY MachineIsSettled
<1>3. PICK next \in simulate_item(item, f, m.node) :
         /\ next \in Frames /\ Len(f.stack) <= max_stack
         /\ Len(f.locals) <= max_locals /\ Len(next.locals) <= max_locals
  BY <1>2
<1>4. max_locals \in Nat /\ Len(f.locals) \in Nat /\ DOMAIN f.locals = 1..Len(f.locals) /\ Len(next.locals) \in Nat
  BY <1>1, <1>3, FrameParts DEF IInv, Accounted
<1>5. Len(m.frame.stack) <= max_stack
  BY <1>2, <1>3 DEF FrameFits
<1> HIDE DEF item
<1>6. item.op \in {"aload", "astore", "store", "iinc", "ret"} => item.slot \in Nat
  BY <1>1 DEF Known, ItemOK
<1>7. CASE item.op \in {"aload", "iinc", "ret"}
  <2>1. get_local(f, item.slot) # {}
    BY ZenonT(40), <1>3, <1>7, AfterLoad, AfterIInc, AfterRet
  <2>2. item.slot + 1 \in DOMAIN f.locals
    BY <2>1 DEF get_local
  <2> QED BY <1>3, <1>4, <1>5, <1>6, <1>7, <2>2 DEF item
<1>8. CASE item.op = "astore"
  <2>1. PICK g \in pop(f, 1) : next = set_local(g, item.slot, Last(f.stack))
    BY <1>3, <1>8, AfterStoreTop
  <2>2. g \in Frames /\ Last(f.stack) \in Types
    BY PopFacts, LastOfStack
  <2>3. item.slot + Len(Slots(<<Last(f.stack)>>)) <= Len(next.locals) /\ Len(Slots(<<Last(f.stack)>>)) \in {1, 2}
    BY <1>6, <1>8, <2>1, <2>2, SetLocalFacts, SlotsOfOne
  <2>4. item.slot + 1 <= max_locals
    <3> DEFINE w == Len(Slots(<<Last(f.stack)>>))
    <3>1. w \in {1, 2} /\ item.slot + w <= Len(next.locals)
      BY <2>3
    <3> HIDE DEF w
    <3> QED BY <3>1, <1>3, <1>4, <1>6, <1>8
  <2> QED BY <1>5, <1>8, <2>4 DEF item
<1>9. CASE item.op = "store"
  <2>1. PICK g \in pop(f, Len(Slots(<<item.type>>))) : next = set_local(g, item.slot, item.type)
    BY <1>3, <1>9, AfterStore
  <2>2. item.type \in Types /\ Len(Slots(<<item.type>>)) \in Nat
    BY <1>1, <1>9, WidthsAreNumbers
  <2>3. g \in Frames
    BY <2>2, PopFacts
  <2>4. item.slot + Len(Slots(<<item.type>>)) <= Len(next.locals)
    BY <1>6, <1>9, <2>1, <2>2, <2>3, SetLocalFacts
  <2>5. item.slot + Len(Slots(<<item.type>>)) <= max_locals
    BY <1>3, <1>4, <1>6, <1>9, <2>2, <2>4
  <2> QED BY <1>5, <1>9, <2>5 DEF item
<1>10. CASE item.op \notin {"aload", "astore", "store", "iinc", "ret"}
  BY <1>5, <1>10 DEF item
<1> QED BY <1>7, <1>8, <1>9, <1>10 DEF item

\* Whatever way a verified method runs, jsr and ret and exceptions included, it
\* never needs more than the recomputed max_stack and max_locals.
THEOREM LimitsAlwaysHold == Spec => []LimitsHold
<1>1. Init => MachineFits
  BY DEF Init, MachineFits
<1>2. IInv /\ MachineFits /\ [Next]_vars => IInv' /\ MachineFits'
  BY NextGrows, NextFits
<1>3. IInv /\ MachineFits => LimitsHold
  BY FittingLimits
<1> QED BY <1>1, <1>2, <1>3, InitHolds, PTL DEF Spec
=============================================================================
