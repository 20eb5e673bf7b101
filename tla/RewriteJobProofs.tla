-------------------------- MODULE RewriteJobProofs --------------------------
(***************************************************************************)
(* Theorems about RewriteJob for any jobs and any lifted JAR: the cleanup     *)
(* keeps what a method does and makes progress, compiled conditions say what  *)
(* interpreted ones say, and an error of a callback keeps the file.  Runs are *)
(* followed by hops; two lists of items have the same trace if a function     *)
(* takes the places of one to those of the other and hops come to rest in the *)
(* same instructions from places it relates.                                *)
(***************************************************************************)
EXTENDS RewriteJob, Induction, FiniteSetTheorems

-----------------------------------------------------------------------------
(* Hops: h leads from i to p if every set that has p, and what is one hop     *)
(* before its elements, has i.                                              *)

Leads(h, i, p) ==
    \A T \in SUBSET DOMAIN h : p \in T /\ (\A x \in DOMAIN h : h[x] \in T => x \in T) => i \in T

LEMMA LeadsFacts ==
    ASSUME NEW D, NEW h \in [D -> D], NEW p \in D
    PROVE  /\ Leads(h, p, p)
           /\ \A i \in D : Leads(h, h[i], p) => Leads(h, i, p)
           /\ \A i \in D : Leads(h, i, p) => i = p \/ Leads(h, h[i], p)
<1>1. Leads(h, p, p)
  BY DEF Leads
<1>2. ASSUME NEW i \in D, Leads(h, h[i], p) PROVE Leads(h, i, p)
  BY <1>2 DEF Leads
<1>3. ASSUME NEW i \in D, Leads(h, i, p) PROVE i = p \/ Leads(h, h[i], p)
  <2> DEFINE T == {x \in D : x = p \/ Leads(h, h[x], p)}
  <2>1. T \in SUBSET DOMAIN h /\ p \in T
    OBVIOUS
  <2>2. ASSUME NEW x \in DOMAIN h, h[x] \in T PROVE x \in T
    <3>1. x \in D /\ h[x] \in D
      OBVIOUS
    <3>2. CASE h[x] = p
      BY <1>1, <3>1, <3>2
    <3>3. CASE Leads(h, h[h[x]], p)
      BY <1>2, <3>1, <3>3
    <3> QED BY <2>2, <3>2, <3>3
  <2>3. i \in T
    <3> HIDE DEF T
    <3> QED BY <1>3, <2>1, <2>2 DEF Leads
  <2> QED BY <2>3
<1> QED BY <1>1, <1>2, <1>3

LEMMA LeadsOn ==
    ASSUME NEW D, NEW h \in [D -> D], NEW i \in D, NEW j \in D, NEW p \in D, Leads(h, i, j), Leads(h, j, p)
    PROVE  Leads(h, i, p)
<1> DEFINE T == {x \in D : Leads(h, x, p)}
<1>1. T \in SUBSET DOMAIN h /\ j \in T
  OBVIOUS
<1>2. \A x \in DOMAIN h : h[x] \in T => x \in T
  BY LeadsFacts
<1> HIDE DEF T
<1>3. i \in T
  BY <1>1, <1>2 DEF Leads
<1> QED BY <1>3 DEF T

\* Hops come to rest at one place.
LEMMA LeadsToOne ==
    ASSUME NEW D, NEW h \in [D -> D], NEW i \in D, NEW p \in D, NEW q \in D,
           h[p] = p, h[q] = q, Leads(h, i, p), Leads(h, i, q)
    PROVE  p = q
<1>1. ASSUME NEW r \in D, NEW s \in D, h[r] = r, Leads(h, r, s) PROVE r = s
  <2> DEFINE T == {x \in D : x # r}
  <2>1. T \in SUBSET DOMAIN h /\ \A x \in DOMAIN h : h[x] \in T => x \in T
    BY <1>1
  <2>2. r \notin T
    OBVIOUS
  <2>3. ~(s \in T)
    <3> HIDE DEF T
    <3> QED BY <1>1, <2>1, <2>2 DEF Leads
  <2> QED BY <2>3
<1> DEFINE T == {x \in D : Leads(h, x, q) => p = q}
<1>2. T \in SUBSET DOMAIN h /\ p \in T
  BY <1>1
<1>3. ASSUME NEW x \in DOMAIN h, h[x] \in T PROVE x \in T
  <2>1. x \in D /\ h[x] \in D
    OBVIOUS
  <2>2. Leads(h, q, q)
    BY LeadsFacts
  <2>3. Leads(h, x, q) => x = q \/ Leads(h, h[x], q)
    BY <2>1, LeadsFacts
  <2> QED BY <1>3, <2>1, <2>2, <2>3
<1> HIDE DEF T
<1>4. i \in T
  BY <1>2, <1>3 DEF Leads
<1> QED BY <1>4 DEF T

Path(h, n, f, i, p) ==
    f \in [0..n -> DOMAIN h] /\ f[0] = i /\ f[n] = p /\ \A k \in 1..n : f[k] = h[f[k - 1]]

LEMMA PathLeads ==
    ASSUME NEW D, NEW h \in [D -> D], NEW n \in Nat, NEW f, NEW i, NEW p, Path(h, n, f, i, p)
    PROVE  Leads(h, i, p)
<1> SUFFICES ASSUME NEW T \in SUBSET DOMAIN h, p \in T, \A x \in DOMAIN h : h[x] \in T => x \in T
             PROVE  i \in T
  BY DEF Leads
<1> DEFINE N == {d \in 0..n : f[n - d] \in T}
<1>1. f \in [0..n -> D] /\ f[0] = i /\ f[n] = p /\ \A k \in 1..n : f[k] = h[f[k - 1]]
  BY DEF Path
<1>2. 0 \in N
  BY <1>1
<1>3. ASSUME NEW d \in 1..n, d - 1 \in N PROVE d \in N
  <2>1. n - (d - 1) \in 1..n /\ (n - (d - 1)) - 1 = n - d /\ n - d \in 0..n /\ d \in 0..n
    OBVIOUS
  <2>2. f[n - (d - 1)] \in T
    BY <1>3
  <2>3. f[n - (d - 1)] = h[f[n - d]] /\ f[n - d] \in DOMAIN h
    BY <1>1, <2>1
  <2>4. f[n - d] \in T
    BY <2>2, <2>3
  <2> QED BY <2>1, <2>4
<1> HIDE DEF N
<1>4. 0..n \subseteq N
  BY <1>2, <1>3, UpTo
<1>5. n \in N
  BY <1>4
<1> QED BY <1>1, <1>5 DEF N

LEMMA LeadsPath ==
    ASSUME NEW D, NEW h \in [D -> D], NEW i \in D, NEW p \in D, Leads(h, i, p)
    PROVE  \E n \in Nat : \E f : Path(h, n, f, i, p)
<1> DEFINE T == {x \in D : \E n \in Nat : \E f : Path(h, n, f, x, p)}
<1>1. p \in T
  <2> DEFINE f == [k \in 0..0 |-> p]
  <2>1. Path(h, 0, f, p, p)
    BY DEF Path
  <2> HIDE DEF f
  <2> QED BY <2>1
<1>2. ASSUME NEW x \in D, h[x] \in T PROVE x \in T
  <2>0. PICK n \in Nat : \E f : Path(h, n, f, h[x], p)
    BY <1>2
  <2>1. PICK f : Path(h, n, f, h[x], p)
    BY <2>0
  <2>2. f \in [0..n -> D] /\ f[0] = h[x] /\ f[n] = p /\ \A k \in 1..n : f[k] = h[f[k - 1]]
    BY <2>1 DEF Path
  <2> DEFINE g == [k \in 0..(n + 1) |-> IF k = 0 THEN x ELSE f[k - 1]]
  <2>3. \A k \in 1..(n + 1) : k - 1 \in 0..n
    OBVIOUS
  <2>4. g \in [0..(n + 1) -> D] /\ g[0] = x
    BY <2>2, <2>3
  <2>5. g[n + 1] = p
    BY <2>2
  <2>6. ASSUME NEW k \in 1..(n + 1) PROVE g[k] = h[g[k - 1]]
    <3>1. CASE k = 1
      BY <2>2, <3>1
    <3>2. CASE k # 1
      <4>1. k - 1 \in 1..n /\ g[k] = f[k - 1] /\ g[k - 1] = f[(k - 1) - 1]
        BY <3>2
      <4> QED BY <4>1, <2>2
    <3> QED BY <3>1, <3>2
  <2>7. Path(h, n + 1, g, x, p)
    <3> HIDE DEF g
    <3> QED BY <2>4, <2>5, <2>6 DEF Path
  <2>8. n + 1 \in Nat
    OBVIOUS
  <2> HIDE DEF g
  <2> QED BY <2>7, <2>8
<1>3. T \in SUBSET DOMAIN h
  OBVIOUS
<1> HIDE DEF T
<1>4. i \in T
  BY <1>1, <1>2, <1>3 DEF Leads
<1> QED BY <1>4 DEF T

\* Two paths from the same place are the same as far as both go.
LEMMA PathsAgree ==
    ASSUME NEW D, NEW h \in [D -> D], NEW n \in Nat, NEW f, NEW i, NEW p, Path(h, n, f, i, p),
           NEW m \in Nat, n <= m, NEW g, NEW q, Path(h, m, g, i, q)
    PROVE  \A k \in 0..n : f[k] = g[k]
<1> DEFINE N == {k \in 0..n : f[k] = g[k]}
<1>1. 0 \in N
  BY DEF Path
<1>2. ASSUME NEW k \in 1..n, k - 1 \in N PROVE k \in N
  <2>1. k \in 1..m /\ k \in 0..n
    OBVIOUS
  <2>2. f[k] = h[f[k - 1]] /\ g[k] = h[g[k - 1]]
    BY <2>1 DEF Path
  <2> QED BY <1>2, <2>1, <2>2
<1> HIDE DEF N
<1>3. 0..n \subseteq N
  BY <1>1, <1>2, UpTo
<1> QED BY <1>3 DEF N

\* A path that has come to rest stays there.
LEMMA PathRests ==
    ASSUME NEW D, NEW h \in [D -> D], NEW n \in Nat, NEW f, NEW i, NEW p, Path(h, n, f, i, p), h[p] = p,
           NEW m \in Nat, n <= m, NEW g, NEW q, Path(h, m, g, i, q)
    PROVE  p = q
<1> DEFINE N == {d \in 0..(m - n) : g[n + d] = p}
<1>1. m - n \in Nat /\ n \in 0..n /\ f[n] = p
  BY DEF Path
<1>2. 0 \in N
  <2>1. f[n] = g[n]
    BY <1>1, PathsAgree
  <2> QED BY <1>1, <2>1
<1>3. ASSUME NEW d \in 1..(m - n), d - 1 \in N PROVE d \in N
  <2>1. n + d \in 1..m /\ (n + d) - 1 = n + (d - 1) /\ d \in 0..(m - n)
    BY <1>1
  <2>2. g[n + d] = h[g[n + (d - 1)]]
    BY <2>1 DEF Path
  <2> QED BY <1>3, <2>1, <2>2
<1> HIDE DEF N
<1>4. 0..(m - n) \subseteq N
  BY <1>1, <1>2, <1>3, UpTo
<1>5. m - n \in 0..(m - n) /\ n + (m - n) = m
  BY <1>1
<1>6. g[m] = p
  BY <1>4, <1>5 DEF N
<1> QED BY <1>6 DEF Path

\* The shortest path to a place of rest visits no place twice.
LEMMA ShortPath ==
    ASSUME NEW D, NEW h \in [D -> D], NEW i \in D, NEW p \in D, h[p] = p, Leads(h, i, p)
    PROVE  \E n \in Nat : \E f : Path(h, n, f, i, p) /\ \A a, b \in 0..n : a < b => f[a] # f[b]
<1> DEFINE N == {n \in Nat : \E f : Path(h, n, f, i, p)}
<1>1. PICK n \in N : \A m \in N : n <= m
  <2>1. N # {} /\ N \in SUBSET Nat
    BY LeadsPath
  <2> HIDE DEF N
  <2> QED BY <2>1, LeastNumber
<1>2. n \in Nat
  OBVIOUS
<1>3. PICK f : Path(h, n, f, i, p)
  OBVIOUS
<1>4. f \in [0..n -> D] /\ f[0] = i /\ f[n] = p /\ \A k \in 1..n : f[k] = h[f[k - 1]]
  BY <1>3 DEF Path
<1>5. ASSUME NEW a \in 0..n, NEW b \in 0..n, a < b, f[a] = f[b] PROVE FALSE
  <2> DEFINE M == {d \in 0..(n - b) : f[a + d] = f[b + d]}
             m == a + (n - b)
             g == [k \in 0..m |-> f[k]]
  <2>1. n - b \in Nat /\ m \in Nat /\ m < n /\ b + (n - b) = n /\ n - b \in 0..(n - b)
    BY <1>2, <1>5
  <2>2. 0 \in M
    BY <1>5, <2>1
  <2>3. ASSUME NEW d \in 1..(n - b), d - 1 \in M PROVE d \in M
    <3>1. /\ a + d \in 1..n /\ (a + d) - 1 = a + (d - 1) /\ d \in 0..(n - b)
          /\ b + d \in 1..n /\ (b + d) - 1 = b + (d - 1)
      BY <1>2, <1>5, <2>1
    <3>2. f[a + d] = h[f[a + (d - 1)]] /\ f[b + d] = h[f[b + (d - 1)]]
      BY <1>4, <3>1
    <3> QED BY <2>3, <3>1, <3>2
  <2>4. 0..(n - b) \subseteq M
    <3> HIDE DEF M
    <3> QED BY <2>1, <2>2, <2>3, UpTo
  <2>5. f[m] = p
    <3>1. n - b \in M
      BY <2>1, <2>4
    <3>2. f[a + (n - b)] = f[b + (n - b)]
      BY <3>1
    <3> QED BY <1>4, <2>1, <3>2
  <2>6. \A k \in 0..m : k \in 0..n
    BY <1>2, <2>1
  <2>7. Path(h, m, g, i, p)
    <3>1. g \in [0..m -> D] /\ g[0] = i /\ g[m] = p
      BY <1>4, <2>1, <2>5, <2>6
    <3>2. \A k \in 1..m : k \in 1..n /\ k \in 0..m /\ k - 1 \in 0..m
      BY <1>2, <2>1
    <3>3. \A k \in 1..m : g[k] = h[g[k - 1]]
      BY <1>4, <3>2
    <3> HIDE DEF g, m
    <3> QED BY <3>1, <3>3 DEF Path
  <2>8. m \in N
    <3> HIDE DEF g, m
    <3> QED BY <2>1, <2>7
  <2> HIDE DEF N, m
  <2> QED BY <1>1, <1>2, <2>1, <2>8
<1> HIDE DEF N
<1> QED BY <1>2, <1>3, <1>5

\* f is the recursion in AfterHops.
LEMMA HopsArePath ==
    ASSUME NEW D, NEW h \in [D -> D], NEW i \in D, NEW n \in Nat
    PROVE  \E f : Path(h, n, f, i, AfterHops(h, i, n))
<1> DEFINE hop == [k \in 1..n |-> h]
           Fits(f) == f = [k \in 0..n |-> IF k = 0 THEN i ELSE h[f[k - 1]]]
           at == CHOOSE f : Fits(f)
<1>1. hop \in [1..n -> [D -> D]] /\ \A k \in 1..n : hop[k] = h
  OBVIOUS
<1> HIDE DEF hop
<1>2. PICK f \in [0..n -> D] : Recursive(n, i, hop, f)
  BY <1>1, Recursion
<1>3. Fits(f)
  <2>1. f = [k \in 0..n |-> f[k]]
    OBVIOUS
  <2>2. \A k \in 0..n : f[k] = IF k = 0 THEN i ELSE h[f[k - 1]]
    <3>1. \A k \in 0..n : k = 0 \/ k \in 1..n
      OBVIOUS
    <3> QED BY <1>1, <1>2, <3>1 DEF Recursive
  <2> QED BY <2>1, <2>2
<1>4. Fits(at)
  <2> HIDE DEF Fits
  <2> QED BY <1>3
<1>5. AfterHops(h, i, n) = at[n]
  BY DEF AfterHops, at
<1> HIDE DEF at
<1>6. at[0] = i /\ \A k \in 1..n : at[k] = h[at[k - 1]]
  <2>1. 0 \in 0..n /\ \A k \in 1..n : k \in 0..n /\ k # 0
    OBVIOUS
  <2>2. \A k \in 0..n : at[k] = IF k = 0 THEN i ELSE h[at[k - 1]]
    BY <1>4
  <2> QED BY <2>1, <2>2
<1>7. \A k \in 0..n : at[k] \in D
  <2> DEFINE N == {k \in 0..n : at[k] \in D}
  <2>1. 0 \in N
    BY <1>6
  <2>2. \A k \in 1..n : k - 1 \in N => k \in N
    BY <1>6
  <2> HIDE DEF N
  <2>3. 0..n \subseteq N
    BY <2>1, <2>2, UpTo
  <2> QED BY <2>3 DEF N
<1>8. at \in [0..n -> D]
  <2>1. at = [k \in 0..n |-> IF k = 0 THEN i ELSE h[at[k - 1]]]
    BY <1>4
  <2>2. \A k \in 0..n : (IF k = 0 THEN i ELSE h[at[k - 1]]) \in D
    BY <1>6, <1>7
  <2> QED BY <2>1, <2>2
<1>9. Path(h, n, at, i, at[n])
  BY <1>6, <1>8 DEF Path
<1> QED BY <1>5, <1>9

LEMMA HopsLead ==
    ASSUME NEW D, NEW h \in [D -> D], NEW i \in D, NEW n \in Nat
    PROVE  AfterHops(h, i, n) \in D /\ Leads(h, i, AfterHops(h, i, n))
<1>1. PICK f : Path(h, n, f, i, AfterHops(h, i, n))
  BY HopsArePath
<1>2. f[n] = AfterHops(h, i, n) /\ f \in [0..n -> D] /\ n \in 0..n
  BY <1>1 DEF Path
<1> QED BY <1>1, <1>2, PathLeads

\* Where no more than n places can be left, n hops get wherever hops come to rest.
LEMMA HopsArrive ==
    ASSUME NEW D, NEW h \in [D -> D], NEW i \in D, NEW p \in D, h[p] = p, Leads(h, i, p), NEW n \in Nat,
           NEW M, IsFiniteSet(M), Cardinality(M) <= n, \A x \in D : h[x] # x => x \in M
    PROVE  AfterHops(h, i, n) = p
<1>0. PICK m \in Nat : \E f : Path(h, m, f, i, p) /\ \A a, b \in 0..m : a < b => f[a] # f[b]
  BY ShortPath
<1>1. PICK f : Path(h, m, f, i, p) /\ \A a, b \in 0..m : a < b => f[a] # f[b]
  BY <1>0
<1>2. f \in [0..m -> D] /\ f[m] = p /\ \A k \in 1..m : f[k] = h[f[k - 1]]
  BY <1>1 DEF Path
<1> DEFINE S == 0..(m - 1)
           g == [k \in S |-> f[k]]
<1>3. \A k \in S : k \in 0..m /\ k + 1 \in 1..m /\ k + 1 \in 0..m /\ (k + 1) - 1 = k /\ k < k + 1
  OBVIOUS
<1>4. \A k \in S : f[k] \in M
  <2>1. \A k \in S : f[k + 1] = h[f[k]] /\ f[k] # f[k + 1] /\ f[k] \in D
    BY <1>1, <1>2, <1>3
  <2> QED BY <2>1
<1>5. \A a, b \in S : f[a] = f[b] => a = b
  <2>1. \A a, b \in S : a < b \/ b < a \/ a = b
    OBVIOUS
  <2> QED BY <1>1, <1>3, <2>1
<1>6. g \in Injection(S, M)
  BY <1>4, <1>5 DEF Injection, IsInjective
<1>7. IsFiniteSet(S) /\ Cardinality(S) <= Cardinality(M)
  BY <1>6, FS_Injection
<1>8. Cardinality(S) = m
  BY FS_Interval
<1>9. Cardinality(M) \in Nat
  BY FS_CardinalityType
<1>10. m <= n
  BY <1>7, <1>8, <1>9
<1>11. PICK e : Path(h, n, e, i, AfterHops(h, i, n))
  BY HopsArePath
<1>12. p = AfterHops(h, i, n)
  BY <1>1, <1>10, <1>11, PathRests
<1> QED BY <1>12

-----------------------------------------------------------------------------
(* Labels, and what follows them. *)

LEMMA LiftedItems ==
    ASSUME NEW items, AreLifted(items)
    PROVE  /\ items \in Seq(Range(items)) /\ Len(items) \in Nat /\ DOMAIN items = 1..Len(items)
           /\ \A i \in 1..Len(items) : items[i] \in Range(items) /\ {"k", "op", "label", "targets"} \subseteq DOMAIN items[i]
           /\ LabelsOnce(items)
<1>1. items \in Seq(Range(items)) /\ LabelsOnce(items)
  BY DEF AreLifted
<1>2. Len(items) \in Nat /\ DOMAIN items = 1..Len(items)
  BY <1>1, LenProperties
<1>3. \A i \in 1..Len(items) : items[i] \in Range(items)
  BY <1>2 DEF Range
<1> QED BY <1>1, <1>2, <1>3 DEF AreLifted

LEMMA LabelPlaces ==
    ASSUME NEW items, AreLifted(items)
    PROVE  /\ \A label : LabelAt(items, label) \in 0..Len(items)
           /\ \A label : LabelAt(items, label) # 0 =>
                IsLabel(items[LabelAt(items, label)]) /\ items[LabelAt(items, label)].label = label
           /\ \A i \in 1..Len(items) : IsLabel(items[i]) => LabelAt(items, items[i].label) = i
<1> DEFINE At(label) == {i \in 1..Len(items) : IsLabel(items[i]) /\ items[i].label = label}
<1>1. Len(items) \in Nat /\ DOMAIN items = 1..Len(items) /\ LabelsOnce(items)
  BY LiftedItems
<1>2. \A label : LabelAt(items, label) = IF At(label) # {} THEN Max(At(label)) ELSE 0
  BY DEF LabelAt, SelectLastInSeq
<1>3. ASSUME NEW label, NEW i \in At(label) PROVE LabelAt(items, label) = i
  <2>1. At(label) = {i}
    BY <1>1 DEF LabelsOnce
  <2>2. i \in Nat /\ i >= i
    BY <1>1
  <2>3. Max({i}) = i
    BY <2>2 DEF Max
  <2> HIDE DEF At
  <2> QED BY <1>2, <2>1, <2>3
<1>4. ASSUME NEW label
      PROVE  /\ LabelAt(items, label) \in 0..Len(items)
             /\ LabelAt(items, label) # 0 =>
                  IsLabel(items[LabelAt(items, label)]) /\ items[LabelAt(items, label)].label = label
  <2>1. CASE At(label) = {}
    <3>1. LabelAt(items, label) = 0
      <4> HIDE DEF At
      <4> QED BY <1>2, <2>1
    <3> QED BY <1>1, <3>1
  <2>2. CASE At(label) # {}
    <3>1. PICK i : i \in At(label)
      BY <2>2
    <3> QED BY <1>1, <1>3, <3>1
  <2> QED BY <2>1, <2>2
<1>5. ASSUME NEW i \in 1..Len(items), IsLabel(items[i]) PROVE LabelAt(items, items[i].label) = i
  BY <1>3, <1>5
<1> QED BY <1>4, <1>5

LEMMA FirstInsnFacts ==
    ASSUME NEW items, Len(items) \in Nat, NEW i \in 1..(Len(items) + 1)
    PROVE  /\ FirstInsn(items, i) \in i..(Len(items) + 1)
           /\ \A j \in i..(FirstInsn(items, i) - 1) : j \in 1..Len(items) /\ IsLabel(items[j])
           /\ FirstInsn(items, i) <= Len(items) => ~IsLabel(items[FirstInsn(items, i)])
<1> DEFINE insns == {j \in i..Len(items) : ~IsLabel(items[j])}
<1>1. FirstInsn(items, i) = IF insns = {} THEN Len(items) + 1 ELSE Min(insns)
  BY DEF FirstInsn
<1>2. CASE insns = {}
  BY <1>1, <1>2
<1>3. CASE insns # {}
  <2>1. insns \in SUBSET Nat
    OBVIOUS
  <2>2. PICK x \in insns : \A y \in insns : x <= y
    <3> HIDE DEF insns
    <3> QED BY <1>3, <2>1, LeastNumber
  <2>3. Min(insns) \in insns /\ \A y \in insns : Min(insns) <= y
    <3> HIDE DEF insns
    <3> QED BY <2>2 DEF Min
  <2> DEFINE e == FirstInsn(items, i)
  <2>4. e \in insns /\ \A y \in insns : e <= y
    <3> HIDE DEF insns
    <3> QED BY <1>1, <1>3, <2>3
  <2>5. e \in i..Len(items) /\ ~IsLabel(items[e])
    BY <2>4
  <2>6. ASSUME NEW j \in i..(e - 1) PROVE j \in 1..Len(items) /\ IsLabel(items[j])
    <3>1. j \in i..Len(items) /\ ~(e <= j) /\ j \in 1..Len(items)
      BY <2>5
    <3>2. j \notin insns
      BY <2>4, <3>1
    <3> QED BY <3>1, <3>2
  <2> HIDE DEF e
  <2>7. e \in i..(Len(items) + 1)
    BY <2>5
  <2> QED BY <2>5, <2>6, <2>7 DEF e
<1> QED BY <1>2, <1>3

Dom(items) == 0..(Len(items) + 1)

LEMMA HopsAre ==
    ASSUME NEW items, AreLifted(items)
    PROVE  /\ Hops(items) \in [Dom(items) -> Dom(items)]
           /\ Hops(items)[0] = 0 /\ Hops(items)[Len(items) + 1] = Len(items) + 1
           /\ \A i \in 1..Len(items) :
                /\ IsLabel(items[i]) \/ IsNop(items[i]) => Hops(items)[i] = i + 1
                /\ i \in Gotos(items) => Hops(items)[i] = LabelAt(items, items[i].targets[1])
                /\ i \in Real(items) <=> Hops(items)[i] = i
                /\ IsLabel(items[i]) \/ IsNop(items[i]) \/ i \in Gotos(items) \/ i \in Real(items)
<1>1. Len(items) \in Nat /\ DOMAIN items = 1..Len(items)
  BY LiftedItems
<1>2. \A i \in 1..Len(items) : is_unconditional_goto(items[i]) => ~IsLabel(items[i]) /\ ~IsNop(items[i])
  BY DEF is_unconditional_goto, IsLabel, IsNop
<1>3. \A label : LabelAt(items, label) \in 0..Len(items)
  BY LabelPlaces
<1>4. \A i \in 1..Len(items) : is_unconditional_goto(items[i]) => LabelAt(items, items[i].targets[1]) # i
  BY <1>2, LabelPlaces
<1> DEFINE hop(i) ==
        IF i \notin DOMAIN items THEN i
        ELSE CASE IsLabel(items[i]) \/ IsNop(items[i]) -> i + 1
               [] is_unconditional_goto(items[i]) -> LabelAt(items, items[i].targets[1])
               [] OTHER -> i
<1>5. Hops(items) = [i \in Dom(items) |-> hop(i)]
  BY DEF Hops, Dom
<1>6. hop(0) = 0 /\ hop(Len(items) + 1) = Len(items) + 1
  BY <1>1
<1>7. ASSUME NEW i \in 1..Len(items)
      PROVE  /\ IsLabel(items[i]) \/ IsNop(items[i]) => hop(i) = i + 1
             /\ is_unconditional_goto(items[i]) => hop(i) = LabelAt(items, items[i].targets[1])
             /\ ~IsLabel(items[i]) /\ ~IsNop(items[i]) /\ ~is_unconditional_goto(items[i]) => hop(i) = i
             /\ hop(i) \in Dom(items)
  <2>1. i \in DOMAIN items /\ i + 1 \in Dom(items) /\ i \in Dom(items)
    BY <1>1 DEF Dom
  <2>2. LabelAt(items, items[i].targets[1]) \in Dom(items)
    BY <1>1, <1>3 DEF Dom
  <2> QED BY <1>2, <2>1, <2>2
<1>8. 0 \in Dom(items) /\ Len(items) + 1 \in Dom(items) /\ \A i \in Dom(items) : i = 0 \/ i = Len(items) + 1 \/ i \in 1..Len(items)
  BY <1>1 DEF Dom
<1> HIDE DEF hop
<1>9. Hops(items) \in [Dom(items) -> Dom(items)] /\ Hops(items)[0] = 0 /\ Hops(items)[Len(items) + 1] = Len(items) + 1
  BY <1>5, <1>6, <1>7, <1>8
<1>10. ASSUME NEW i \in 1..Len(items)
       PROVE  /\ IsLabel(items[i]) \/ IsNop(items[i]) => Hops(items)[i] = i + 1
              /\ i \in Gotos(items) => Hops(items)[i] = LabelAt(items, items[i].targets[1])
              /\ i \in Real(items) <=> Hops(items)[i] = i
              /\ IsLabel(items[i]) \/ IsNop(items[i]) \/ i \in Gotos(items) \/ i \in Real(items)
  <2>1. i \in Dom(items) /\ Hops(items)[i] = hop(i) /\ i + 1 # i
    BY <1>1, <1>5 DEF Dom
  <2>2. i \in Gotos(items) <=> is_unconditional_goto(items[i])
    BY <1>1 DEF Gotos
  <2>3. i \in Real(items) <=> ~IsLabel(items[i]) /\ ~IsNop(items[i]) /\ ~is_unconditional_goto(items[i])
    BY <1>1 DEF Real
  <2> QED BY <1>4, <1>7, <2>1, <2>2, <2>3
<1> QED BY <1>9, <1>10

-----------------------------------------------------------------------------
(* Traces: where a run gets to, and that they are the same for other items    *)
(* that every real instruction of the first has been taken to.                *)

LEMMA RunsArrive ==
    ASSUME NEW items, AreLifted(items), NEW i \in Dom(items), NEW p \in Dom(items),
           Hops(items)[p] = p, Leads(Hops(items), i, p)
    PROVE  AfterHops(Hops(items), i, Len(items)) = p
<1> DEFINE h == Hops(items)
           M == 1..Len(items)
<1>1. Len(items) \in Nat
  BY LiftedItems
<1>2. h \in [Dom(items) -> Dom(items)] /\ h[0] = 0 /\ h[Len(items) + 1] = Len(items) + 1
  BY HopsAre
<1>3. IsFiniteSet(M) /\ Cardinality(M) <= Len(items)
  BY <1>1, FS_Interval
<1>4. \A x \in Dom(items) : h[x] # x => x \in M
  <2>1. \A x \in Dom(items) : x = 0 \/ x = Len(items) + 1 \/ x \in M
    BY <1>1 DEF Dom
  <2> QED BY <1>2, <2>1
<1> HIDE DEF h, M
<1>5. h[p] = p /\ Leads(h, i, p)
  BY DEF h
<1>6. AfterHops(h, i, Len(items)) = p
  BY <1>1, <1>2, <1>3, <1>4, <1>5, HopsArrive
<1> QED BY <1>6 DEF h

RestsAt(items, i, p) == p \in Dom(items) /\ Hops(items)[p] = p /\ Leads(Hops(items), i, p)

LEMMA ArrivalsAre ==
    ASSUME NEW items, AreLifted(items), NEW i \in Dom(items)
    PROVE  /\ \A p : RestsAt(items, i, p) =>
                /\ p = 0 => Arrivals(items)[i] = 0
                /\ p = Len(items) + 1 => Arrivals(items)[i] = 1
                /\ p \in 1..Len(items) => Arrivals(items)[i] = items[p].id
           /\ (\A p : ~RestsAt(items, i, p)) => Arrivals(items)[i] = 0
<1> DEFINE h == Hops(items)
           n == Len(items)
           at == AfterHops(h, i, n)
<1>1. n \in Nat /\ h \in [Dom(items) -> Dom(items)]
  BY LiftedItems, HopsAre
<1>2. at \in Dom(items) /\ Leads(h, i, at)
  <2> HIDE DEF h, n
  <2> QED BY <1>1, HopsLead
<1>3. Arrivals(items)[i] = CASE at = 0 \/ h[at] # at -> 0
                             [] at > n -> 1
                             [] OTHER -> items[at].id
  <2>1. DOMAIN h = Dom(items)
    BY <1>1
  <2> QED BY <2>1 DEF Arrivals
<1> HIDE DEF at, n
<1>4. ASSUME NEW p, RestsAt(items, i, p) PROVE p = at /\ h[at] = at
  <2>1. at = p
    BY <1>4, RunsArrive DEF RestsAt, at, n
  <2> QED BY <1>4, <2>1 DEF RestsAt
<1>5. ASSUME NEW p, RestsAt(items, i, p)
      PROVE  /\ p = 0 => Arrivals(items)[i] = 0
             /\ p = n + 1 => Arrivals(items)[i] = 1
             /\ p \in 1..n => Arrivals(items)[i] = items[p].id
  <2>1. p = at /\ h[at] = at
    BY <1>4, <1>5
  <2> HIDE DEF h
  <2>2. CASE p = 0
    BY <1>1, <1>3, <2>1, <2>2
  <2>3. CASE p = n + 1
    <3>1. at > n /\ at # 0
      BY <1>1, <2>1, <2>3
    <3> QED BY <1>1, <1>3, <2>1, <2>3, <3>1
  <2>4. CASE p \in 1..n
    <3>1. ~(at > n) /\ at # 0 /\ p # n + 1
      BY <1>1, <2>1, <2>4
    <3> QED BY <1>3, <2>1, <3>1
  <2> QED BY <2>2, <2>3, <2>4
<1>6. ASSUME \A p : ~RestsAt(items, i, p) PROVE Arrivals(items)[i] = 0
  <2>1. h[at] # at
    BY <1>2, <1>6 DEF RestsAt
  <2>2. ~(at > n) \/ at = n + 1
    BY <1>1, <1>2 DEF Dom, n
  <2>3. h[n + 1] = n + 1
    BY HopsAre DEF n
  <2> HIDE DEF h
  <2>4. ~(at > n)
    BY <2>1, <2>2, <2>3
  <2> QED BY <1>3, <2>1, <2>4
<1> QED BY <1>5, <1>6 DEF n

\* f takes the places of the first items to those of the second, the real instructions of
\* the one onto those of the other, and keeps them in order with the labels.
Takes(first, second, f) ==
    /\ f \in [Dom(first) -> Dom(second)] /\ f[0] = 0 /\ f[1] = 1
    /\ \A i \in Real(first) : f[i] \in Real(second) /\ second[f[i]] = first[i] /\ f[i + 1] = f[i] + 1
    /\ \A j \in Real(second) : \E i \in Real(first) : f[i] = j
    /\ \A label : LabelAt(second, label) = f[LabelAt(first, label)]
    /\ \A i \in Real(first) : \A label :
        /\ LabelAt(first, label) < i <=> f[LabelAt(first, label)] < f[i]
        /\ i < LabelAt(first, label) <=> f[i] < f[LabelAt(first, label)]

\* And the runs from there come to rest where f takes those of the first.
KeepsRuns(first, second, f) ==
    \A i \in Dom(first) :
        /\ \A p : RestsAt(first, i, p) => RestsAt(second, f[i], f[p])
        /\ \A q : RestsAt(second, f[i], q) => \E p : RestsAt(first, i, p)

LEMMA SameArrivals ==
    ASSUME NEW first, AreLifted(first), NEW second, AreLifted(second), NEW f,
           Takes(first, second, f), KeepsRuns(first, second, f), f[Len(first) + 1] = Len(second) + 1,
           NEW i \in Dom(first)
    PROVE  f[i] \in Dom(second) /\ Arrivals(second)[f[i]] = Arrivals(first)[i]
<1>1. f \in [Dom(first) -> Dom(second)] /\ f[0] = 0 /\ f[i] \in Dom(second)
  BY DEF Takes
<1>2. Len(first) \in Nat /\ Len(second) \in Nat
  BY LiftedItems
<1>3. CASE \E p : RestsAt(first, i, p)
  <2>1. PICK p : RestsAt(first, i, p)
    BY <1>3
  <2>2. RestsAt(second, f[i], f[p])
    BY <2>1 DEF KeepsRuns
  <2>3. CASE p = 0
    BY <1>1, <2>1, <2>2, <2>3, ArrivalsAre
  <2>4. CASE p = Len(first) + 1
    BY <1>1, <2>1, <2>2, <2>4, ArrivalsAre
  <2>5. CASE p \in 1..Len(first)
    <3>1. p \in Real(first)
      BY <2>1, <2>5, HopsAre DEF RestsAt
    <3>2. f[p] \in Real(second) /\ second[f[p]] = first[p]
      BY <3>1 DEF Takes
    <3>3. f[p] \in 1..Len(second)
      BY <3>2, LiftedItems DEF Real
    <3> QED BY <1>1, <2>1, <2>2, <2>5, <3>2, <3>3, ArrivalsAre
  <2>6. p = 0 \/ p = Len(first) + 1 \/ p \in 1..Len(first)
    BY <1>2, <2>1 DEF RestsAt, Dom
  <2> QED BY <1>1, <2>3, <2>4, <2>5, <2>6
<1>4. CASE \A p : ~RestsAt(first, i, p)
  <2>1. \A q : ~RestsAt(second, f[i], q)
    BY <1>4 DEF KeepsRuns
  <2>2. Arrivals(second)[f[i]] = 0
    BY <1>1, <2>1, ArrivalsAre
  <2> QED BY <1>1, <1>4, <2>2, ArrivalsAre
<1> QED BY <1>3, <1>4

TraceStep(code, i) ==
    <<code.items[i], Guards(code, i),
      IF FallsThrough(code.items[i]) THEN Arrivals(code.items)[i + 1] ELSE 0,
      [t \in DOMAIN code.items[i].targets |->
        Arrivals(code.items)[LabelAt(code.items, code.items[i].targets[t])]]>>

LEMMA SameTrace ==
    ASSUME NEW code, NEW after, after.handlers = code.handlers,
           AreLifted(code.items), AreLifted(after.items), NEW f,
           Takes(code.items, after.items, f), KeepsRuns(code.items, after.items, f),
           f[Len(code.items) + 1] = Len(after.items) + 1
    PROVE  Trace(after) = Trace(code)
<1> DEFINE first == code.items
           second == after.items
           to == Arrivals(first)
           on == Arrivals(second)
<1>1. /\ Len(first) \in Nat /\ Len(second) \in Nat /\ DOMAIN first = 1..Len(first)
      /\ f \in [Dom(first) -> Dom(second)] /\ f[0] = 0 /\ f[1] = 1
  BY LiftedItems DEF Takes
<1>2. \A i \in Dom(first) : on[f[i]] = to[i]
  BY SameArrivals
<1> HIDE DEF to, on
<1>3. 1 \in Dom(first) /\ on[1] = to[1]
  <2>1. 1 \in Dom(first)
    BY <1>1 DEF Dom, first
  <2> QED BY <1>1, <1>2, <2>1
<1>4. ASSUME NEW label PROVE on[LabelAt(second, label)] = to[LabelAt(first, label)]
  <2>1. LabelAt(first, label) \in Dom(first)
    BY <1>1, LabelPlaces DEF Dom
  <2>2. LabelAt(second, label) = f[LabelAt(first, label)]
    BY DEF Takes
  <2> QED BY <1>2, <2>1, <2>2
<1>5. ASSUME NEW i \in Real(first) PROVE TraceStep(after, f[i]) = TraceStep(code, i)
  <2>1. i \in 1..Len(first) /\ i + 1 \in Dom(first)
    BY <1>1 DEF Real, Dom, first
  <2>2. second[f[i]] = first[i] /\ f[i + 1] = f[i] + 1
    BY DEF Takes
  <2>3. on[f[i] + 1] = to[i + 1]
    BY <1>2, <2>1, <2>2
  <2>4. Guards(after, f[i]) = Guards(code, i)
    <3>1. \A label : /\ LabelAt(second, label) < f[i] <=> LabelAt(first, label) < i
                     /\ f[i] < LabelAt(second, label) <=> i < LabelAt(first, label)
      BY DEF Takes
    <3> QED BY <3>1 DEF Guards
  <2>5. [t \in DOMAIN second[f[i]].targets |-> on[LabelAt(second, second[f[i]].targets[t])]]
        = [t \in DOMAIN first[i].targets |-> to[LabelAt(first, first[i].targets[t])]]
    BY <1>4, <2>2
  <2> QED BY <2>2, <2>3, <2>4, <2>5 DEF TraceStep, to, on
<1>6. {TraceStep(after, j) : j \in Real(second)} = {TraceStep(code, i) : i \in Real(first)}
  <2>1. \A i \in Real(first) : f[i] \in Real(second)
    BY DEF Takes
  <2>2. \A j \in Real(second) : \E i \in Real(first) : f[i] = j
    BY DEF Takes
  <2> HIDE DEF first, second
  <2> QED BY <1>5, <2>1, <2>2
<1>7. [h \in DOMAIN after.handlers |-> on[LabelAt(second, after.handlers[h].handler)]]
      = [h \in DOMAIN code.handlers |-> to[LabelAt(first, code.handlers[h].handler)]]
  BY <1>4
<1>8. Trace(code) = [entry |-> to[1], steps |-> {TraceStep(code, i) : i \in Real(first)},
                     catches |-> [h \in DOMAIN code.handlers |-> to[LabelAt(first, code.handlers[h].handler)]]]
  BY DEF Trace, TraceStep, to, first
<1>9. Trace(after) = [entry |-> on[1], steps |-> {TraceStep(after, j) : j \in Real(second)},
                      catches |-> [h \in DOMAIN after.handlers |-> on[LabelAt(second, after.handlers[h].handler)]]]
  BY DEF Trace, TraceStep, on, second
<1> QED BY <1>3, <1>6, <1>7, <1>8, <1>9

-----------------------------------------------------------------------------
(* Dropping items.  What is dropped is no label, and does nothing but hop to   *)
(* what follows, over labels at the most.                                   *)

Passes(items, i) ==
    /\ i \in 1..Len(items) /\ ~IsLabel(items[i]) /\ i \notin Real(items)
    /\ Hops(items)[i] \in (i + 1)..(Len(items) + 1)
    /\ \A x \in (i + 1)..(Hops(items)[i] - 1) : IsLabel(items[x])

\* Where things are when those of hits are kept: at the place of the next that is.
Moved(items, hits, f) ==
    /\ f \in [Dom(items) -> Dom(Kept(items, hits))]
    /\ f[0] = 0 /\ f[1] = 1 /\ f[Len(items) + 1] = Len(Kept(items, hits)) + 1
    /\ \A i \in 1..Len(items) :
        /\ i \in hits => f[i] \in 1..Len(Kept(items, hits)) /\ Kept(items, hits)[f[i]] = items[i] /\ f[i + 1] = f[i] + 1
        /\ i \notin hits => f[i + 1] = f[i]
    /\ \A j \in 1..Len(Kept(items, hits)) : \E i \in 1..Len(items) : i \in hits /\ f[i] = j
    /\ \A i, j \in 1..Len(items) : i \in hits /\ i < j => f[i] < f[j]

LEMMA KeptMoves ==
    ASSUME NEW S, NEW items \in Seq(S), NEW hits
    PROVE  \E f : Moved(items, hits, f)
<1> DEFINE n == Len(items)
           left == Kept(items, hits)
           tally(i) == Tally(items, hits, i)
           f == [i \in Dom(items) |-> IF i = 0 THEN 0 ELSE tally(i - 1) + 1]
<1>1. n \in Nat /\ tally(0) = 0 /\ tally(n) = Len(left) /\ \A i \in 0..n : tally(i) \in Nat
  <2>1. n \in Nat
    OBVIOUS
  <2> QED BY <2>1, TallyFacts
<1>2. \A i \in 1..n : /\ i \in hits => tally(i) = tally(i - 1) + 1
                      /\ i \notin hits => tally(i) = tally(i - 1)
  BY TallyFacts
<1>3. \A i \in 0..n : \A j \in i..n : tally(i) <= tally(j)
  BY TallyGrows
<1>4. \A i \in 1..n : i \in hits => tally(i) \in 1..Len(left) /\ left[tally(i)] = items[i]
  BY KeptElements
<1>5. \A k \in 1..Len(left) : \E i \in 1..n : i \in hits /\ tally(i) = k
  BY KeptOnto
<1> HIDE DEF tally, left
<1>6. \A i \in 1..(n + 1) : i \in Dom(items) /\ i - 1 \in 0..n /\ f[i] = tally(i - 1) + 1
  BY <1>1 DEF Dom
<1>7. \A i \in 0..n : tally(i) \in 0..Len(left)
  <2>1. \A i \in 0..n : n \in i..n
    BY <1>1
  <2> QED BY <1>1, <1>3, <2>1
<1>8. Len(left) \in Nat
  BY <1>1
<1>9. f \in [Dom(items) -> Dom(left)] /\ f[0] = 0
  <2>1. \A i \in Dom(items) : i = 0 \/ i - 1 \in 0..n
    BY <1>1 DEF Dom
  <2>2. 0 \in Dom(left) /\ 0 \in Dom(items) /\ \A k \in 0..Len(left) : k + 1 \in Dom(left)
    BY <1>1, <1>8 DEF Dom
  <2> QED BY <1>7, <2>1, <2>2
<1>10. f[1] = 1 /\ f[n + 1] = Len(left) + 1
  <2>1. 1 \in 1..(n + 1) /\ n + 1 \in 1..(n + 1) /\ 1 - 1 = 0 /\ (n + 1) - 1 = n
    BY <1>1
  <2> HIDE DEF f, n
  <2> QED BY <1>1, <1>6, <2>1
<1> HIDE DEF f
<1>11. ASSUME NEW i \in 1..n
       PROVE  /\ i \in hits => f[i] = tally(i) /\ f[i] \in 1..Len(left) /\ left[f[i]] = items[i] /\ f[i + 1] = f[i] + 1
              /\ i \notin hits => f[i + 1] = f[i]
  <2>1. i \in 1..(n + 1) /\ i + 1 \in 1..(n + 1) /\ (i + 1) - 1 = i /\ i - 1 \in 0..n /\ i \in 0..n
    BY <1>1
  <2>2. f[i] = tally(i - 1) + 1 /\ f[i + 1] = tally(i) + 1
    <3> HIDE DEF n
    <3> QED BY <1>6, <2>1
  <2> QED BY <1>2, <1>4, <2>1, <2>2
<1>12. \A j \in 1..Len(left) : \E i \in 1..n : i \in hits /\ f[i] = j
  BY <1>5, <1>11
<1>13. ASSUME NEW i \in 1..n, NEW j \in 1..n, i \in hits, i < j PROVE f[i] < f[j]
  <2>1. i \in 0..n /\ j - 1 \in i..n /\ j - 1 \in 0..n /\ j \in 1..(n + 1)
    BY <1>1, <1>13
  <2>2. f[i] = tally(i) /\ f[j] = tally(j - 1) + 1 /\ tally(i) <= tally(j - 1)
    BY <1>3, <1>6, <1>11, <1>13, <2>1
  <2> QED BY <1>1, <2>1, <2>2
<1> QED BY <1>9, <1>10, <1>11, <1>12, <1>13 DEF Moved, left

LEMMA OwnRange == ASSUME NEW S, NEW s \in Seq(S) PROVE s \in Seq(Range(s)) /\ Range(s) \subseteq S
<1>1. Len(s) \in Nat /\ DOMAIN s = 1..Len(s) /\ s = [i \in 1..Len(s) |-> s[i]] /\ \A i \in 1..Len(s) : s[i] \in S
  OBVIOUS
<1>2. \A i \in 1..Len(s) : s[i] \in Range(s)
  BY <1>1 DEF Range
<1>3. Range(s) \subseteq S
  BY <1>1 DEF Range
<1> QED BY <1>1, <1>2, <1>3, SeqDef

\* What is dropped, as far as other items go.
Drops(items, hits) == AreLifted(items) /\ \A i \in 1..Len(items) : i \notin hits => Passes(items, i)

LEMMA DroppedIsLifted ==
    ASSUME NEW items, NEW hits, Drops(items, hits), NEW f, Moved(items, hits, f)
    PROVE  /\ AreLifted(Kept(items, hits))
           /\ \A label : LabelAt(Kept(items, hits), label) = f[LabelAt(items, label)]
<1> DEFINE left == Kept(items, hits)
           n == Len(items)
<1>1. /\ n \in Nat /\ items \in Seq(Range(items)) /\ LabelsOnce(items) /\ DOMAIN items = 1..n
      /\ \A i \in 1..n : items[i] \in Range(items)
      /\ \A item \in Range(items) : {"k", "op", "label", "targets"} \subseteq DOMAIN item
  BY LiftedItems DEF Drops, AreLifted
<1>2. left \in Seq(Range(items)) /\ Len(left) \in Nat /\ DOMAIN left = 1..Len(left)
  BY <1>1, KeptIsList, LenProperties
<1>3. left \in Seq(Range(left)) /\ Range(left) \subseteq Range(items)
  BY <1>2, OwnRange
<1>4. /\ f[0] = 0
      /\ \A i \in 1..n : i \in hits => f[i] \in 1..Len(left) /\ left[f[i]] = items[i]
      /\ \A j \in 1..Len(left) : \E i \in 1..n : i \in hits /\ f[i] = j
  BY DEF Moved
<1> HIDE DEF left, n
<1>5. LabelsOnce(left)
  <2> SUFFICES ASSUME NEW j \in 1..Len(left), NEW k \in 1..Len(left),
                      IsLabel(left[j]), IsLabel(left[k]), left[j].label = left[k].label
               PROVE  j = k
    BY <1>2 DEF LabelsOnce
  <2>1. PICK a \in 1..n : a \in hits /\ f[a] = j
    BY <1>4
  <2>2. PICK b \in 1..n : b \in hits /\ f[b] = k
    BY <1>4
  <2>3. left[j] = items[a] /\ left[k] = items[b]
    BY <1>4, <2>1, <2>2
  <2>4. IsLabel(items[a]) /\ IsLabel(items[b]) /\ items[a].label = items[b].label
    BY <2>3
  <2>5. a = b
    BY <1>1, <2>4 DEF LabelsOnce
  <2> QED BY <2>1, <2>2, <2>5
<1>6. AreLifted(left)
  BY <1>1, <1>3, <1>5 DEF AreLifted
<1>7. ASSUME NEW label PROVE LabelAt(left, label) = f[LabelAt(items, label)]
  <2>1. CASE LabelAt(items, label) = 0
    <3> SUFFICES ASSUME LabelAt(left, label) # 0 PROVE FALSE
      BY <1>4, <2>1
    <3> DEFINE j == LabelAt(left, label)
    <3>1. j \in 1..Len(left) /\ IsLabel(left[j]) /\ left[j].label = label
      BY <1>2, <1>6, LabelPlaces
    <3> HIDE DEF j
    <3>2. PICK i \in 1..n : i \in hits /\ f[i] = j
      BY <1>4, <3>1
    <3>3. IsLabel(items[i]) /\ items[i].label = label
      BY <1>4, <3>1, <3>2
    <3>4. LabelAt(items, items[i].label) = i
      BY <3>3, LabelPlaces DEF Drops, n
    <3> QED BY <1>1, <2>1, <3>3, <3>4
  <2>2. CASE LabelAt(items, label) # 0
    <3> DEFINE i == LabelAt(items, label)
    <3>1. i \in 1..n /\ IsLabel(items[i]) /\ items[i].label = label
      BY <1>1, <2>2, LabelPlaces DEF Drops, n
    <3> HIDE DEF i
    <3>2. i \in hits
      BY <3>1 DEF Drops, Passes, n
    <3>3. f[i] \in 1..Len(left) /\ left[f[i]] = items[i]
      BY <1>4, <3>1, <3>2
    <3>4. LabelAt(left, left[f[i]].label) = f[i]
      BY <1>6, <3>1, <3>3, LabelPlaces
    <3> QED BY <3>1, <3>3, <3>4 DEF i
  <2> QED BY <2>1, <2>2
<1> QED BY <1>6, <1>7 DEF left

LEMMA DroppingTakes ==
    ASSUME NEW items, NEW hits, Drops(items, hits), NEW f, Moved(items, hits, f)
    PROVE  Takes(items, Kept(items, hits), f)
<1> DEFINE left == Kept(items, hits)
           n == Len(items)
<1>1. n \in Nat /\ DOMAIN items = 1..n /\ Len(left) \in Nat /\ DOMAIN left = 1..Len(left)
  BY DroppedIsLifted, LiftedItems DEF Drops
<1>2. /\ f \in [Dom(items) -> Dom(left)] /\ f[0] = 0 /\ f[1] = 1
      /\ \A i \in 1..n : i \in hits => f[i] \in 1..Len(left) /\ left[f[i]] = items[i] /\ f[i + 1] = f[i] + 1
      /\ \A j \in 1..Len(left) : \E i \in 1..n : i \in hits /\ f[i] = j
      /\ \A i, j \in 1..n : i \in hits /\ i < j => f[i] < f[j]
  BY DEF Moved
<1>3. \A label : LabelAt(left, label) = f[LabelAt(items, label)]
  BY DroppedIsLifted
<1>4. \A i \in 1..n : i \in Real(items) \/ IsLabel(items[i]) => i \in hits
  BY DEF Drops, Passes
<1>41. \A label : LabelAt(items, label) \in 0..n /\ (LabelAt(items, label) # 0 => IsLabel(items[LabelAt(items, label)]))
  BY LabelPlaces DEF Drops
<1> HIDE DEF left, n
<1>5. ASSUME NEW i \in Real(items)
      PROVE  f[i] \in Real(left) /\ left[f[i]] = items[i] /\ f[i + 1] = f[i] + 1
  <2>1. i \in 1..n /\ i \in hits
    BY <1>1, <1>4 DEF Real
  <2> QED BY <1>1, <1>2, <2>1 DEF Real
<1>6. ASSUME NEW j \in Real(left) PROVE \E i \in Real(items) : f[i] = j
  <2>1. PICK i \in 1..n : i \in hits /\ f[i] = j
    BY <1>1, <1>2 DEF Real
  <2>2. left[f[i]] = items[i]
    BY <1>2, <2>1
  <2>3. i \in Real(items)
    BY <1>1, <2>1, <2>2 DEF Real
  <2> QED BY <2>1, <2>3
<1>7. ASSUME NEW i \in Real(items), NEW label
      PROVE  /\ LabelAt(items, label) < i <=> f[LabelAt(items, label)] < f[i]
             /\ i < LabelAt(items, label) <=> f[i] < f[LabelAt(items, label)]
  <2> DEFINE l == LabelAt(items, label)
  <2>1. i \in 1..n /\ i \in hits
    BY <1>1, <1>4 DEF Real
  <2>2. f[i] \in 1..Len(left)
    BY <1>2, <2>1
  <2>3. CASE l = 0
    BY <1>1, <1>2, <2>1, <2>2, <2>3
  <2>4. CASE l # 0
    <3>1. l \in 1..n /\ l \in hits
      BY <1>1, <1>4, <1>41, <2>4
    <3> HIDE DEF l
    <3>2. f[l] \in 1..Len(left)
      BY <1>2, <3>1
    <3>3. (i < l => f[i] < f[l]) /\ (l < i => f[l] < f[i])
      BY <1>2, <2>1, <3>1
    <3>4. i < l \/ l < i \/ i = l
      BY <1>1, <2>1, <3>1
    <3>5. (l < i <=> f[l] < f[i]) /\ (i < l <=> f[i] < f[l])
      BY <1>1, <2>1, <2>2, <3>1, <3>2, <3>3, <3>4
    <3> QED BY <3>5 DEF l
  <2> QED BY <2>3, <2>4
<1> QED BY <1>2, <1>3, <1>5, <1>6, <1>7 DEF Takes, left

LEMMA Slide ==
    ASSUME NEW a \in Nat, NEW e \in Nat, a <= e, NEW T, e \in T, \A y \in a..(e - 1) : y + 1 \in T => y \in T
    PROVE  a \in T
<1> DEFINE N == {d \in 0..(e - a) : e - d \in T}
<1>1. e - a \in Nat /\ e - a \in 0..(e - a) /\ e - (e - a) = a /\ e - 0 = e
  OBVIOUS
<1>2. 0 \in N
  BY <1>1
<1>3. ASSUME NEW d \in 1..(e - a), d - 1 \in N PROVE d \in N
  <2>1. e - d \in a..(e - 1) /\ (e - d) + 1 = e - (d - 1) /\ d \in 0..(e - a)
    OBVIOUS
  <2> QED BY <1>3, <2>1
<1> HIDE DEF N
<1>4. 0..(e - a) \subseteq N
  BY <1>1, <1>2, <1>3, UpTo
<1>5. e - a \in N
  BY <1>1, <1>4
<1> QED BY <1>1, <1>5 DEF N

LEMMA Climb ==
    ASSUME NEW a \in Nat, NEW e \in Nat, a <= e, NEW T, a \in T, \A y \in a..(e - 1) : y \in T => y + 1 \in T
    PROVE  e \in T
<1> DEFINE N == {d \in 0..(e - a) : a + d \in T}
<1>1. e - a \in Nat /\ e - a \in 0..(e - a) /\ a + (e - a) = e /\ a + 0 = a
  OBVIOUS
<1>2. 0 \in N
  BY <1>1
<1>3. ASSUME NEW d \in 1..(e - a), d - 1 \in N PROVE d \in N
  <2>1. a + (d - 1) \in a..(e - 1) /\ (a + (d - 1)) + 1 = a + d /\ d \in 0..(e - a)
    OBVIOUS
  <2> QED BY <1>3, <2>1
<1> HIDE DEF N
<1>4. 0..(e - a) \subseteq N
  BY <1>1, <1>2, <1>3, UpTo
<1>5. e - a \in N
  BY <1>1, <1>4
<1> QED BY <1>1, <1>5 DEF N

\* What is kept, and the two ends, hop as before.
LEMMA KeptHops ==
    ASSUME NEW items, NEW hits, Drops(items, hits), NEW f, Moved(items, hits, f), NEW i \in Dom(items)
    PROVE  \/ Hops(Kept(items, hits))[f[i]] = f[Hops(items)[i]]
           \/ i \in 1..Len(items) /\ i \notin hits
<1> DEFINE left == Kept(items, hits)
           n == Len(items)
<1>1. /\ AreLifted(items) /\ AreLifted(left)
      /\ \A label : LabelAt(left, label) = f[LabelAt(items, label)]
  BY DroppedIsLifted DEF Drops
<1>2. n \in Nat /\ Len(left) \in Nat /\ DOMAIN items = 1..n /\ DOMAIN left = 1..Len(left)
  BY <1>1, LiftedItems
<1>3. /\ f[0] = 0 /\ f[n + 1] = Len(left) + 1
      /\ \A x \in 1..n : x \in hits => f[x] \in 1..Len(left) /\ left[f[x]] = items[x] /\ f[x + 1] = f[x] + 1
  BY DEF Moved
<1> HIDE DEF left
<1>4. CASE i = 0
  BY <1>1, <1>3, <1>4, HopsAre DEF left
<1>5. CASE i = n + 1
  BY <1>1, <1>3, <1>5, HopsAre DEF left
<1>6. CASE i \in 1..n /\ i \in hits
  <2>1. f[i] \in 1..Len(left) /\ left[f[i]] = items[i] /\ f[i + 1] = f[i] + 1
    BY <1>3, <1>6
  <2>2. CASE IsLabel(items[i]) \/ IsNop(items[i])
    <3>1. Hops(items)[i] = i + 1 /\ Hops(left)[f[i]] = f[i] + 1
      BY <1>1, <1>6, <2>1, <2>2, HopsAre
    <3> QED BY <2>1, <3>1 DEF left
  <2>3. CASE i \in Gotos(items)
    <3>1. f[i] \in Gotos(left)
      BY <1>2, <2>1, <2>3 DEF Gotos
    <3>2. Hops(items)[i] = LabelAt(items, items[i].targets[1])
      BY <1>1, <1>6, <2>3, HopsAre
    <3>3. Hops(left)[f[i]] = LabelAt(left, left[f[i]].targets[1])
      BY <1>1, <2>1, <3>1, HopsAre
    <3> QED BY <1>1, <2>1, <3>2, <3>3 DEF left
  <2>4. CASE i \in Real(items)
    <3>1. f[i] \in Real(left)
      BY <1>2, <2>1, <2>4 DEF Real
    <3>2. Hops(items)[i] = i /\ Hops(left)[f[i]] = f[i]
      BY <1>1, <1>6, <2>1, <2>4, <3>1, HopsAre
    <3> QED BY <3>2 DEF left
  <2> QED BY <1>1, <1>6, <2>2, <2>3, <2>4, HopsAre
<1> QED BY <1>2, <1>4, <1>5, <1>6 DEF Dom

LEMMA DroppedRuns ==
    ASSUME NEW items, NEW hits, Drops(items, hits), NEW x \in 1..Len(items), x \notin hits
    PROVE  /\ x + 1 \in Dom(items) /\ Hops(items)[x] \in Dom(items) /\ x + 1 <= Hops(items)[x]
           /\ \A y \in (x + 1)..(Hops(items)[x] - 1) :
                y \in 1..Len(items) /\ IsLabel(items[y]) /\ y \in hits /\ Hops(items)[y] = y + 1
           /\ \A p \in Dom(items) : Hops(items)[p] = p /\ Leads(Hops(items), x + 1, p) => Leads(Hops(items), x, p)
<1> DEFINE n == Len(items)
           h == Hops(items)
<1>1. AreLifted(items) /\ Passes(items, x) /\ n \in Nat /\ h \in [Dom(items) -> Dom(items)]
  BY LiftedItems, HopsAre DEF Drops
<1>2. h[x] \in (x + 1)..(n + 1) /\ \A y \in (x + 1)..(h[x] - 1) : IsLabel(items[y])
  BY <1>1 DEF Passes
<1> HIDE DEF h
<1>3. ASSUME NEW y \in (x + 1)..(h[x] - 1)
      PROVE  y \in 1..n /\ IsLabel(items[y]) /\ y \in hits /\ h[y] = y + 1
  <2>1. y \in 1..n /\ IsLabel(items[y])
    BY <1>1, <1>2
  <2>2. y \in hits
    BY <2>1 DEF Drops, Passes
  <2> QED BY <1>1, <2>1, <2>2, HopsAre DEF h
<1>4. x \in Dom(items) /\ x + 1 \in Dom(items) /\ h[x] \in Dom(items)
  BY <1>1, <1>2 DEF Dom
<1>5. ASSUME NEW p \in Dom(items), h[p] = p, Leads(h, x + 1, p) PROVE Leads(h, x, p)
  <2> DEFINE T == {y \in Dom(items) : Leads(h, y, p)}
  <2>1. x + 1 \in T
    BY <1>4, <1>5
  <2>2. ASSUME NEW y \in (x + 1)..(h[x] - 1), y \in T PROVE y + 1 \in T
    <3>1. h[y] = y + 1 /\ y \in 1..n /\ y + 1 # y /\ y \in Dom(items)
      BY <1>3, <2>2
    <3>2. y = p \/ Leads(h, h[y], p)
      BY <1>1, <2>2, <3>1, LeadsFacts
    <3>3. Leads(h, y + 1, p)
      BY <1>5, <3>1, <3>2
    <3>4. y + 1 \in Dom(items)
      BY <1>1, <3>1
    <3> QED BY <3>3, <3>4
  <2>3. x + 1 \in Nat /\ h[x] \in Nat /\ x + 1 <= h[x]
    BY <1>1, <1>2
  <2> HIDE DEF T
  <2>4. h[x] \in T
    BY <2>1, <2>2, <2>3, Climb
  <2>5. Leads(h, h[x], p)
    BY <2>4 DEF T
  <2> QED BY <1>1, <1>4, <2>5, LeadsFacts
<1> QED BY <1>1, <1>2, <1>3, <1>4, <1>5 DEF h

LEMMA DropsKeepRuns ==
    ASSUME NEW items, NEW hits, Drops(items, hits), NEW f, Moved(items, hits, f)
    PROVE  KeepsRuns(items, Kept(items, hits), f)
<1> DEFINE left == Kept(items, hits)
           n == Len(items)
           h == Hops(items)
           g == Hops(left)
           Gone(x) == x \in 1..n /\ x \notin hits
<1>1. AreLifted(items) /\ AreLifted(left)
  BY DroppedIsLifted DEF Drops
<1>2. n \in Nat /\ h \in [Dom(items) -> Dom(items)] /\ g \in [Dom(left) -> Dom(left)]
  BY <1>1, LiftedItems, HopsAre
<1>3. f \in [Dom(items) -> Dom(left)] /\ \A x \in 1..n : x \notin hits => f[x + 1] = f[x]
  BY DEF Moved
<1>4. \A x \in Dom(items) : g[f[x]] = f[h[x]] \/ Gone(x)
  BY KeptHops
<1>5. \A x \in Dom(items) : Gone(x) =>
        /\ x + 1 \in Dom(items) /\ h[x] \in Dom(items) /\ x + 1 <= h[x] /\ f[x + 1] = f[x]
        /\ \A y \in (x + 1)..(h[x] - 1) : y \in Dom(items) /\ ~Gone(y) /\ h[y] = y + 1
        /\ \A p \in Dom(items) : h[p] = p /\ Leads(h, x + 1, p) => Leads(h, x, p)
  <2>1. \A y \in 1..n : y \in Dom(items)
    BY <1>2 DEF Dom
  <2> QED BY <1>3, <2>1, DroppedRuns
<1>6. \A x \in Dom(items) : h[x] = x => ~Gone(x)
  <2>1. \A x \in Dom(items) : x \in Nat /\ (x + 1 <= h[x] => h[x] # x)
    BY <1>2 DEF Dom
  <2> QED BY <1>5, <2>1
<1>61. \A j \in Dom(left) : \A x \in Dom(items) : ~Gone(x) /\ f[x] = j /\ g[j] = j => h[x] = x
  <2> SUFFICES ASSUME NEW j \in Dom(left), NEW x \in Dom(items), ~Gone(x), f[x] = j, g[j] = j PROVE h[x] = x
    OBVIOUS
  <2>1. CASE x = 0 \/ x = n + 1
    BY <1>1, <2>1, HopsAre
  <2>2. CASE x \in 1..n
    <3>1. j \in 1..Len(left) /\ left[j] = items[x]
      BY <2>2 DEF Moved
    <3>2. j \in Real(left)
      BY <1>1, <3>1, HopsAre
    <3>3. x \in Real(items)
      BY <1>1, <2>2, <3>1, <3>2, LiftedItems DEF Real
    <3> QED BY <1>1, <2>2, <3>3, HopsAre
  <2> QED BY <1>2, <2>1, <2>2 DEF Dom
<1> HIDE DEF h, g, n, left, Gone
<1>7. ASSUME NEW i \in Dom(items), NEW p \in Dom(items), h[p] = p, Leads(h, i, p)
      PROVE  g[f[p]] = f[p] /\ Leads(g, f[i], f[p])
  <2>1. g[f[p]] = f[p]
    BY <1>4, <1>6, <1>7
  <2>2. f[p] \in Dom(left)
    BY <1>3
  <2> DEFINE T == {x \in Dom(items) : Leads(g, f[x], f[p])}
  <2>3. p \in T
    BY <1>2, <2>2, LeadsFacts
  <2>4. ASSUME NEW x \in Dom(items), ~Gone(x), h[x] \in T PROVE x \in T
    <3>1. g[f[x]] = f[h[x]] /\ f[x] \in Dom(left)
      BY <1>3, <1>4, <2>4
    <3> QED BY <1>2, <2>2, <2>4, <3>1, LeadsFacts
  <2>5. ASSUME NEW x \in Dom(items), Gone(x), h[x] \in T PROVE x \in T
    <3>1. x + 1 \in Nat /\ h[x] \in Nat /\ x + 1 <= h[x]
      BY <1>2, <1>5, <2>5 DEF Dom
    <3>2. \A y \in (x + 1)..(h[x] - 1) : y + 1 \in T => y \in T
      BY <1>5, <2>4, <2>5
    <3> HIDE DEF T
    <3>3. x + 1 \in T
      BY <2>5, <3>1, <3>2, Slide
    <3> QED BY <1>5, <2>5, <3>3 DEF T
  <2>6. T \in SUBSET DOMAIN h /\ \A x \in DOMAIN h : h[x] \in T => x \in T
    BY <1>2, <2>4, <2>5
  <2> HIDE DEF T
  <2>7. i \in T
    BY <1>7, <2>3, <2>6 DEF Leads
  <2> QED BY <2>1, <2>7 DEF T
<1> DEFINE Rests(x) == \E p \in Dom(items) : h[p] = p /\ Leads(h, x, p)
<1>8. ASSUME NEW j \in Dom(left), \A x \in Dom(items) : ~Gone(x) /\ f[x] = j => Rests(x),
             NEW i \in Dom(items), f[i] = j
      PROVE  Rests(i)
  <2> DEFINE T == {x \in Dom(items) : f[x] = j => Rests(x)}
  <2>1. n + 1 \in T /\ n + 1 \in Nat /\ i \in Nat /\ i <= n + 1
    <3>1. n + 1 \in Dom(items) /\ ~Gone(n + 1) /\ n + 1 \in Nat /\ i \in Nat /\ i <= n + 1
      BY <1>2 DEF Dom, Gone, n
    <3> QED BY <1>8, <3>1
  <2>2. ASSUME NEW y \in i..((n + 1) - 1), y + 1 \in T PROVE y \in T
    <3>1. y \in Dom(items)
      BY <1>2, <2>1 DEF Dom, n
    <3>2. CASE ~Gone(y)
      BY <1>8, <3>1, <3>2
    <3>3. CASE Gone(y)
      BY <1>5, <2>2, <3>1, <3>3
    <3> QED BY <3>2, <3>3
  <2> HIDE DEF T, Rests
  <2>3. i \in T
    BY <2>1, <2>2, Slide
  <2> QED BY <1>8, <2>3 DEF T
<1>9. ASSUME NEW i \in Dom(items), NEW q \in Dom(left), g[q] = q, Leads(g, f[i], q) PROVE Rests(i)
  <2> DEFINE T == {j \in Dom(left) : \A x \in Dom(items) : f[x] = j => Rests(x)}
  <2>1. q \in T
    <3>1. \A x \in Dom(items) : ~Gone(x) /\ f[x] = q => h[x] = x /\ Leads(h, x, x)
      BY <1>2, <1>61, <1>9, LeadsFacts
    <3>2. \A x \in Dom(items) : ~Gone(x) /\ f[x] = q => Rests(x)
      BY <3>1
    <3> HIDE DEF Rests
    <3> QED BY <1>8, <3>2
  <2>2. ASSUME NEW j \in Dom(left), g[j] \in T PROVE j \in T
    <3>1. ASSUME NEW x \in Dom(items), ~Gone(x), f[x] = j PROVE Rests(x)
      <4>1. f[h[x]] = g[j] /\ h[x] \in Dom(items)
        BY <1>2, <1>4, <3>1
      <4>2. PICK p \in Dom(items) : h[p] = p /\ Leads(h, h[x], p)
        BY <2>2, <4>1
      <4>3. Leads(h, x, p)
        BY <1>2, <4>2, LeadsFacts
      <4> QED BY <4>2, <4>3
    <3> HIDE DEF Rests
    <3> QED BY <1>8, <3>1
  <2> HIDE DEF Rests
  <2>3. T \in SUBSET DOMAIN g /\ \A x \in DOMAIN g : g[x] \in T => x \in T
    BY <1>2, <2>2
  <2> HIDE DEF T
  <2>4. f[i] \in T
    BY <1>9, <2>1, <2>3 DEF Leads
  <2> QED BY <2>4 DEF T
<1>10. ASSUME NEW i \in Dom(items)
       PROVE  /\ \A p : RestsAt(items, i, p) => RestsAt(left, f[i], f[p])
              /\ \A q : RestsAt(left, f[i], q) => \E p : RestsAt(items, i, p)
  BY <1>3, <1>7, <1>9 DEF RestsAt, h, g
<1> QED BY <1>10 DEF KeepsRuns, left

\* What drops out has no part in the trace.
LEMMA DroppingKeepsTrace ==
    ASSUME NEW items, NEW hits, Drops(items, hits), NEW code, code.items = items,
           NEW after, after.items = Kept(items, hits), after.handlers = code.handlers
    PROVE  AreLifted(after.items) /\ Trace(after) = Trace(code)
<1>1. items \in Seq(Range(items))
  BY DEF Drops, AreLifted
<1>2. PICK f : Moved(items, hits, f)
  BY <1>1, KeptMoves
<1>3. AreLifted(after.items) /\ AreLifted(code.items)
  BY <1>2, DroppedIsLifted DEF Drops
<1>4. Takes(code.items, after.items, f) /\ KeepsRuns(code.items, after.items, f)
  BY <1>2, DroppingTakes, DropsKeepRuns
<1>5. f[Len(code.items) + 1] = Len(after.items) + 1
  BY <1>2 DEF Moved
<1> QED BY <1>3, <1>4, <1>5, SameTrace

LEMMA KeptAll ==
    ASSUME NEW S, NEW s \in Seq(S), NEW hits, \A i \in 1..Len(s) : i \in hits
    PROVE  Kept(s, hits) = s
<1> DEFINE N == {i \in 0..Len(s) : Kept(Upto(s, i), hits) = Upto(s, i)}
<1>1. Len(s) \in Nat /\ Upto(s, Len(s)) = s /\ Upto(s, 0) = <<>> /\ Len(s) \in 0..Len(s)
  BY UptoFacts
<1>2. 0 \in N
  BY <1>1, KeptNothing
<1>3. ASSUME NEW i \in 1..Len(s), i - 1 \in N PROVE i \in N
  <2>1. Kept(Upto(s, i), hits) = Append(Kept(Upto(s, i - 1), hits), s[i]) /\ i \in 0..Len(s)
    BY KeptStep
  <2>2. Upto(s, i) = Append(Upto(s, i - 1), s[i])
    BY UptoFacts
  <2> QED BY <1>3, <2>1, <2>2
<1> HIDE DEF N
<1>4. 0..Len(s) \subseteq N
  BY <1>1, <1>2, <1>3, UpTo
<1>5. Len(s) \in N
  BY <1>1, <1>4
<1> QED BY <1>1, <1>5 DEF N

LEMMA KeptShrinks ==
    ASSUME NEW S, NEW s \in Seq(S), NEW hits, NEW x \in 1..Len(s), x \notin hits
    PROVE  Len(Kept(s, hits)) < Len(s)
<1> DEFINE n == Len(s)
           tally(i) == Tally(s, hits, i)
           N == {i \in 0..n : tally(i) <= i /\ (x <= i => tally(i) < i)}
<1>1. /\ n \in Nat /\ n \in 0..n /\ tally(0) = 0 /\ tally(n) = Len(Kept(s, hits))
      /\ \A i \in 0..n : tally(i) \in Nat
      /\ \A i \in 1..n : /\ i \in hits => tally(i) = tally(i - 1) + 1
                         /\ i \notin hits => tally(i) = tally(i - 1)
  <2>1. n \in Nat /\ n \in 0..n
    OBVIOUS
  <2> QED BY <2>1, TallyFacts
<1> HIDE DEF n, tally
<1>2. x \in 1..n
  BY DEF n
<1>3. 0 \in N
  BY <1>1, <1>2
<1>4. ASSUME NEW i \in 1..n, i - 1 \in N PROVE i \in N
  <2>1. i \in 0..n /\ i - 1 \in 0..n /\ i \in Nat /\ tally(i - 1) \in Nat /\ tally(i) \in Nat
    BY <1>1
  <2>2. tally(i - 1) <= i - 1 /\ (x <= i - 1 => tally(i - 1) < i - 1)
    BY <1>4
  <2>3. CASE i \in hits
    <3>1. tally(i) = tally(i - 1) + 1 /\ x # i
      BY <1>1, <2>3
    <3> QED BY <1>2, <2>1, <2>2, <3>1
  <2>4. CASE i \notin hits
    <3>1. tally(i) = tally(i - 1)
      BY <1>1, <2>4
    <3> QED BY <1>2, <2>1, <2>2, <3>1
  <2> QED BY <2>3, <2>4
<1> HIDE DEF N
<1>5. 0..n \subseteq N
  BY <1>1, <1>3, <1>4, UpTo
<1>6. n \in N
  BY <1>1, <1>5
<1>7. tally(n) < n
  BY <1>2, <1>6 DEF N
<1> QED BY <1>1, <1>7 DEF n

-----------------------------------------------------------------------------
(* The steps of the cleanup keep the trace. *)

LEMMA NopsDrop ==
    ASSUME NEW items, AreLifted(items)
    PROVE  Drops(items, {i \in DOMAIN items : ~IsNop(items[i])})
<1>1. Len(items) \in Nat /\ DOMAIN items = 1..Len(items)
  BY LiftedItems
<1>2. ASSUME NEW i \in 1..Len(items), IsNop(items[i]) PROVE Passes(items, i)
  <2>1. ~IsLabel(items[i]) /\ i \notin Real(items)
    BY <1>2 DEF IsNop, IsLabel, Real
  <2>2. Hops(items)[i] = i + 1
    BY <1>2, HopsAre
  <2> QED BY <1>1, <2>1, <2>2 DEF Passes
<1> QED BY <1>1, <1>2 DEF Drops

LEMMA NoopGotosDrop ==
    ASSUME NEW items, AreLifted(items)
    PROVE  Drops(items, DOMAIN items \ NoopGotos(items))
<1>1. Len(items) \in Nat /\ DOMAIN items = 1..Len(items)
  BY LiftedItems
<1>2. ASSUME NEW i \in NoopGotos(items) PROVE Passes(items, i)
  <2>1. /\ i \in Gotos(items) /\ i \in 1..Len(items)
        /\ targets_immediate_fallthrough(items, i, items[i].targets[1])
    BY <1>1 DEF NoopGotos, Gotos
  <2>2. ~IsLabel(items[i]) /\ i \notin Real(items)
    BY <2>1 DEF Gotos, is_unconditional_goto, IsLabel, Real
  <2>3. PICK j \in (i + 1)..(FirstInsn(items, i + 1) - 1) : items[j].label = items[i].targets[1]
    BY <2>1 DEF targets_immediate_fallthrough
  <2>4. i + 1 \in 1..(Len(items) + 1)
    BY <1>1, <2>1
  <2>5. /\ FirstInsn(items, i + 1) \in (i + 1)..(Len(items) + 1)
        /\ \A y \in (i + 1)..(FirstInsn(items, i + 1) - 1) : y \in 1..Len(items) /\ IsLabel(items[y])
    BY <1>1, <2>4, FirstInsnFacts
  <2>6. LabelAt(items, items[i].targets[1]) = j
    BY <2>3, <2>5, LabelPlaces
  <2>7. Hops(items)[i] = j
    BY <2>1, <2>6, HopsAre
  <2>8. j \in (i + 1)..(Len(items) + 1) /\ \A y \in (i + 1)..(j - 1) : y \in (i + 1)..(FirstInsn(items, i + 1) - 1)
    BY <1>1, <2>1, <2>3, <2>5
  <2> QED BY <2>1, <2>2, <2>5, <2>7, <2>8 DEF Passes
<1> QED BY <1>1, <1>2 DEF Drops

\* Hops that go further on the same way come to rest in the same place.
LEMMA Shortcut ==
    ASSUME NEW D, NEW h \in [D -> D], NEW g \in [D -> D],
           \A x \in D : g[x] = h[x] \/ Leads(h, h[x], g[x]),
           NEW p \in D, h[p] = p, g[p] = p, NEW i \in D
    PROVE  Leads(g, i, p) <=> Leads(h, i, p)
<1>1. \A x \in D : Leads(h, h[x], g[x])
  BY LeadsFacts
<1>2. ASSUME Leads(g, i, p) PROVE Leads(h, i, p)
  <2> DEFINE T == {x \in D : Leads(h, x, p)}
  <2>1. p \in T
    BY LeadsFacts
  <2>2. ASSUME NEW x \in D, g[x] \in T PROVE x \in T
    <3>1. h[x] \in D /\ g[x] \in D /\ Leads(h, h[x], g[x]) /\ Leads(h, g[x], p)
      BY <1>1, <2>2
    <3>2. Leads(h, h[x], p)
      BY <3>1, LeadsOn
    <3> QED BY <3>2, LeadsFacts
  <2>3. T \in SUBSET DOMAIN g /\ \A x \in DOMAIN g : g[x] \in T => x \in T
    BY <2>2
  <2> HIDE DEF T
  <2>4. i \in T
    BY <1>2, <2>1, <2>3 DEF Leads
  <2> QED BY <2>4 DEF T
<1>3. ASSUME Leads(h, i, p) PROVE Leads(g, i, p)
  <2> DEFINE T == {x \in D : \A y \in D : Leads(h, x, y) => Leads(g, y, p)}
  <2>1. p \in T
    <3>1. \A y \in D : Leads(h, p, y) => y = p
      <4> SUFFICES ASSUME NEW y \in D, Leads(h, p, y), y # p PROVE FALSE
        OBVIOUS
      <4> DEFINE U == {x \in D : x # p}
      <4>1. U \in SUBSET DOMAIN h /\ y \in U /\ p \notin U /\ \A x \in DOMAIN h : h[x] \in U => x \in U
        OBVIOUS
      <4> HIDE DEF U
      <4> QED BY <4>1 DEF Leads
    <3>2. Leads(g, p, p)
      BY LeadsFacts
    <3> QED BY <3>1, <3>2
  <2>2. ASSUME NEW x \in D, h[x] \in T PROVE x \in T
    <3>1. Leads(g, g[x], p)
      BY <1>1, <2>2
    <3>2. Leads(g, x, p)
      BY <3>1, LeadsFacts
    <3>3. \A y \in D : Leads(h, x, y) => x = y \/ Leads(h, h[x], y)
      BY LeadsFacts
    <3> QED BY <2>2, <3>2, <3>3
  <2>3. T \in SUBSET DOMAIN h /\ \A x \in DOMAIN h : h[x] \in T => x \in T
    BY <2>2
  <2> HIDE DEF T
  <2>4. i \in T
    BY <1>3, <2>1, <2>3 DEF Leads
  <2> QED BY <2>4, LeadsFacts DEF T
<1> QED BY <1>2, <1>3

Targets(items) == {items[i].targets[1] : i \in Gotos(items)}

\* From label to label, as the cleanup walks.
LEMMA OnwardsFacts ==
    ASSUME NEW items, AreLifted(items)
    PROVE  /\ Onwards(items) \in [Targets(items) -> Targets(items)]
           /\ \A x \in Targets(items) :
                /\ BeforeGoto(items, x) => Onwards(items)[x] = items[Follower(items, x)].targets[1]
                /\ ~BeforeGoto(items, x) => Onwards(items)[x] = x
<1> DEFINE L == Targets(items)
           on(x) == IF BeforeGoto(items, x) THEN items[Follower(items, x)].targets[1] ELSE x
<1>1. Onwards(items) = [x \in L |-> on(x)]
  BY DEF Onwards, Targets
<1>2. \A x \in L : BeforeGoto(items, x) => on(x) \in L
  BY DEF BeforeGoto, Targets
<1>3. \A x \in L : on(x) \in L
  BY <1>2
<1> HIDE DEF L
<1> QED BY <1>1, <1>3 DEF L

LEMMA OnwardsArrive ==
    ASSUME NEW items, AreLifted(items), NEW x \in Targets(items), NEW e \in Targets(items),
           Onwards(items)[e] = e, Leads(Onwards(items), x, e)
    PROVE  AfterHops(Onwards(items), x, Len(items)) = e
<1> DEFINE L == Targets(items)
           o == Onwards(items)
           M == {y \in L : o[y] # y}
           place == [y \in M |-> LabelAt(items, y)]
<1>1. Len(items) \in Nat /\ o \in [L -> L]
  BY LiftedItems, OnwardsFacts
<1>2. \A y \in M : BeforeGoto(items, y)
  BY OnwardsFacts
<1>3. \A y \in M : LabelAt(items, y) \in 1..Len(items) /\ items[LabelAt(items, y)].label = y
  <2>1. \A y \in M : LabelAt(items, y) # 0
    BY <1>2 DEF BeforeGoto
  <2> HIDE DEF M
  <2> QED BY <1>1, <2>1, LabelPlaces
<1> HIDE DEF M
<1>4. place \in [M -> 1..Len(items)] /\ \A y, z \in M : place[y] = place[z] => y = z
  BY <1>3
<1>5. place \in Injection(M, 1..Len(items))
  <2> HIDE DEF place
  <2>1. DOMAIN place = M
    BY <1>4
  <2>2. IsInjective(place)
    BY <1>4, <2>1 DEF IsInjective
  <2> QED BY <1>4, <2>2 DEF Injection
<1>6. IsFiniteSet(1..Len(items)) /\ Cardinality(1..Len(items)) <= Len(items)
  <2>1. Len(items) \in Nat
    BY <1>1
  <2> QED BY <2>1, FS_Interval
<1>7. IsFiniteSet(M) /\ Cardinality(M) <= Len(items)
  <2>1. IsFiniteSet(M) /\ Cardinality(M) <= Cardinality(1..Len(items))
    BY <1>5, <1>6, FS_Injection
  <2>2. Cardinality(M) \in Nat /\ Cardinality(1..Len(items)) \in Nat
    BY <1>6, <2>1, FS_CardinalityType
  <2> QED BY <1>1, <1>6, <2>1, <2>2
<1>8. \A y \in L : o[y] # y => y \in M
  BY DEF M
<1>9. o[e] = e /\ Leads(o, x, e) /\ x \in L /\ e \in L
  OBVIOUS
<1> HIDE DEF o, L
<1>10. AfterHops(o, x, Len(items)) = e
  BY <1>1, <1>7, <1>8, <1>9, HopsArrive
<1> QED BY <1>10 DEF o

\* The places of two labels are one way when the labels are.
LEMMA OnwardsIsOneWay ==
    ASSUME NEW items, AreLifted(items), NEW x \in Targets(items), NEW e \in Targets(items),
           Leads(Onwards(items), x, e)
    PROVE  Leads(Hops(items), LabelAt(items, x), LabelAt(items, e))
<1> DEFINE L == Targets(items)
           o == Onwards(items)
           h == Hops(items)
           n == Len(items)
           at(y) == LabelAt(items, y)
<1>1. n \in Nat /\ o \in [L -> L] /\ h \in [Dom(items) -> Dom(items)]
  BY LiftedItems, OnwardsFacts, HopsAre
<1>2. \A y : at(y) \in 0..n /\ at(y) \in Dom(items)
  BY <1>1, LabelPlaces DEF Dom
<1>3. ASSUME NEW y \in L, BeforeGoto(items, y) PROVE Leads(h, at(y), at(o[y]))
  <2> DEFINE to == Follower(items, y)
             p == at(o[y])
  <2>1. at(y) \in 1..n /\ IsLabel(items[at(y)]) /\ to = FirstInsn(items, at(y) + 1) /\ to \in Gotos(items)
    BY <1>1, <1>3, LabelPlaces DEF BeforeGoto, Follower
  <2>2. at(y) + 1 \in 1..(n + 1)
    BY <1>1, <2>1
  <2>3. to \in (at(y) + 1)..(n + 1) /\ \A z \in (at(y) + 1)..(to - 1) : z \in 1..n /\ IsLabel(items[z])
    BY <1>1, <2>1, <2>2, FirstInsnFacts
  <2>4. to \in 1..n
    BY <2>1, LiftedItems DEF Gotos
  <2>5. h[to] = p /\ p \in Dom(items) /\ to \in Dom(items)
    <3>1. h[to] = at(items[to].targets[1])
      BY <2>1, <2>4, HopsAre
    <3>2. o[y] = items[to].targets[1]
      BY <1>3, OnwardsFacts
    <3> QED BY <1>1, <1>2, <2>4, <3>1, <3>2 DEF Dom
  <2> HIDE DEF to, p, at, h
  <2> DEFINE T == {z \in Dom(items) : Leads(h, z, p)}
  <2>6. to \in T
    BY <1>1, <2>5, LeadsFacts
  <2>7. ASSUME NEW z \in at(y)..(to - 1), z + 1 \in T PROVE z \in T
    <3>1. z \in 1..n /\ IsLabel(items[z]) /\ z \in Dom(items)
      BY <1>1, <2>1, <2>3, <2>7 DEF Dom, n
    <3>2. h[z] = z + 1
      BY <3>1, HopsAre DEF h
    <3> QED BY <1>1, <2>5, <2>7, <3>1, <3>2, LeadsFacts
  <2>8. at(y) \in Nat /\ to \in Nat /\ at(y) <= to
    BY <2>1, <2>3, <2>4
  <2> HIDE DEF T
  <2>9. at(y) \in T
    BY <2>6, <2>7, <2>8, Slide
  <2> QED BY <2>9 DEF T, p
<1>4. \A y \in L : Leads(h, at(y), at(o[y]))
  <2> SUFFICES ASSUME NEW y \in L, ~BeforeGoto(items, y) PROVE Leads(h, at(y), at(o[y]))
    BY <1>3
  <2>1. o[y] = y
    BY OnwardsFacts
  <2>2. Leads(h, at(y), at(y))
    <3> HIDE DEF h, at
    <3> QED BY <1>1, <1>2, LeadsFacts
  <2> QED BY <2>1, <2>2
<1> HIDE DEF h, at
<1> DEFINE T == {y \in L : Leads(h, at(y), at(e))}
<1>5. e \in T
  BY <1>1, <1>2, LeadsFacts
<1>6. ASSUME NEW y \in L, o[y] \in T PROVE y \in T
  <2>1. Leads(h, at(y), at(o[y])) /\ Leads(h, at(o[y]), at(e))
    BY <1>4, <1>6
  <2> HIDE DEF o
  <2>2. Leads(h, at(y), at(e))
    BY <1>1, <1>2, <2>1, LeadsOn
  <2> QED BY <2>2
<1>7. T \in SUBSET DOMAIN o /\ \A y \in DOMAIN o : o[y] \in T => y \in T
  BY <1>1, <1>6
<1> HIDE DEF T
<1>8. x \in T
  <2>1. Leads(o, x, e)
    OBVIOUS
  <2> HIDE DEF o
  <2> QED BY <1>5, <1>7, <2>1 DEF Leads
<1> QED BY <1>8 DEF T, h, at

\* The items after the gotos have been redirected, and what is as it was.
LEMMA RedirectedItems ==
    ASSUME NEW items, AreLifted(items), NEW straight, straight = redirect_goto_chains(items)
    PROVE  /\ AreLifted(straight) /\ Len(straight) = Len(items)
           /\ \A i \in 1..Len(items) :
                /\ IsLabel(straight[i]) <=> IsLabel(items[i])
                /\ straight[i].label = items[i].label
                /\ i \notin Redirectable(items) => straight[i] = items[i]
                /\ i \in Redirectable(items) =>
                    straight[i].targets[1] = resolve_terminal_goto_target(items, items[i].targets[1])
           /\ Gotos(straight) = Gotos(items) /\ Real(straight) = Real(items)
           /\ \A i \in 1..Len(items) : IsNop(straight[i]) <=> IsNop(items[i])
<1> DEFINE n == Len(items)
           end(i) == <<resolve_terminal_goto_target(items, items[i].targets[1])>>
<1>1. n \in Nat /\ DOMAIN items = 1..n /\ LabelsOnce(items)
  BY LiftedItems
<1>2. straight = [i \in 1..n |-> IF i \in Redirectable(items) THEN [items[i] EXCEPT !.targets = end(i)] ELSE items[i]]
  BY <1>1 DEF redirect_goto_chains
<1>3. DOMAIN straight = 1..n /\ Len(straight) = n
  BY <1>1, <1>2
<1>4. \A i \in 1..n : {"k", "op", "label", "targets"} \subseteq DOMAIN items[i]
  BY LiftedItems
<1> HIDE DEF n
<1>5. ASSUME NEW i \in 1..n
      PROVE  /\ straight[i].k = items[i].k /\ straight[i].op = items[i].op /\ straight[i].label = items[i].label
             /\ {"k", "op", "label", "targets"} \subseteq DOMAIN straight[i]
             /\ i \notin Redirectable(items) => straight[i] = items[i]
             /\ i \in Redirectable(items) => straight[i].targets = end(i)
  <2>1. CASE i \notin Redirectable(items)
    BY <1>2, <1>4, <2>1
  <2>2. CASE i \in Redirectable(items)
    <3> DEFINE e == end(i)
    <3>1. straight[i] = [items[i] EXCEPT !.targets = e]
      BY <1>2, <2>2
    <3> HIDE DEF e
    <3>2. {"k", "op", "label", "targets"} \subseteq DOMAIN items[i]
      BY <1>4
    <3>3. DOMAIN [items[i] EXCEPT !.targets = e] = DOMAIN items[i]
      OBVIOUS
    <3>4. /\ straight[i].k = items[i].k /\ straight[i].op = items[i].op /\ straight[i].label = items[i].label
          /\ straight[i].targets = e
      BY <3>1, <3>2
    <3> QED BY <2>2, <3>1, <3>2, <3>3, <3>4 DEF e
  <2> QED BY <2>1, <2>2
<1>6. \A i \in 1..n : /\ IsLabel(straight[i]) <=> IsLabel(items[i])
                      /\ IsNop(straight[i]) <=> IsNop(items[i])
                      /\ is_unconditional_goto(straight[i]) <=> is_unconditional_goto(items[i])
  BY <1>5 DEF IsLabel, IsNop, is_unconditional_goto
<1>7. Gotos(straight) = Gotos(items) /\ Real(straight) = Real(items)
  BY <1>1, <1>3, <1>6 DEF Gotos, Real, n
<1>8. AreLifted(straight)
  <2>1. straight = [i \in 1..n |-> straight[i]]
    BY <1>2
  <2>2. \A i \in 1..n : straight[i] \in Range(straight)
    BY <1>3 DEF Range
  <2>3. straight \in Seq(Range(straight))
    BY <1>1, <2>1, <2>2, SeqDef DEF n
  <2>4. \A item \in Range(straight) : {"k", "op", "label", "targets"} \subseteq DOMAIN item
    BY <1>3, <1>5 DEF Range
  <2>5. LabelsOnce(straight)
    BY <1>1, <1>3, <1>5, <1>6 DEF LabelsOnce, n
  <2> QED BY <2>3, <2>4, <2>5 DEF AreLifted
<1>9. ASSUME NEW i \in 1..n, i \in Redirectable(items)
      PROVE  straight[i].targets[1] = resolve_terminal_goto_target(items, items[i].targets[1])
  BY <1>5, <1>9
<1> QED BY <1>3, <1>5, <1>6, <1>7, <1>8, <1>9 DEF n

LEMMA RedirectedPlaces ==
    ASSUME NEW items, AreLifted(items), NEW straight, straight = redirect_goto_chains(items)
    PROVE  /\ \A label : LabelAt(straight, label) = LabelAt(items, label)
           /\ \A label : Follower(straight, label) = Follower(items, label)
           /\ \A label : BeforeGoto(straight, label) <=> BeforeGoto(items, label)
<1>1. /\ AreLifted(straight) /\ Len(straight) = Len(items) /\ Gotos(straight) = Gotos(items)
      /\ \A i \in 1..Len(items) : /\ IsLabel(straight[i]) <=> IsLabel(items[i])
                                  /\ straight[i].label = items[i].label
  BY RedirectedItems
<1>2. Len(items) \in Nat
  BY LiftedItems
<1>3. ASSUME NEW label PROVE LabelAt(straight, label) = LabelAt(items, label)
  <2> DEFINE a == LabelAt(items, label)
             b == LabelAt(straight, label)
  <2>1. /\ a \in 0..Len(items) /\ (a # 0 => IsLabel(items[a]) /\ items[a].label = label)
        /\ b \in 0..Len(items) /\ (b # 0 => IsLabel(straight[b]) /\ straight[b].label = label)
    BY <1>1, LabelPlaces
  <2>2. /\ \A i \in 1..Len(items) : IsLabel(items[i]) => LabelAt(items, items[i].label) = i
        /\ \A i \in 1..Len(items) : IsLabel(straight[i]) => LabelAt(straight, straight[i].label) = i
    BY <1>1, LabelPlaces
  <2>3. a # 0 => b = a
    <3> SUFFICES ASSUME a # 0 PROVE b = a
      OBVIOUS
    <3>1. a \in 1..Len(items) /\ IsLabel(straight[a]) /\ straight[a].label = label
      BY <1>1, <1>2, <2>1
    <3> QED BY <2>2, <3>1
  <2>4. b # 0 => b = a
    <3> SUFFICES ASSUME b # 0 PROVE b = a
      OBVIOUS
    <3>1. b \in 1..Len(items) /\ IsLabel(items[b]) /\ items[b].label = label
      BY <1>1, <1>2, <2>1
    <3> QED BY <2>2, <3>1
  <2> QED BY <2>3, <2>4
<1>4. ASSUME NEW i \in 1..(Len(items) + 1) PROVE FirstInsn(straight, i) = FirstInsn(items, i)
  <2>1. \A j \in i..Len(items) : j \in 1..Len(items)
    BY <1>2
  <2>2. {j \in i..Len(items) : ~IsLabel(straight[j])} = {j \in i..Len(items) : ~IsLabel(items[j])}
    BY <1>1, <2>1
  <2> QED BY <1>1, <2>2 DEF FirstInsn
<1>5. ASSUME NEW label PROVE Follower(straight, label) = Follower(items, label)
  <2>1. LabelAt(items, label) + 1 \in 1..(Len(items) + 1)
    BY <1>2, LabelPlaces
  <2> QED BY <1>3, <1>4, <2>1 DEF Follower
<1>6. \A label : BeforeGoto(straight, label) <=> BeforeGoto(items, label)
  BY <1>1, <1>3, <1>5 DEF BeforeGoto
<1> QED BY <1>3, <1>5, <1>6

\* Where a redirected goto goes.
LEMMA RedirectsAre ==
    ASSUME NEW items, AreLifted(items), NEW i \in Redirectable(items)
    PROVE  /\ i \in Gotos(items) /\ i \in 1..Len(items)
           /\ items[i].targets[1] \in Targets(items)
           /\ resolve_terminal_goto_target(items, items[i].targets[1]) \in Targets(items)
           /\ Leads(Onwards(items), items[i].targets[1], resolve_terminal_goto_target(items, items[i].targets[1]))
           /\ LabelAt(items, resolve_terminal_goto_target(items, items[i].targets[1])) # 0
           /\ ~BeforeGoto(items, resolve_terminal_goto_target(items, items[i].targets[1]))
<1> DEFINE t == items[i].targets[1]
           e == AfterHops(Onwards(items), t, Len(items))
<1>1. i \in Gotos(items) /\ i \in 1..Len(items) /\ t \in Targets(items) /\ Len(items) \in Nat
  BY LiftedItems DEF Redirectable, Gotos, Targets
<1>2. e \in Targets(items) /\ Leads(Onwards(items), t, e)
  <2> HIDE DEF t
  <2> QED BY <1>1, OnwardsFacts, HopsLead
<1>3. resolve_terminal_goto_target(items, t) # NoLabel
  BY DEF Redirectable
<1>4. resolve_terminal_goto_target(items, t) = e /\ LabelAt(items, e) # 0 /\ ~BeforeGoto(items, e)
  BY <1>3 DEF resolve_terminal_goto_target
<1> QED BY <1>1, <1>2, <1>4

LEMMA RedirectHops ==
    ASSUME NEW items, AreLifted(items), NEW straight, straight = redirect_goto_chains(items)
    PROVE  /\ Hops(straight) \in [Dom(items) -> Dom(items)]
           /\ \A x \in Dom(items) :
                /\ Hops(straight)[x] = x <=> Hops(items)[x] = x
                /\ Hops(straight)[x] = Hops(items)[x] \/ Leads(Hops(items), Hops(items)[x], Hops(straight)[x])
<1> DEFINE n == Len(items)
           h == Hops(items)
           g == Hops(straight)
<1>1. n \in Nat /\ AreLifted(straight) /\ Len(straight) = n /\ Dom(straight) = Dom(items)
  BY LiftedItems, RedirectedItems DEF Dom
<1>2. /\ h \in [Dom(items) -> Dom(items)] /\ h[0] = 0 /\ h[n + 1] = n + 1
      /\ g \in [Dom(items) -> Dom(items)] /\ g[0] = 0 /\ g[n + 1] = n + 1
  BY <1>1, HopsAre
<1>3. ASSUME NEW x \in 1..n
      PROVE  /\ g[x] = x <=> h[x] = x
             /\ g[x] = h[x] \/ Leads(h, h[x], g[x])
  <2>1. /\ Gotos(straight) = Gotos(items) /\ Real(straight) = Real(items)
        /\ IsLabel(straight[x]) <=> IsLabel(items[x])
        /\ IsNop(straight[x]) <=> IsNop(items[x])
    BY RedirectedItems
  <2>2. g[x] = x <=> h[x] = x
    <3>1. x \in Real(straight) <=> g[x] = x
      BY <1>1, HopsAre
    <3>2. x \in Real(items) <=> h[x] = x
      BY HopsAre
    <3> QED BY <2>1, <3>1, <3>2
  <2>3. CASE IsLabel(items[x]) \/ IsNop(items[x])
    <3>1. h[x] = x + 1 /\ g[x] = x + 1
      BY <1>1, <2>1, <2>3, HopsAre
    <3> QED BY <2>2, <3>1
  <2>4. CASE x \in Gotos(items) /\ x \notin Redirectable(items)
    <3>1. straight[x] = items[x]
      BY <2>4, RedirectedItems
    <3>2. h[x] = LabelAt(items, items[x].targets[1])
      BY <2>4, HopsAre
    <3>3. g[x] = LabelAt(straight, straight[x].targets[1])
      BY <1>1, <2>1, <2>4, HopsAre
    <3>4. g[x] = h[x]
      BY <3>1, <3>2, <3>3, RedirectedPlaces
    <3> QED BY <2>2, <3>4
  <2>5. CASE x \in Redirectable(items)
    <3> DEFINE t == items[x].targets[1]
               e == resolve_terminal_goto_target(items, items[x].targets[1])
    <3>1. x \in Gotos(items) /\ t \in Targets(items) /\ e \in Targets(items) /\ Leads(Onwards(items), t, e)
      BY <2>5, RedirectsAre
    <3>2. straight[x].targets[1] = e
      BY <2>5, RedirectedItems
    <3> HIDE DEF t, e
    <3>3. h[x] = LabelAt(items, t)
      BY <3>1, HopsAre DEF t
    <3>4. g[x] = LabelAt(straight, e)
      <4>1. x \in Gotos(straight) /\ x \in 1..Len(straight)
        BY <1>1, <2>1, <3>1
      <4>2. g[x] = LabelAt(straight, straight[x].targets[1])
        BY <1>1, <4>1, HopsAre
      <4> QED BY <3>2, <4>2
    <3>5. g[x] = LabelAt(items, e)
      BY <3>4, RedirectedPlaces
    <3>6. Leads(h, LabelAt(items, t), LabelAt(items, e))
      BY <3>1, OnwardsIsOneWay
    <3> QED BY <2>2, <3>3, <3>5, <3>6
  <2>6. CASE x \in Real(items)
    <3>1. h[x] = x /\ g[x] = x
      BY <1>1, <2>1, <2>6, HopsAre
    <3> QED BY <3>1
  <2>7. IsLabel(items[x]) \/ IsNop(items[x]) \/ x \in Gotos(items) \/ x \in Real(items)
    BY HopsAre
  <2> QED BY <2>3, <2>4, <2>5, <2>6, <2>7
<1>4. \A x \in Dom(items) : x = 0 \/ x = n + 1 \/ x \in 1..n
  BY <1>1 DEF Dom
<1> QED BY <1>2, <1>3, <1>4

LEMMA RedirectKeepsTrace ==
    ASSUME NEW code, AreLifted(code.items), NEW after,
           after.items = redirect_goto_chains(code.items), after.handlers = code.handlers
    PROVE  AreLifted(after.items) /\ Trace(after) = Trace(code)
<1> DEFINE items == code.items
           straight == after.items
           h == Hops(items)
           g == Hops(straight)
           f == [x \in Dom(items) |-> x]
<1>1. /\ AreLifted(straight) /\ Len(straight) = Len(items) /\ Dom(straight) = Dom(items)
      /\ Real(straight) = Real(items)
  BY RedirectedItems DEF Dom
<1>2. Len(items) \in Nat /\ DOMAIN items = 1..Len(items)
  BY LiftedItems
<1>3. \A label : LabelAt(straight, label) = LabelAt(items, label) /\ LabelAt(items, label) \in Dom(items)
  <2>1. \A label : LabelAt(items, label) \in Dom(items)
    BY <1>2, LabelPlaces DEF Dom
  <2> QED BY <2>1, RedirectedPlaces
<1>4. \A i \in Real(items) : i \in Dom(items) /\ i + 1 \in Dom(items) /\ straight[i] = items[i]
  <2>1. \A i \in Real(items) : i \in 1..Len(items) /\ i \notin Gotos(items)
    BY <1>2 DEF Real, Gotos
  <2>2. \A i \in Real(items) : straight[i] = items[i]
    <3>1. \A i \in Redirectable(items) : i \in Gotos(items)
      BY DEF Redirectable
    <3> QED BY <2>1, <3>1, RedirectedItems
  <2> QED BY <1>2, <2>1, <2>2 DEF Dom
<1>5. 0 \in Dom(items) /\ 1 \in Dom(items) /\ Len(items) + 1 \in Dom(items)
  BY <1>2 DEF Dom
<1>6. Takes(items, straight, f)
  BY <1>1, <1>3, <1>4, <1>5 DEF Takes
<1>7. h \in [Dom(items) -> Dom(items)] /\ g \in [Dom(items) -> Dom(items)]
  BY <1>1, HopsAre
<1>8. \A x \in Dom(items) : (g[x] = x <=> h[x] = x) /\ (g[x] = h[x] \/ Leads(h, h[x], g[x]))
  BY RedirectHops
<1>9. ASSUME NEW i \in Dom(items), NEW p PROVE RestsAt(items, i, p) <=> RestsAt(straight, i, p)
  <2>1. RestsAt(items, i, p) <=> p \in Dom(items) /\ h[p] = p /\ Leads(h, i, p)
    BY DEF RestsAt
  <2>2. RestsAt(straight, i, p) <=> p \in Dom(items) /\ g[p] = p /\ Leads(g, i, p)
    BY <1>1 DEF RestsAt
  <2> HIDE DEF h, g
  <2>3. p \in Dom(items) /\ h[p] = p /\ g[p] = p => (Leads(g, i, p) <=> Leads(h, i, p))
    BY <1>7, <1>8, Shortcut
  <2> QED BY <1>8, <2>1, <2>2, <2>3
<1>10. KeepsRuns(items, straight, f)
  <2> SUFFICES ASSUME NEW i \in Dom(items)
               PROVE  /\ \A p : RestsAt(items, i, p) => RestsAt(straight, f[i], f[p])
                      /\ \A q : RestsAt(straight, f[i], q) => \E p : RestsAt(items, i, p)
    BY DEF KeepsRuns
  <2>1. f[i] = i /\ \A p : RestsAt(items, i, p) => f[p] = p
    BY DEF RestsAt
  <2> HIDE DEF f
  <2> QED BY <1>9, <2>1
<1>11. f[Len(items) + 1] = Len(straight) + 1
  BY <1>1, <1>5
<1> HIDE DEF f
<1> QED BY <1>1, <1>6, <1>10, <1>11, SameTrace

\* Redirecting leaves no goto that could be cut short.
LEMMA RedirectedWhole ==
    ASSUME NEW items, AreLifted(items), NEW straight, straight = redirect_goto_chains(items)
    PROVE  Redirectable(straight) = {}
<1> DEFINE o == Onwards(items)
           u == Onwards(straight)
           n == Len(items)
           L == Targets(items)
           end(x) == resolve_terminal_goto_target(items, x)
<1>1. AreLifted(straight) /\ Len(straight) = n /\ Gotos(straight) = Gotos(items) /\ n \in Nat /\ DOMAIN items = 1..n
  BY LiftedItems, RedirectedItems
<1>2. o \in [L -> L] /\ u \in [Targets(straight) -> Targets(straight)]
  BY <1>1, OnwardsFacts
<1>3. \A i \in Gotos(items) : i \in 1..n /\ items[i].targets[1] \in L
  BY <1>1 DEF Gotos, Targets
<1>4. ASSUME NEW i \in Gotos(items)
      PROVE  \/ i \notin Redirectable(items) /\ straight[i].targets[1] = items[i].targets[1]
             \/ /\ i \in Redirectable(items) /\ straight[i].targets[1] = end(items[i].targets[1])
                /\ straight[i].targets[1] \in L /\ Leads(o, items[i].targets[1], straight[i].targets[1])
                /\ ~BeforeGoto(items, straight[i].targets[1])
  <2>1. CASE i \notin Redirectable(items)
    BY <1>3, <2>1, RedirectedItems
  <2>2. CASE i \in Redirectable(items)
    BY <1>3, <2>2, RedirectedItems, RedirectsAre
  <2> QED BY <2>1, <2>2
<1>5. Targets(straight) \subseteq L
  BY <1>1, <1>3, <1>4 DEF Targets
<1>6. ASSUME NEW x \in Targets(straight) PROVE Leads(o, o[x], u[x])
  <2>1. x \in L /\ o[x] \in L
    BY <1>2, <1>5
  <2>2. CASE ~BeforeGoto(items, x)
    <3>1. o[x] = x /\ u[x] = x
      BY <1>1, <2>1, <2>2, OnwardsFacts, RedirectedPlaces
    <3> HIDE DEF o, u, L
    <3> QED BY <1>2, <2>1, <3>1, LeadsFacts
  <2>3. CASE BeforeGoto(items, x)
    <3> DEFINE i == Follower(items, x)
    <3>1. i \in Gotos(items)
      BY <2>3 DEF BeforeGoto
    <3>2. o[x] = items[i].targets[1]
      BY <2>1, <2>3, OnwardsFacts
    <3>3. u[x] = straight[i].targets[1]
      BY <1>1, <2>3, OnwardsFacts, RedirectedPlaces
    <3> HIDE DEF i, o, u, L, end
    <3>4. Leads(o, o[x], o[x])
      BY <1>2, <2>1, LeadsFacts
    <3> QED BY <1>4, <3>1, <3>2, <3>3, <3>4
  <2> QED BY <2>2, <2>3
<1> HIDE DEF o, u, n, L
<1>7. ASSUME NEW x \in Targets(straight), NEW e \in Targets(straight), Leads(u, x, e) PROVE Leads(o, x, e)
  <2> DEFINE T == {y \in Targets(straight) : Leads(o, y, e)}
  <2>1. e \in T
    BY <1>2, <1>5, LeadsFacts
  <2>2. ASSUME NEW y \in Targets(straight), u[y] \in T PROVE y \in T
    <3>1. y \in L /\ o[y] \in L /\ u[y] \in L /\ e \in L /\ Leads(o, o[y], u[y]) /\ Leads(o, u[y], e)
      BY <1>2, <1>5, <1>6, <2>2
    <3>2. Leads(o, o[y], e)
      BY <1>2, <3>1, LeadsOn
    <3> QED BY <1>2, <3>1, <3>2, LeadsFacts
  <2>3. T \in SUBSET DOMAIN u /\ \A y \in DOMAIN u : u[y] \in T => y \in T
    BY <1>2, <2>2
  <2> HIDE DEF T
  <2>4. x \in T
    BY <1>7, <2>1, <2>3 DEF Leads
  <2> QED BY <2>4 DEF T
<1>8. ASSUME NEW i \in Redirectable(straight) PROVE FALSE
  <2> DEFINE t == straight[i].targets[1]
             e == resolve_terminal_goto_target(straight, t)
  <2>1. /\ i \in Gotos(items) /\ t \in Targets(straight) /\ e \in Targets(straight) /\ Leads(u, t, e)
        /\ LabelAt(items, e) # 0 /\ ~BeforeGoto(items, e)
    BY <1>1, RedirectsAre, RedirectedPlaces DEF u
  <2>2. e # NoLabel /\ e # t
    BY DEF Redirectable
  <2> HIDE DEF e
  <2>3. Leads(o, t, e) /\ o[e] = e /\ t \in L /\ e \in L
    <3>1. t \in L /\ e \in L
      BY <1>5, <2>1
    <3> QED BY <1>7, <2>1, <3>1, OnwardsFacts DEF o, L
  <2>4. CASE i \in Redirectable(items)
    <3>1. ~BeforeGoto(items, t)
      BY <1>4, <2>1, <2>4
    <3>2. o[t] = t
      BY <2>3, <3>1, OnwardsFacts DEF o, L
    <3>3. Leads(o, t, t)
      BY <1>2, <2>3, LeadsFacts
    <3> HIDE DEF t
    <3>4. t = e
      BY <1>2, <2>3, <3>2, <3>3, LeadsToOne
    <3> QED BY <2>2, <3>4
  <2>5. CASE i \notin Redirectable(items)
    <3>1. t = items[i].targets[1]
      BY <1>4, <2>1, <2>5
    <3>2. AfterHops(Onwards(items), t, Len(items)) = e
      <4> HIDE DEF t
      <4> QED BY <2>3, OnwardsArrive DEF o, L
    <3>3. end(t) = e
      BY <2>1, <3>2 DEF resolve_terminal_goto_target
    <3>4. i \in Redirectable(items)
      BY <2>1, <2>2, <3>1, <3>3 DEF Redirectable
    <3> QED BY <2>5, <3>4
  <2> QED BY <2>4, <2>5
<1> QED BY <1>8

-----------------------------------------------------------------------------
(* The job. *)

\* A method as the cleanup has left it so far, and as it was.
MethodStands(now, was) ==
    /\ HasLifted(now)
    /\ now.code = NoCode \/ (was.code # NoCode /\ Trace(now.code) = Trace(was.code))

MethodsStand(now, was) == \A m \in DOMAIN now : MethodStands(now[m], was[m])

JarLifted ==
    /\ jar \in Seq(Range(jar))
    /\ \A class \in Range(jar) :
        /\ "methods" \in DOMAIN class /\ class.methods \in Seq(Range(class.methods))
        /\ \A m \in DOMAIN class.methods : HasLifted(class.methods[m])

WorkStands ==
    work # NoClass =>
        /\ Len(done) + 1 \in DOMAIN jar
        /\ "methods" \in DOMAIN work /\ work.methods \in Seq(Range(work.methods))
        /\ MethodsStand(work.methods, jar[Len(done) + 1].methods)

CleanupInvariant ==
    job.kind = "deobfuscate" =>
        /\ JarLifted /\ done \in Seq(Range(done)) /\ step \in Nat \ {0}
        /\ clean \in BOOLEAN
        /\ clean /\ work # NoClass => step <= Len(work.methods)
        /\ WorkStands

LEMMA IsSequence ==
    ASSUME NEW n \in Nat, NEW s, s = [i \in 1..n |-> s[i]]
    PROVE  s \in Seq(Range(s)) /\ Len(s) = n /\ DOMAIN s = 1..n
<1>1. DOMAIN s = 1..n
  OBVIOUS
<1>2. \A i \in 1..n : s[i] \in Range(s)
  BY <1>1 DEF Range
<1>3. s \in [1..n -> Range(s)]
  BY <1>2
<1>4. s \in Seq(Range(s))
  BY <1>3, SeqDef
<1>5. Len(s) = n
  BY <1>1, <1>4, LenProperties
<1> QED BY <1>1, <1>4, <1>5

LEMMA InitCleanup == Init => CleanupInvariant
<1> SUFFICES ASSUME Init PROVE CleanupInvariant
  OBVIOUS
<1>1. PICK r \in DOMAIN Requests : jar = Requests[r].jar
  BY DEF Init
<1>2. JarLifted
  BY <1>1, JarsAreLifted DEF JarLifted
<1>3. done = <<>> /\ work = NoClass /\ step = 1 /\ clean = FALSE
  BY DEF Init
<1>4. <<>> \in Seq(Range(<<>>))
  OBVIOUS
<1>5. WorkStands
  BY <1>3 DEF WorkStands
<1>6. clean \in BOOLEAN /\ ~clean /\ done \in Seq(Range(done))
  BY <1>3, <1>4
<1>7. step \in Nat \ {0}
  BY <1>3
<1> QED BY <1>2, <1>5, <1>6, <1>7 DEF CleanupInvariant

\* The items of a method may be replaced by these.
MayBecome(code, items) ==
    \A next : next.items = items /\ next.handlers = code.handlers =>
        AreLifted(next.items) /\ Trace(next) = Trace(code)

Rewritten(class, k, items) == [class EXCEPT !.methods[k].code.items = items]

\* What one method becomes while the others stay.
LEMMA OneMethodMore ==
    ASSUME NEW class, "methods" \in DOMAIN class, class.methods \in Seq(Range(class.methods)),
           NEW was, MethodsStand(class.methods, was),
           NEW k \in DOMAIN class.methods, class.methods[k].code # NoCode, NEW items,
           MayBecome(class.methods[k].code, items)
    PROVE  /\ "methods" \in DOMAIN Rewritten(class, k, items)
           /\ Rewritten(class, k, items).methods \in Seq(Range(Rewritten(class, k, items).methods))
           /\ Len(Rewritten(class, k, items).methods) = Len(class.methods)
           /\ Rewritten(class, k, items).methods[k].code.items = items
           /\ MethodsStand(Rewritten(class, k, items).methods, was)
<1> DEFINE next == Rewritten(class, k, items)
           methods == class.methods
           method == methods[k]
           code == [method.code EXCEPT !.items = items]
           changed == [method EXCEPT !.code = code]
<1>1. HasLifted(method) /\ method.code # NoCode
  BY DEF MethodsStand, MethodStands
<1>2. "code" \in DOMAIN method /\ {"items", "handlers"} \subseteq DOMAIN method.code
  BY <1>1 DEF HasLifted
<1>3. code.items = items /\ code.handlers = method.code.handlers /\ {"items", "handlers"} \subseteq DOMAIN code
  BY <1>2
<1>4. AreLifted(code.items) /\ Trace(code) = Trace(method.code)
  BY <1>3 DEF MayBecome
<1>5. next = [class EXCEPT !.methods = [methods EXCEPT ![k] = changed]]
  BY DEF Rewritten
<1> HIDE DEF code, next
<1>6. changed.code = code /\ "code" \in DOMAIN changed
  BY <1>2
<1>7. HasLifted(changed)
  BY <1>3, <1>4, <1>6 DEF HasLifted
<1>8. MethodStands(method, was[k])
  BY DEF MethodsStand
<1> HIDE DEF changed
<1>9. MethodStands(changed, was[k])
  BY <1>1, <1>4, <1>6, <1>7, <1>8 DEF MethodStands
<1>10. next.methods = [methods EXCEPT ![k] = changed] /\ "methods" \in DOMAIN next
  BY <1>5
<1>11. Len(methods) \in Nat /\ DOMAIN methods = 1..Len(methods)
  BY LenProperties
<1>12. /\ DOMAIN next.methods = 1..Len(methods)
       /\ next.methods[k] = changed
       /\ \A m \in 1..Len(methods) : m # k => next.methods[m] = methods[m]
       /\ next.methods = [m \in 1..Len(methods) |-> next.methods[m]]
  BY <1>10, <1>11
<1> HIDE DEF methods
<1>13. next.methods \in Seq(Range(next.methods)) /\ Len(next.methods) = Len(methods)
  <2> DEFINE t == next.methods
             n == Len(methods)
  <2>1. n \in Nat /\ t = [m \in 1..n |-> t[m]]
    BY <1>11, <1>12
  <2> HIDE DEF t, n
  <2>2. t \in Seq(Range(t)) /\ Len(t) = n
    BY <2>1, IsSequence
  <2> QED BY <2>2 DEF t, n
<1>14. MethodsStand(next.methods, was)
  BY <1>9, <1>11, <1>12 DEF methods, MethodsStand
<1>15. next.methods[k].code.items = items
  BY <1>3, <1>6, <1>12
<1> QED BY <1>10, <1>13, <1>14, <1>15 DEF methods, next

LEMMA WorkingMethod ==
    ASSUME CleanupInvariant, CleansMethod, HasItems
    PROVE  /\ JarLifted /\ done \in Seq(Range(done)) /\ step \in Nat \ {0} /\ step \in DOMAIN work.methods
           /\ Len(done) + 1 \in DOMAIN jar
           /\ "methods" \in DOMAIN work /\ work.methods \in Seq(Range(work.methods))
           /\ MethodsStand(work.methods, jar[Len(done) + 1].methods)
           /\ work.methods[step].code # NoCode
           /\ AreLifted(work.methods[step].code.items)
<1>1. job.kind = "deobfuscate" /\ work # NoClass /\ step <= Len(work.methods) /\ work.methods[step].code # NoCode
  BY DEF CleansMethod, Working, HasItems
<1>2. /\ JarLifted /\ done \in Seq(Range(done)) /\ step \in Nat \ {0} /\ Len(done) + 1 \in DOMAIN jar
      /\ "methods" \in DOMAIN work /\ work.methods \in Seq(Range(work.methods))
      /\ MethodsStand(work.methods, jar[Len(done) + 1].methods)
  BY <1>1 DEF CleanupInvariant, WorkStands
<1>3. Len(work.methods) \in Nat /\ DOMAIN work.methods = 1..Len(work.methods)
  BY <1>2, LenProperties
<1>4. step \in DOMAIN work.methods
  BY <1>1, <1>2, <1>3
<1>5. AreLifted(work.methods[step].code.items)
  BY <1>1, <1>2, <1>4 DEF MethodsStand, MethodStands, HasLifted
<1> QED BY <1>1, <1>2, <1>4, <1>5

\* The items of the method after a step of the cleanup.
Cleaned(items) == remove_noop_gotos(redirect_goto_chains(items))

LEMMA RemoveNopsKeeps ==
    ASSUME NEW code, AreLifted(code.items), NEW after,
           after.items = remove_nops(code.items), after.handlers = code.handlers
    PROVE  AreLifted(after.items) /\ Trace(after) = Trace(code)
<1>1. Drops(code.items, {i \in DOMAIN code.items : ~IsNop(code.items[i])})
  BY NopsDrop
<1>2. after.items = Kept(code.items, {i \in DOMAIN code.items : ~IsNop(code.items[i])})
  BY DEF remove_nops
<1> QED BY <1>1, <1>2, DroppingKeepsTrace

LEMMA RoundKeeps ==
    ASSUME NEW code, AreLifted(code.items), NEW after,
           after.items = Cleaned(code.items), after.handlers = code.handlers
    PROVE  AreLifted(after.items) /\ Trace(after) = Trace(code)
<1> DEFINE between == [items |-> redirect_goto_chains(code.items), handlers |-> code.handlers]
<1>1. between.items = redirect_goto_chains(code.items) /\ between.handlers = code.handlers
  OBVIOUS
<1> HIDE DEF between
<1>2. AreLifted(between.items) /\ Trace(between) = Trace(code)
  BY <1>1, RedirectKeepsTrace
<1>3. Drops(between.items, DOMAIN between.items \ NoopGotos(between.items))
  BY <1>2, NoopGotosDrop
<1>4. after.items = Kept(between.items, DOMAIN between.items \ NoopGotos(between.items))
  BY <1>1 DEF Cleaned, remove_noop_gotos
<1>5. AreLifted(after.items) /\ Trace(after) = Trace(between)
  BY <1>1, <1>3, <1>4, DroppingKeepsTrace
<1> QED BY <1>2, <1>5

LEMMA StepKeepsCleanup == CleanupInvariant /\ [Next]_vars => CleanupInvariant'
<1> SUFFICES ASSUME CleanupInvariant, [Next]_vars, job'.kind = "deobfuscate" PROVE CleanupInvariant'
  BY DEF CleanupInvariant
<1>1. job' = job /\ jar' = jar
  BY DEF Next, vars, Load, TakeClass, PatchStep, PipelineStep, ClosureStep, CallbackStep,
         SkipMethod, RemoveNops, Round, FinishClass, Write
<1>2. job.kind = "deobfuscate"
  BY <1>1
<1>3. /\ JarLifted /\ done \in Seq(Range(done)) /\ step \in Nat \ {0} /\ clean \in BOOLEAN /\ WorkStands
      /\ clean /\ work # NoClass => step <= Len(work.methods)
  BY <1>2 DEF CleanupInvariant
<1>4. JarLifted'
  BY <1>1, <1>3 DEF JarLifted
<1>5. CASE UNCHANGED <<done, work, step, clean>>
  BY <1>1, <1>3, <1>4, <1>5 DEF CleanupInvariant, WorkStands
<1>6. CASE TakeClass
  <2>1. /\ work' = jar[Len(done) + 1] /\ step' = 1 /\ clean' = FALSE /\ done' = done /\ Len(done) < Len(jar)
    BY <1>6 DEF TakeClass
  <2>2. Len(done) \in Nat /\ Len(jar) \in Nat /\ DOMAIN jar = 1..Len(jar)
    BY <1>3, LenProperties DEF JarLifted
  <2>3. Len(done) + 1 \in DOMAIN jar
    BY <2>1, <2>2
  <2>4. jar[Len(done) + 1] \in Range(jar)
    BY <2>3 DEF Range
  <2>5. /\ "methods" \in DOMAIN work' /\ work'.methods \in Seq(Range(work'.methods))
        /\ \A m \in DOMAIN work'.methods : HasLifted(work'.methods[m])
    BY <1>3, <2>1, <2>4 DEF JarLifted
  <2>6. MethodsStand(work'.methods, jar[Len(done) + 1].methods)
    BY <2>1, <2>5 DEF MethodsStand, MethodStands
  <2>7. WorkStands'
    BY <1>1, <2>1, <2>3, <2>5, <2>6 DEF WorkStands
  <2>8. clean' \in BOOLEAN /\ ~clean' /\ (done \in Seq(Range(done)))'
    BY <1>3, <2>1
  <2>9. step' \in Nat \ {0}
    BY <2>1
  <2> QED BY <1>4, <2>7, <2>8, <2>9 DEF CleanupInvariant
<1>7. CASE SkipMethod
  <2>1. step' = step + 1 /\ clean' = FALSE /\ UNCHANGED <<done, work>>
    BY <1>7 DEF SkipMethod
  <2>2. WorkStands'
    BY <1>1, <1>3, <2>1 DEF WorkStands
  <2>3. clean' \in BOOLEAN /\ ~clean' /\ (done \in Seq(Range(done)))'
    BY <1>3, <2>1
  <2>4. step' \in Nat \ {0}
    BY <1>3, <2>1
  <2> QED BY <1>4, <2>2, <2>3, <2>4 DEF CleanupInvariant
<1>8. CASE RemoveNops
  <2> DEFINE k == work.methods[step].code
             items == remove_nops(work.methods[step].code.items)
  <2>1. CleansMethod /\ HasItems /\ step' = step /\ done' = done
        /\ work' = Rewritten(work, step, items)
    BY <1>8 DEF RemoveNops, Rewritten
  <2>2. /\ step \in DOMAIN work.methods /\ Len(done) + 1 \in DOMAIN jar
        /\ "methods" \in DOMAIN work /\ work.methods \in Seq(Range(work.methods))
        /\ MethodsStand(work.methods, jar[Len(done) + 1].methods)
        /\ k # NoCode /\ AreLifted(k.items)
    BY <2>1, WorkingMethod
  <2>3. MayBecome(k, items)
    <3> HIDE DEF k
    <3>1. items = remove_nops(k.items)
      BY DEF k
    <3> QED BY <2>2, <3>1, RemoveNopsKeeps DEF MayBecome
  <2> HIDE DEF items
  <2>4. /\ "methods" \in DOMAIN work' /\ work'.methods \in Seq(Range(work'.methods))
        /\ Len(work'.methods) = Len(work.methods)
        /\ MethodsStand(work'.methods, jar[Len(done) + 1].methods)
    BY <2>1, <2>2, <2>3, OneMethodMore
  <2>5. WorkStands'
    BY <1>1, <2>1, <2>2, <2>4 DEF WorkStands
  <2>6. clean' = TRUE /\ step <= Len(work.methods)
    BY <1>8, <2>1 DEF RemoveNops, CleansMethod
  <2> QED BY <1>3, <1>4, <2>1, <2>4, <2>5, <2>6 DEF CleanupInvariant
<1>9. CASE Round
  <2> DEFINE k == work.methods[step].code
             items == Cleaned(work.methods[step].code.items)
  <2>1. CleansMethod /\ HasItems /\ done' = done
        /\ work' = Rewritten(work, step, items)
    BY <1>9 DEF Round, Cleaned, Rewritten
  <2>2. /\ step \in DOMAIN work.methods /\ Len(done) + 1 \in DOMAIN jar
        /\ "methods" \in DOMAIN work /\ work.methods \in Seq(Range(work.methods))
        /\ MethodsStand(work.methods, jar[Len(done) + 1].methods)
        /\ k # NoCode /\ AreLifted(k.items)
    BY <2>1, WorkingMethod
  <2>3. MayBecome(k, items)
    <3> HIDE DEF k
    <3>1. items = Cleaned(k.items)
      BY DEF k
    <3> QED BY <2>2, <3>1, RoundKeeps DEF MayBecome
  <2> HIDE DEF items
  <2>4. /\ "methods" \in DOMAIN work' /\ work'.methods \in Seq(Range(work'.methods))
        /\ Len(work'.methods) = Len(work.methods)
        /\ MethodsStand(work'.methods, jar[Len(done) + 1].methods)
    BY <2>1, <2>2, <2>3, OneMethodMore
  <2>5. WorkStands'
    BY <1>1, <2>1, <2>2, <2>4 DEF WorkStands
  <2>6. (step' = step + 1 /\ clean' = FALSE) \/ (step' = step /\ clean' = clean)
    BY <1>9 DEF Round
  <2>7. step <= Len(work.methods)
    BY <2>1 DEF CleansMethod
  <2>8. step' \in Nat \ {0} /\ (done \in Seq(Range(done)))'
    BY <1>3, <2>1, <2>6
  <2>9. clean' \in BOOLEAN
    BY <1>3, <2>6
  <2>10. clean' => step' <= Len(work'.methods)
    <3>1. clean' => step' = step
      BY <2>6
    <3> QED BY <2>4, <2>7, <3>1
  <2> QED BY <1>4, <2>5, <2>8, <2>9, <2>10 DEF CleanupInvariant
<1>10. CASE FinishClass
  <2>1. CASE UNCHANGED <<done, work>>
    BY <1>1, <1>3, <1>4, <1>5, <1>10, <2>1 DEF FinishClass
  <2>2. CASE done' = Append(done, work) /\ work' = NoClass
    <3>1. done' \in Seq(Range(done) \cup {work})
      <4>1. done \in Seq(Range(done) \cup {work})
        BY <1>3
      <4> HIDE DEF Range
      <4> QED BY <2>2, <4>1
    <3>2. done' \in Seq(Range(done'))
      BY <3>1, OwnRange
    <3>3. step' = step /\ clean' = clean
      BY <1>10 DEF FinishClass
    <3> QED BY <1>3, <1>4, <2>2, <3>2, <3>3 DEF CleanupInvariant, WorkStands
  <2> QED BY <1>10, <2>1, <2>2 DEF FinishClass
<1>11. CASE Load \/ Write \/ UNCHANGED vars
  BY <1>5, <1>11 DEF Load, Write, vars
<1>12. ~PatchStep /\ ~PipelineStep /\ ~ClosureStep /\ ~CallbackStep
  BY <1>2 DEF PatchStep, PipelineStep, ClosureStep, CallbackStep, HasStep
<1> QED BY <1>6, <1>7, <1>8, <1>9, <1>10, <1>11, <1>12 DEF Next

LEMMA CleanupInvariance == Spec => []CleanupInvariant
<1> QED BY InitCleanup, StepKeepsCleanup, PTL DEF Spec

\* However the items of a method stand, with any handlers, labels used and not placed, and
\* gotos in cycles: no turn of the cleanup loses an instruction or what it leads to
\* (deobfuscate.rs, rewrite_class).
THEOREM TraceStaysKept == Spec => []TraceKept
<1>1. CleanupInvariant => TraceKept
  <2> SUFFICES ASSUME CleanupInvariant, Working, job.kind = "deobfuscate", NEW m \in DOMAIN work.methods,
                      work.methods[m].code # NoCode
               PROVE  Trace(work.methods[m].code) = Trace(jar[Len(done) + 1].methods[m].code)
    BY DEF TraceKept
  <2>1. MethodsStand(work.methods, jar[Len(done) + 1].methods)
    BY DEF CleanupInvariant, WorkStands, Working
  <2> QED BY <2>1 DEF MethodsStand, MethodStands
<1> QED BY <1>1, CleanupInvariance, PTL

-----------------------------------------------------------------------------
(* The loop over a method. *)

LEMMA RoundShrinks ==
    ASSUME NEW items, AreLifted(items),
           Redirectable(items) # {} \/ NoopGotos(redirect_goto_chains(items)) # {}
    PROVE  Smaller(Cleaned(items), items)
<1> DEFINE straight == redirect_goto_chains(items)
           after == Cleaned(items)
<1>1. AreLifted(straight) /\ Len(straight) = Len(items) /\ Redirectable(straight) = {}
  BY RedirectedItems, RedirectedWhole
<1>2. Len(items) \in Nat /\ DOMAIN items = 1..Len(items) /\ straight \in Seq(Range(straight)) /\ DOMAIN straight = 1..Len(items)
  BY <1>1, LiftedItems
<1>3. after = Kept(straight, DOMAIN straight \ NoopGotos(straight))
  BY DEF Cleaned, remove_noop_gotos
<1> HIDE DEF straight, after
<1>4. CASE NoopGotos(straight) # {}
  <2>1. PICK x : x \in NoopGotos(straight)
    BY <1>4
  <2>2. x \in 1..Len(straight)
    BY <1>1, <1>2, <2>1 DEF NoopGotos, Gotos
  <2>3. Len(after) < Len(straight)
    BY <1>2, <1>3, <2>1, <2>2, KeptShrinks
  <2> QED BY <1>1, <2>3 DEF Smaller, after
<1>5. CASE NoopGotos(straight) = {}
  <2>1. \A x \in 1..Len(straight) : x \in DOMAIN straight \ NoopGotos(straight)
    BY <1>1, <1>2, <1>5
  <2>2. after = straight
    BY <1>2, <1>3, <2>1, KeptAll
  <2>3. Redirectable(items) # {}
    BY <1>5 DEF straight
  <2>4. Redirectable(items) \subseteq 1..Len(items)
    BY <1>2 DEF Redirectable, Gotos
  <2>5. IsFiniteSet(Redirectable(items))
    <3>1. 1 \in Int /\ Len(items) \in Int
      BY <1>2
    <3>2. IsFiniteSet(1..Len(items))
      BY <3>1, FS_Interval
    <3> QED BY <2>4, <3>2, FS_Subset
  <2>6. Cardinality(Redirectable(items)) \in Nat /\ Cardinality(Redirectable(items)) # 0
    BY <2>3, <2>5, FS_CardinalityType, FS_EmptySet
  <2>7. Cardinality(Redirectable(after)) = 0
    BY <1>1, <2>2, FS_EmptySet
  <2> QED BY <1>1, <2>2, <2>6, <2>7 DEF Smaller, after
<1> QED BY <1>4, <1>5

\* A turn that is not the last has made progress, whatever the gotos of the method: so
\* there is no method on which the loop of rewrite_class runs for ever.
THEOREM RoundsAlwaysShrink == Spec => RoundsShrink
<1> DEFINE Shrinks ==
        Working /\ job.kind = "deobfuscate" /\ clean /\ clean' /\ step' = step =>
            Smaller(work'.methods[step].code.items, work.methods[step].code.items)
<1>1. CleanupInvariant /\ [Next]_vars => [Shrinks]_vars
  <2> SUFFICES ASSUME CleanupInvariant, Next, Working, job.kind = "deobfuscate", clean, clean', step' = step
               PROVE  Smaller(work'.methods[step].code.items, work.methods[step].code.items)
    OBVIOUS
  <2>1. work # NoClass /\ status = "running"
    BY DEF Working
  <2>2. ~Load /\ ~TakeClass /\ ~Write
    BY <2>1 DEF Load, TakeClass, Write
  <2>3. ~PatchStep /\ ~PipelineStep /\ ~ClosureStep /\ ~CallbackStep
    BY DEF PatchStep, PipelineStep, ClosureStep, CallbackStep, HasStep
  <2>4. ~SkipMethod /\ ~RemoveNops
    BY DEF SkipMethod, RemoveNops
  <2>5. ~FinishClass
    <3>1. /\ "methods" \in DOMAIN work /\ work.methods \in Seq(Range(work.methods))
          /\ step \in Nat /\ step <= Len(work.methods)
      BY <2>1 DEF CleanupInvariant, WorkStands
    <3>2. Len(work.methods) \in Nat
      BY <3>1, LenProperties
    <3>3. ~(step > Len(work.methods))
      BY <3>1, <3>2
    <3> QED BY <3>3 DEF FinishClass
  <2>6. Round
    BY <2>2, <2>3, <2>4, <2>5 DEF Next
  <2> DEFINE items == work.methods[step].code.items
             straight == redirect_goto_chains(items)
  <2>7. /\ CleansMethod /\ HasItems /\ work' = Rewritten(work, step, Cleaned(items))
        /\ Cardinality(Redirectable(items)) # 0 \/ Cardinality(NoopGotos(straight)) # 0
    <3>1. CleansMethod /\ HasItems /\ work' = Rewritten(work, step, Cleaned(items))
      BY <2>6 DEF Round, Cleaned, Rewritten
    <3>2. Cardinality(Redirectable(items)) = 0 /\ Cardinality(NoopGotos(straight)) = 0 => clean' = FALSE
      BY <2>6 DEF Round
    <3> QED BY <3>1, <3>2
  <2>8. /\ step \in DOMAIN work.methods /\ "methods" \in DOMAIN work /\ work.methods \in Seq(Range(work.methods))
        /\ MethodsStand(work.methods, jar[Len(done) + 1].methods)
        /\ work.methods[step].code # NoCode /\ AreLifted(items)
    BY <2>7, WorkingMethod
  <2>9. MayBecome(work.methods[step].code, Cleaned(items))
    BY <2>8, RoundKeeps DEF MayBecome
  <2> HIDE DEF items, straight
  <2>10. work'.methods[step].code.items = Cleaned(items)
    BY <2>7, <2>8, <2>9, OneMethodMore
  <2>11. Redirectable(items) # {} \/ NoopGotos(straight) # {}
    BY <2>7, FS_EmptySet
  <2>12. Smaller(Cleaned(items), items)
    BY <2>8, <2>11, RoundShrinks DEF straight
  <2> QED BY <2>10, <2>12 DEF items
<1> QED BY <1>1, CleanupInvariance, PTL DEF Spec, RoundsShrink

-----------------------------------------------------------------------------
(* Trees.  A function defined by recursion along a way, or from the leaves,   *)
(* exists for a tree that ends; what is true of all parts of a tree is shown  *)
(* by induction over the lengths of ways.                                   *)

\* at is the recursion in Subtree.
Along(tree, way, at) ==
    at = [n \in 0..Len(way) |-> IF n = 0 THEN tree ELSE Parts(at[n - 1])[way[n]]]

LEMMA AlongExists ==
    ASSUME NEW tree, NEW way \in Seq(Nat) PROVE \E at : Along(tree, way, at)
<1> DEFINE Goes(n, at) == at = [k \in 0..n |-> IF k = 0 THEN tree ELSE Parts(at[k - 1])[way[k]]]
           N == {n \in 0..Len(way) : \E at : Goes(n, at)}
<1>1. Len(way) \in Nat
  OBVIOUS
<1>2. 0 \in N
  <2> DEFINE at == [k \in 0..0 |-> tree]
  <2>1. at = [k \in 0..0 |-> IF k = 0 THEN tree ELSE Parts(at[k - 1])[way[k]]]
    OBVIOUS
  <2> HIDE DEF at
  <2>2. Goes(0, at)
    BY <2>1
  <2> QED BY <1>1, <2>2
<1>3. ASSUME NEW n \in 1..Len(way), n - 1 \in N PROVE n \in N
  <2>1. PICK b : Goes(n - 1, b)
    BY <1>3
  <2> DEFINE at == [k \in 0..n |-> IF k = 0 THEN tree ELSE Parts(b[k - 1])[way[k]]]
  <2>2. ASSUME NEW k \in 0..(n - 1) PROVE at[k] = b[k]
    <3>1. k \in 0..n
      BY <1>1
    <3> QED BY <2>1, <3>1
  <2>3. ASSUME NEW k \in 0..n
        PROVE  (IF k = 0 THEN tree ELSE Parts(b[k - 1])[way[k]]) = (IF k = 0 THEN tree ELSE Parts(at[k - 1])[way[k]])
    <3> HIDE DEF at
    <3>1. CASE k = 0
      BY <3>1
    <3>2. CASE k # 0
      <4>1. k - 1 \in 0..(n - 1)
        BY <1>1, <3>2
      <4> QED BY <2>2, <4>1
    <3> QED BY <3>1, <3>2
  <2>4. at = [k \in 0..n |-> IF k = 0 THEN tree ELSE Parts(at[k - 1])[way[k]]]
    BY <2>3
  <2> HIDE DEF at
  <2>5. Goes(n, at)
    BY <2>4
  <2> QED BY <1>1, <2>5
<1>4. 0..Len(way) \subseteq N
  <2> HIDE DEF N
  <2> QED BY <1>1, <1>2, <1>3, UpTo
<1>5. \E at : Goes(Len(way), at)
  BY <1>1, <1>4
<1> QED BY <1>5 DEF Along

LEMMA SubtreeIs ==
    ASSUME NEW tree, NEW way \in Seq(Nat)
    PROVE  \E at : Along(tree, way, at) /\ Subtree(tree, way) = at[Len(way)]
<1> DEFINE at == CHOOSE at : Along(tree, way, at)
<1>1. Along(tree, way, at)
  BY AlongExists
<1>2. Subtree(tree, way) = at[Len(way)]
  BY DEF Subtree, Along
<1> QED BY <1>1, <1>2

LEMMA SubtreeFacts ==
    ASSUME NEW tree, NEW way \in Seq(Nat), NEW i \in Nat
    PROVE  /\ Subtree(tree, <<>>) = tree
           /\ Subtree(tree, Append(way, i)) = Parts(Subtree(tree, way))[i]
<1>1. Subtree(tree, <<>>) = tree
  <2>1. <<>> \in Seq(Nat) /\ Len(<<>>) = 0 /\ 0 \in 0..0
    OBVIOUS
  <2>2. PICK at : Along(tree, <<>>, at) /\ Subtree(tree, <<>>) = at[Len(<<>>)]
    BY <2>1, SubtreeIs
  <2>3. at[0] = tree
    BY <2>1, <2>2 DEF Along
  <2> QED BY <2>1, <2>2, <2>3
<1>2. Subtree(tree, Append(way, i)) = Parts(Subtree(tree, way))[i]
  <2> DEFINE more == Append(way, i)
             n == Len(way)
  <2>1. more \in Seq(Nat) /\ Len(more) = n + 1 /\ n \in Nat /\ more[n + 1] = i /\ \A k \in 1..n : more[k] = way[k]
    OBVIOUS
  <2>2. PICK a : Along(tree, way, a) /\ Subtree(tree, way) = a[n]
    BY SubtreeIs
  <2> HIDE DEF more, n
  <2>3. PICK b : Along(tree, more, b) /\ Subtree(tree, more) = b[n + 1]
    BY <2>1, SubtreeIs
  <2> DEFINE N == {k \in 0..n : a[k] = b[k]}
  <2>4. \A k \in 0..n : a[k] = IF k = 0 THEN tree ELSE Parts(a[k - 1])[way[k]]
    BY <2>1, <2>2 DEF Along, n
  <2>5. \A k \in 0..(n + 1) : b[k] = IF k = 0 THEN tree ELSE Parts(b[k - 1])[more[k]]
    BY <2>1, <2>3 DEF Along
  <2>6. 0 \in N
    BY <2>1, <2>4, <2>5
  <2>7. ASSUME NEW k \in 1..n, k - 1 \in N PROVE k \in N
    <3>1. k \in 0..n /\ k \in 0..(n + 1) /\ k # 0
      BY <2>1
    <3>2. a[k] = Parts(a[k - 1])[way[k]] /\ b[k] = Parts(b[k - 1])[more[k]]
      BY <2>4, <2>5, <3>1
    <3> QED BY <2>1, <2>7, <3>1, <3>2
  <2> HIDE DEF N
  <2>8. 0..n \subseteq N
    BY <2>1, <2>6, <2>7, UpTo
  <2>9. a[n] = b[n]
    BY <2>1, <2>8 DEF N
  <2>10. n + 1 \in 0..(n + 1) /\ n + 1 # 0 /\ (n + 1) - 1 = n
    BY <2>1
  <2>11. b[n + 1] = Parts(b[n])[i]
    BY <2>1, <2>5, <2>10
  <2> QED BY <2>2, <2>3, <2>9, <2>11 DEF more
<1> QED BY <1>1, <1>2

LEMMA WaysFacts ==
    ASSUME NEW tree
    PROVE  /\ <<>> \in Ways(tree) /\ Ways(tree) \subseteq Seq(Nat)
           /\ \A way \in Seq(Nat), i \in Nat :
                Append(way, i) \in Ways(tree) <=> way \in Ways(tree) /\ i \in DOMAIN Parts(Subtree(tree, way))
<1>1. <<>> \in Ways(tree) /\ Ways(tree) \subseteq Seq(Nat)
  BY DEF Ways
<1>2. ASSUME NEW way \in Seq(Nat), NEW i \in Nat
      PROVE  Append(way, i) \in Ways(tree) <=> way \in Ways(tree) /\ i \in DOMAIN Parts(Subtree(tree, way))
  <2> DEFINE more == Append(way, i)
             n == Len(way)
             In(w, k) == w[k] \in DOMAIN Parts(Subtree(tree, SubSeq(w, 1, k - 1)))
  <2>1. more \in Seq(Nat) /\ DOMAIN more = 1..(n + 1) /\ DOMAIN way = 1..n /\ n \in Nat /\ more[n + 1] = i
    OBVIOUS
  <2>2. \A k \in 1..n : more[k] = way[k] /\ SubSeq(more, 1, k - 1) = SubSeq(way, 1, k - 1)
    OBVIOUS
  <2>3. SubSeq(more, 1, (n + 1) - 1) = way
    OBVIOUS
  <2>4. \A k \in 1..n : In(more, k) <=> In(way, k)
    <3> HIDE DEF more
    <3> QED BY <2>2
  <2>5. In(more, n + 1) <=> i \in DOMAIN Parts(Subtree(tree, way))
    <3> HIDE DEF more, n
    <3> QED BY <2>1, <2>3
  <2>6. more \in Ways(tree) <=> \A k \in 1..(n + 1) : In(more, k)
    <3> HIDE DEF more, n
    <3> QED BY <2>1 DEF Ways
  <2>7. way \in Ways(tree) <=> \A k \in 1..n : In(way, k)
    <3> HIDE DEF n
    <3> QED BY <2>1 DEF Ways
  <2> HIDE DEF In, more, n
  <2>8. \A k \in 1..(n + 1) : k \in 1..n \/ k = n + 1
    BY <2>1
  <2>9. n + 1 \in 1..(n + 1) /\ \A k \in 1..n : k \in 1..(n + 1)
    BY <2>1
  <2> QED BY <2>4, <2>5, <2>6, <2>7, <2>8, <2>9 DEF more
<1> QED BY <1>1, <1>2

LEMMA WayEnds ==
    ASSUME NEW tree, NEW way \in Ways(tree), way # <<>>
    PROVE  \E v \in Ways(tree), i \in Nat :
              way = Append(v, i) /\ Len(v) = Len(way) - 1 /\ i \in DOMAIN Parts(Subtree(tree, v))
<1> DEFINE v == Upto(way, Len(way) - 1)
           i == way[Len(way)]
<1>1. way \in Seq(Nat)
  BY WaysFacts
<1>2. v \in Seq(Nat) /\ i \in Nat /\ way = Append(v, i) /\ Len(v) = Len(way) - 1
  <2>1. Len(way) \in Nat \ {0}
    BY <1>1, EmptySeq
  <2>2. Len(way) \in 1..Len(way) /\ Len(way) - 1 \in 0..Len(way)
    BY <2>1
  <2> QED BY <1>1, <2>2, UptoFacts
<1> HIDE DEF v, i
<1>3. v \in Ways(tree) /\ i \in DOMAIN Parts(Subtree(tree, v))
  BY <1>2, WaysFacts
<1> QED BY <1>2, <1>3

LEMMA WayPrefix ==
    ASSUME NEW tree, NEW way \in Ways(tree), NEW n \in 0..Len(way)
    PROVE  \E v \in Ways(tree) : Len(v) = n
<1> DEFINE N == {m \in 0..Len(way) : \E v \in Ways(tree) : Len(v) = Len(way) - m}
<1>1. way \in Seq(Nat) /\ Len(way) \in Nat
  BY WaysFacts
<1>2. 0 \in N
  BY <1>1
<1>3. ASSUME NEW m \in 1..Len(way), m - 1 \in N PROVE m \in N
  <2>1. PICK v \in Ways(tree) : Len(v) = Len(way) - (m - 1)
    BY <1>3
  <2>2. v # <<>>
    BY <1>1, <2>1
  <2>3. PICK u \in Ways(tree) : Len(u) = Len(v) - 1
    BY <2>2, WayEnds
  <2>4. Len(u) = Len(way) - m
    BY <1>1, <2>1, <2>3
  <2> QED BY <1>1, <2>4
<1> HIDE DEF N
<1>4. 0..Len(way) \subseteq N
  BY <1>1, <1>2, <1>3, UpTo
<1>5. Len(way) - n \in N /\ Len(way) - (Len(way) - n) = n
  BY <1>1, <1>4
<1> QED BY <1>5 DEF N

\* ways is the recursion in WaysOfLength.
Levels(tree, n, ways) ==
    ways = [k \in 0..n |->
              IF k = 0 THEN {<<>>}
              ELSE UNION {{Append(way, i) : i \in DOMAIN Parts(Subtree(tree, way))} : way \in ways[k - 1]}]

LEMMA LevelsExist ==
    ASSUME NEW tree, NEW m \in Nat PROVE \E ways : Levels(tree, m, ways)
<1> DEFINE next(S) == UNION {{Append(way, i) : i \in DOMAIN Parts(Subtree(tree, way))} : way \in S}
           N == {n \in 0..m : \E ways : Levels(tree, n, ways)}
<1>1. \A n, ways : Levels(tree, n, ways) <=> ways = [k \in 0..n |-> IF k = 0 THEN {<<>>} ELSE next(ways[k - 1])]
  BY DEF Levels
<1> HIDE DEF next
<1>2. 0 \in N
  <2> DEFINE ways == [k \in 0..0 |-> {<<>>}]
  <2>1. ways = [k \in 0..0 |-> IF k = 0 THEN {<<>>} ELSE next(ways[k - 1])]
    OBVIOUS
  <2> HIDE DEF ways
  <2>2. Levels(tree, 0, ways)
    BY <1>1, <2>1
  <2>3. 0 \in 0..m
    OBVIOUS
  <2> QED BY <2>2, <2>3
<1>3. ASSUME NEW n \in 1..m, n - 1 \in N PROVE n \in N
  <2>1. PICK b : Levels(tree, n - 1, b)
    BY <1>3
  <2>2. b = [k \in 0..(n - 1) |-> IF k = 0 THEN {<<>>} ELSE next(b[k - 1])]
    BY <1>1, <2>1
  <2> DEFINE ways == [k \in 0..n |-> IF k = 0 THEN {<<>>} ELSE next(b[k - 1])]
  <2>3. ASSUME NEW k \in 0..(n - 1) PROVE ways[k] = b[k]
    <3>1. k \in 0..n
      OBVIOUS
    <3> QED BY <2>2, <3>1
  <2>4. ASSUME NEW k \in 0..n
        PROVE  (IF k = 0 THEN {<<>>} ELSE next(b[k - 1])) = (IF k = 0 THEN {<<>>} ELSE next(ways[k - 1]))
    <3> HIDE DEF ways
    <3>1. CASE k = 0
      BY <3>1
    <3>2. CASE k # 0
      <4>1. k - 1 \in 0..(n - 1)
        BY <3>2
      <4> QED BY <2>3, <4>1
    <3> QED BY <3>1, <3>2
  <2>5. ways = [k \in 0..n |-> IF k = 0 THEN {<<>>} ELSE next(ways[k - 1])]
    BY <2>4
  <2> HIDE DEF ways
  <2>6. Levels(tree, n, ways)
    BY <1>1, <2>5
  <2> QED BY <2>6
<1>4. 0..m \subseteq N
  <2> HIDE DEF N
  <2> QED BY <1>2, <1>3, UpTo
<1> QED BY <1>4

LEMMA LevelHas ==
    ASSUME NEW tree, NEW way \in Ways(tree) PROVE way \in WaysOfLength(tree, Len(way))
<1> DEFINE n == Len(way)
           w == CHOOSE w : Levels(tree, n, w)
           next(S) == UNION {{Append(v, i) : i \in DOMAIN Parts(Subtree(tree, v))} : v \in S}
           N == {k \in 0..n : \A v \in Ways(tree) : Len(v) = k => v \in w[k]}
<1>1. n \in Nat
  BY WaysFacts
<1>2. Levels(tree, n, w)
  <2> HIDE DEF n
  <2> QED BY <1>1, LevelsExist
<1>3. WaysOfLength(tree, n) = w[n]
  BY DEF WaysOfLength, Levels
<1> HIDE DEF w, n
<1>4. w[0] = {<<>>} /\ \A k \in 1..n : w[k] = next(w[k - 1])
  <2>1. 0 \in 0..n /\ \A k \in 1..n : k \in 0..n /\ k # 0
    BY <1>1
  <2> QED BY <1>2, <2>1 DEF Levels
<1>5. 0 \in N
  <2>1. ASSUME NEW v \in Ways(tree), Len(v) = 0 PROVE v = <<>>
    BY <2>1, WaysFacts
  <2> QED BY <1>1, <1>4, <2>1
<1>6. ASSUME NEW k \in 1..n, k - 1 \in N PROVE k \in N
  <2>1. ASSUME NEW v \in Ways(tree), Len(v) = k PROVE v \in w[k]
    <3>1. v # <<>>
      BY <1>1, <2>1
    <3>2. PICK u \in Ways(tree), i \in Nat : v = Append(u, i) /\ Len(u) = Len(v) - 1 /\ i \in DOMAIN Parts(Subtree(tree, u))
      BY <3>1, WayEnds
    <3>3. u \in w[k - 1]
      BY <1>6, <2>1, <3>2
    <3>4. v \in next(w[k - 1])
      BY <3>2, <3>3
    <3> QED BY <1>4, <3>4
  <2> QED BY <1>1, <2>1
<1>7. 0..n \subseteq N
  <2> HIDE DEF N
  <2> QED BY <1>1, <1>5, <1>6, UpTo
<1>8. n \in N
  BY <1>1, <1>7
<1> QED BY <1>3, <1>8 DEF n

\* No way is too long, and parts are numbered.
Ends(tree) ==
    \E deep \in Nat :
        \A way \in Ways(tree) : Len(way) \in 0..deep /\ DOMAIN Parts(Subtree(tree, way)) \subseteq Nat

LEMMA MatchersEnd ==
    ASSUME NEW of, NEW tree, IsMatcher(of, tree)
    PROVE  Ends(tree) /\ \A way \in Ways(tree) : IsCondition(of, Subtree(tree, way))
<1>1. /\ WaysOfLength(tree, Deepest + 1) = {}
      /\ \A n \in 0..Deepest : \A way \in WaysOfLength(tree, n) : IsCondition(of, Subtree(tree, way))
  BY DEF IsMatcher, IsTree
<1>2. Deepest \in Nat
  BY DeepestIsNumber
<1>3. ASSUME NEW way \in Ways(tree)
      PROVE  Len(way) \in 0..Deepest /\ IsCondition(of, Subtree(tree, way))
  <2>1. Len(way) \in Nat
    BY WaysFacts
  <2>2. Len(way) \in 0..Deepest
    <3> SUFFICES ASSUME Len(way) > Deepest PROVE FALSE
      BY <1>2, <2>1
    <3>1. Deepest + 1 \in 0..Len(way)
      BY <1>2, <2>1
    <3>2. PICK v \in Ways(tree) : Len(v) = Deepest + 1
      BY <3>1, WayPrefix
    <3> QED BY <1>1, <3>2, LevelHas
  <2> QED BY <1>1, <2>2, LevelHas
<1>4. ASSUME NEW m, IsCondition(of, m) PROVE DOMAIN Parts(m) \subseteq Nat
  <2>1. CASE m.node \in Connectives
    <3>1. "of" \in DOMAIN m /\ "transform" \notin DOMAIN m /\ m.of \in Seq(Range(m.of))
      BY <1>4, <2>1 DEF IsCondition
    <3>2. Parts(m) = m.of
      BY <3>1 DEF Parts
    <3> QED BY <3>1, <3>2
  <2>2. CASE m.node \notin Connectives
    <3>1. "of" \notin DOMAIN m /\ "transform" \notin DOMAIN m
      BY <1>4, <2>2 DEF IsCondition
    <3>2. Parts(m) = <<>>
      BY <3>1 DEF Parts
    <3> QED BY <3>2
  <2> QED BY <2>1, <2>2
<1> QED BY <1>2, <1>3, <1>4 DEF Ends

\* From the leaves to the root.
LEMMA FromTheLeaves ==
    ASSUME NEW tree, Ends(tree), NEW T,
           \A way \in Ways(tree) :
              (\A i \in Nat : Append(way, i) \in Ways(tree) => Append(way, i) \in T) => way \in T
    PROVE  Ways(tree) \subseteq T
<1>0. PICK deep \in Nat : \A way \in Ways(tree) : Len(way) \in 0..deep
  BY DEF Ends
<1> DEFINE N == {k \in 0..(deep + 1) : \A way \in Ways(tree) : Len(way) >= (deep + 1) - k => way \in T}
<1>1. deep \in Nat /\ deep + 1 \in Nat /\ Ways(tree) \subseteq Seq(Nat)
  BY WaysFacts
<1>2. \A way \in Ways(tree) : Len(way) \in Nat /\ Len(way) <= deep
  BY <1>0, <1>1
<1>3. 0 \in N
  BY <1>1, <1>2
<1>4. ASSUME NEW k \in 1..(deep + 1), k - 1 \in N PROVE k \in N
  <2>1. ASSUME NEW way \in Ways(tree), Len(way) >= (deep + 1) - k PROVE way \in T
    <3>1. ASSUME NEW i \in Nat, Append(way, i) \in Ways(tree) PROVE Append(way, i) \in T
      <4>1. Len(Append(way, i)) = Len(way) + 1
        BY <1>1
      <4>2. Len(Append(way, i)) >= (deep + 1) - (k - 1)
        BY <1>1, <1>2, <2>1, <4>1
      <4> QED BY <1>4, <3>1, <4>2
    <3> QED BY <3>1
  <2> QED BY <1>1, <2>1
<1>5. 0..(deep + 1) \subseteq N
  <2> DEFINE d == deep + 1
  <2>1. d \in Nat /\ 0 \in N /\ \A k \in 1..d : k - 1 \in N => k \in N
    <3> HIDE DEF N
    <3> QED BY <1>1, <1>3, <1>4
  <2> HIDE DEF d, N
  <2>2. 0..d \subseteq N
    BY <2>1, UpTo
  <2> QED BY <2>2 DEF d
<1>6. deep + 1 \in N
  <2>1. deep + 1 \in 0..(deep + 1)
    BY <1>1
  <2> HIDE DEF N
  <2> QED BY <1>5, <2>1
<1> QED BY <1>1, <1>2, <1>6

\* From the root to the leaves.
LEMMA FromTheRoot ==
    ASSUME NEW tree, NEW T, <<>> \in T,
           \A way \in Ways(tree), i \in Nat : way \in T /\ Append(way, i) \in Ways(tree) => Append(way, i) \in T
    PROVE  Ways(tree) \subseteq T
<1> SUFFICES ASSUME NEW w \in Ways(tree) PROVE w \in T
  OBVIOUS
<1> DEFINE N == {k \in 0..Len(w) : \A way \in Ways(tree) : Len(way) = k => way \in T}
<1>1. Len(w) \in Nat /\ Ways(tree) \subseteq Seq(Nat)
  BY WaysFacts
<1>2. 0 \in N
  <2>1. ASSUME NEW v \in Ways(tree), Len(v) = 0 PROVE v = <<>>
    BY <2>1, WaysFacts
  <2> QED BY <1>1, <2>1
<1>3. ASSUME NEW k \in 1..Len(w), k - 1 \in N PROVE k \in N
  <2>1. ASSUME NEW v \in Ways(tree), Len(v) = k PROVE v \in T
    <3>1. v # <<>>
      BY <1>1, <2>1
    <3>2. PICK u \in Ways(tree), i \in Nat : v = Append(u, i) /\ Len(u) = Len(v) - 1
      BY <3>1, WayEnds
    <3>3. u \in T
      BY <1>3, <2>1, <3>2
    <3> QED BY <3>2, <3>3
  <2> QED BY <1>1, <2>1
<1>4. 0..Len(w) \subseteq N
  <2> HIDE DEF N
  <2> QED BY <1>1, <1>2, <1>3, UpTo
<1>5. Len(w) \in N
  BY <1>1, <1>4
<1> QED BY <1>5

-----------------------------------------------------------------------------
(* The folds of trees: what each makes of a node and of what it made of the  *)
(* parts.                                                                   *)

Below(tree, way, f) == [i \in DOMAIN Parts(Subtree(tree, way)) |-> f[Append(way, i)]]

MatchesAt(of, x, m, holds) ==
    CASE m.node = "and" -> \A i \in DOMAIN holds : holds[i]
      [] m.node = "or" -> \E i \in DOMAIN holds : holds[i]
      [] m.node = "not" -> ~holds[1]
      [] OTHER -> Leaf(of, m, x)

CompiledMatchesAt(of, x, m, holds) ==
    CASE m.node = "and" -> \A i \in DOMAIN holds : holds[i]
      [] m.node = "or" -> \E i \in DOMAIN holds : holds[i]
      [] m.node = "not" -> ~holds[1]
      [] OTHER -> CompiledLeaf(of, m, x)

CompilesAt(m, compiles) ==
    CASE m.node \in {"and", "or", "not"} -> \A i \in DOMAIN compiles : compiles[i]
      [] m.node = "matches" -> fullmatch_regex(m.pattern) # {}
      [] OTHER -> TRUE

CompiledAt(known, m, compiled) ==
    CASE m.node \in {"and", "or", "not"} -> [m EXCEPT !.of = compiled]
      [] m.node = "matches" -> Regex(m, CHOOSE texts \in fullmatch_regex(m.pattern) : TRUE)
      [] m.node \in {"access_all", "access_any"} -> [m EXCEPT !.flags = @ \cap known]
      [] OTHER -> m

FlatAt(t, parts) == IF t.do = "sequence" THEN FlattenSeq(parts) ELSE <<t>>

FoldAt(what, a, x, m, parts) ==
    CASE what = "matches" -> MatchesAt(a, x, m, parts)
      [] what = "compiled matches" -> CompiledMatchesAt(a, x, m, parts)
      [] what = "compiles" -> CompilesAt(m, parts)
      [] what = "compiled" -> CompiledAt(a, m, parts)
      [] what = "flat" -> FlatAt(m, parts)

IsFold(tree, what, a, x, f) ==
    f = [way \in Ways(tree) |-> FoldAt(what, a, x, Subtree(tree, way), Below(tree, way, f))]

LEMMA FoldsExist ==
    ASSUME NEW tree, Ends(tree), NEW what, NEW a, NEW x
    PROVE  \E f : IsFold(tree, what, a, x, f)
<1>0. PICK deep \in Nat :
        \A way \in Ways(tree) : Len(way) \in 0..deep /\ DOMAIN Parts(Subtree(tree, way)) \subseteq Nat
  BY DEF Ends
<1> DEFINE d == deep + 1
           Deep(k) == {way \in Ways(tree) : Len(way) >= d - k}
           value(way, f) == FoldAt(what, a, x, Subtree(tree, way), Below(tree, way, f))
           Goes(k, f) == f = [way \in Deep(k) |-> value(way, f)]
           N == {k \in 0..d : \E f : Goes(k, f)}
<1>1. deep \in Nat /\ d \in Nat /\ Ways(tree) \subseteq Seq(Nat)
  BY WaysFacts
<1>2. \A way \in Ways(tree) :
        Len(way) \in Nat /\ Len(way) <= deep /\ DOMAIN Parts(Subtree(tree, way)) \subseteq Nat
  BY <1>0, <1>1
<1>3. \A f, g, way : (\A i \in DOMAIN Parts(Subtree(tree, way)) : f[Append(way, i)] = g[Append(way, i)])
                        => value(way, f) = value(way, g)
  <2> TAKE f, g, way
  <2> HAVE \A i \in DOMAIN Parts(Subtree(tree, way)) : f[Append(way, i)] = g[Append(way, i)]
  <2>1. Below(tree, way, f) = Below(tree, way, g)
    BY DEF Below
  <2> QED BY <2>1
<1>4. Deep(0) = {}
  BY <1>1, <1>2
<1>5. \A k \in 1..d : Deep(k - 1) \subseteq Deep(k)
  BY <1>1, <1>2
<1>6. ASSUME NEW k \in 1..d, NEW way \in Deep(k), NEW i \in DOMAIN Parts(Subtree(tree, way))
      PROVE  Append(way, i) \in Deep(k - 1)
  <2>1. way \in Seq(Nat) /\ way \in Ways(tree) /\ i \in Nat /\ Len(way) \in Nat
    BY <1>1, <1>2
  <2>2. Append(way, i) \in Ways(tree) /\ Len(Append(way, i)) = Len(way) + 1
    BY <2>1, WaysFacts
  <2> QED BY <1>1, <1>2, <2>1, <2>2
<1>7. Deep(d) = Ways(tree)
  BY <1>1, <1>2
<1> HIDE DEF value, Deep, d
<1>8. 0 \in N
  <2> DEFINE f == [way \in {} |-> 0]
  <2>1. f = [way \in Deep(0) |-> value(way, f)]
    BY <1>4
  <2> HIDE DEF f
  <2>2. Goes(0, f) /\ 0 \in 0..d
    BY <1>1, <2>1
  <2> QED BY <2>2
<1>9. ASSUME NEW k \in 1..d, k - 1 \in N PROVE k \in N
  <2>1. PICK b : Goes(k - 1, b)
    BY <1>9
  <2> DEFINE f == [way \in Deep(k) |-> value(way, b)]
  <2>2. ASSUME NEW way \in Deep(k - 1) PROVE f[way] = b[way]
    BY <1>5, <2>1
  <2>3. ASSUME NEW way \in Deep(k) PROVE value(way, b) = value(way, f)
    <3> HIDE DEF f
    <3>1. ASSUME NEW i \in DOMAIN Parts(Subtree(tree, way)) PROVE b[Append(way, i)] = f[Append(way, i)]
      BY <1>6, <2>2
    <3> QED BY <1>3, <3>1
  <2>4. f = [way \in Deep(k) |-> value(way, f)]
    BY <2>3
  <2> HIDE DEF f
  <2>5. Goes(k, f) /\ k \in 0..d
    BY <1>1, <2>4
  <2> QED BY <2>5
<1>10. 0..d \subseteq N
  <2> HIDE DEF N
  <2> QED BY <1>1, <1>8, <1>9, UpTo
<1>11. PICK f : Goes(d, f)
  BY <1>1, <1>10
<1> QED BY <1>7, <1>11 DEF value, IsFold

LEMMA MatchesIs ==
    ASSUME NEW of, NEW tree, Ends(tree), NEW x
    PROVE  \E f : IsFold(tree, "matches", of, x, f) /\ Matches(of, tree, x) = f[<<>>]
<1> DEFINE f == CHOOSE f : f = [way \in Ways(tree) |-> MatchesAt(of, x, Subtree(tree, way), Below(tree, way, f))]
<1>1. \A m, parts : FoldAt("matches", of, x, m, parts) = MatchesAt(of, x, m, parts)
  BY DEF FoldAt
<1>2. \E g : g = [way \in Ways(tree) |-> MatchesAt(of, x, Subtree(tree, way), Below(tree, way, g))]
  <2>1. PICK g : IsFold(tree, "matches", of, x, g)
    BY FoldsExist
  <2>2. g = [way \in Ways(tree) |-> MatchesAt(of, x, Subtree(tree, way), Below(tree, way, g))]
    BY <1>1, <2>1 DEF IsFold
  <2> QED BY <2>2
<1>3. f = [way \in Ways(tree) |-> MatchesAt(of, x, Subtree(tree, way), Below(tree, way, f))]
  BY <1>2
<1>4. IsFold(tree, "matches", of, x, f)
  <2> HIDE DEF f
  <2> QED BY <1>1, <1>3 DEF IsFold
<1>5. Matches(of, tree, x) = f[<<>>]
  BY DEF Matches, FoldTree, MatchesAt, Below
<1> QED BY <1>4, <1>5

LEMMA CompiledMatchesIs ==
    ASSUME NEW of, NEW tree, Ends(tree), NEW x
    PROVE  \E f : IsFold(tree, "compiled matches", of, x, f) /\ CompiledMatches(of, tree, x) = f[<<>>]
<1> DEFINE f == CHOOSE f : f = [way \in Ways(tree) |-> CompiledMatchesAt(of, x, Subtree(tree, way), Below(tree, way, f))]
<1>1. \A m, parts : FoldAt("compiled matches", of, x, m, parts) = CompiledMatchesAt(of, x, m, parts)
  BY DEF FoldAt
<1>2. \E g : g = [way \in Ways(tree) |-> CompiledMatchesAt(of, x, Subtree(tree, way), Below(tree, way, g))]
  <2>1. PICK g : IsFold(tree, "compiled matches", of, x, g)
    BY FoldsExist
  <2>2. g = [way \in Ways(tree) |-> CompiledMatchesAt(of, x, Subtree(tree, way), Below(tree, way, g))]
    BY <1>1, <2>1 DEF IsFold
  <2> QED BY <2>2
<1>3. f = [way \in Ways(tree) |-> CompiledMatchesAt(of, x, Subtree(tree, way), Below(tree, way, f))]
  BY <1>2
<1>4. IsFold(tree, "compiled matches", of, x, f)
  <2> HIDE DEF f
  <2> QED BY <1>1, <1>3 DEF IsFold
<1>5. CompiledMatches(of, tree, x) = f[<<>>]
  BY DEF CompiledMatches, FoldTree, CompiledMatchesAt, Below
<1> QED BY <1>4, <1>5

LEMMA CompilesIs ==
    ASSUME NEW tree, Ends(tree)
    PROVE  \E f : IsFold(tree, "compiles", 0, 0, f) /\ Compiles(tree) = f[<<>>]
<1> DEFINE f == CHOOSE f : f = [way \in Ways(tree) |-> CompilesAt(Subtree(tree, way), Below(tree, way, f))]
<1>1. \A m, parts : FoldAt("compiles", 0, 0, m, parts) = CompilesAt(m, parts)
  BY DEF FoldAt
<1>2. \E g : g = [way \in Ways(tree) |-> CompilesAt(Subtree(tree, way), Below(tree, way, g))]
  <2>1. PICK g : IsFold(tree, "compiles", 0, 0, g)
    BY FoldsExist
  <2>2. g = [way \in Ways(tree) |-> CompilesAt(Subtree(tree, way), Below(tree, way, g))]
    BY <1>1, <2>1 DEF IsFold
  <2> QED BY <2>2
<1>3. f = [way \in Ways(tree) |-> CompilesAt(Subtree(tree, way), Below(tree, way, f))]
  BY <1>2
<1>4. IsFold(tree, "compiles", 0, 0, f)
  <2> HIDE DEF f
  <2> QED BY <1>1, <1>3 DEF IsFold
<1>5. Compiles(tree) = f[<<>>]
  BY DEF Compiles, FoldTree, CompilesAt, Below
<1> QED BY <1>4, <1>5

LEMMA FlatIs ==
    ASSUME NEW tree, Ends(tree)
    PROVE  \E f : IsFold(tree, "flat", 0, 0, f) /\ Flat(tree) = f[<<>>]
<1> DEFINE f == CHOOSE f : f = [way \in Ways(tree) |-> FlatAt(Subtree(tree, way), Below(tree, way, f))]
<1>1. \A m, parts : FoldAt("flat", 0, 0, m, parts) = FlatAt(m, parts)
  BY DEF FoldAt
<1>2. \E g : g = [way \in Ways(tree) |-> FlatAt(Subtree(tree, way), Below(tree, way, g))]
  <2>1. PICK g : IsFold(tree, "flat", 0, 0, g)
    BY FoldsExist
  <2>2. g = [way \in Ways(tree) |-> FlatAt(Subtree(tree, way), Below(tree, way, g))]
    BY <1>1, <2>1 DEF IsFold
  <2> QED BY <2>2
<1>3. f = [way \in Ways(tree) |-> FlatAt(Subtree(tree, way), Below(tree, way, f))]
  BY <1>2
<1>4. IsFold(tree, "flat", 0, 0, f)
  <2> HIDE DEF f
  <2> QED BY <1>1, <1>3 DEF IsFold
<1>5. Flat(tree) = f[<<>>]
  BY DEF Flat, FoldTree, FlatAt, Below
<1> QED BY <1>4, <1>5

LEMMA CompiledIs ==
    ASSUME NEW known, NEW tree, Ends(tree)
    PROVE  \E f : IsFold(tree, "compiled", known, 0, f) /\ Compiled(known, tree) = f[<<>>]
<1> DEFINE f == CHOOSE f : f = [way \in Ways(tree) |-> CompiledAt(known, Subtree(tree, way), Below(tree, way, f))]
<1>1. \A m, parts : FoldAt("compiled", known, 0, m, parts) = CompiledAt(known, m, parts)
  BY DEF FoldAt
<1>2. \E g : g = [way \in Ways(tree) |-> CompiledAt(known, Subtree(tree, way), Below(tree, way, g))]
  <2>1. PICK g : IsFold(tree, "compiled", known, 0, g)
    BY FoldsExist
  <2>2. g = [way \in Ways(tree) |-> CompiledAt(known, Subtree(tree, way), Below(tree, way, g))]
    BY <1>1, <2>1 DEF IsFold
  <2> QED BY <2>2
<1>3. f = [way \in Ways(tree) |-> CompiledAt(known, Subtree(tree, way), Below(tree, way, f))]
  BY <1>2
<1>4. IsFold(tree, "compiled", known, 0, f)
  <2> HIDE DEF f
  <2> QED BY <1>1, <1>3 DEF IsFold
<1>5. Compiled(known, tree) = f[<<>>]
  BY DEF Compiled, FoldTree, CompiledAt, Below
<1> QED BY <1>4, <1>5

-----------------------------------------------------------------------------
(* A node, compiled and interpreted. *)

Known(of) ==
    CASE of = "class" -> ClassFlags
      [] of = "field" -> FieldFlags
      [] of = "method" -> MethodFlags
      [] of = "insn" -> {}

LEMMA PartsOfNodes ==
    ASSUME NEW of, NEW m, IsCondition(of, m), NEW known, NEW parts, DOMAIN parts = DOMAIN Parts(m)
    PROVE  /\ DOMAIN Parts(CompiledAt(known, m, parts)) = DOMAIN Parts(m)
           /\ \A i \in DOMAIN Parts(m) : Parts(CompiledAt(known, m, parts))[i] = parts[i]
<1> DEFINE made == CompiledAt(known, m, parts)
<1>1. CASE m.node \in Connectives
  <2>1. made = [m EXCEPT !.of = parts]
    BY <1>1 DEF CompiledAt, Connectives
  <2>2. "of" \in DOMAIN m
    BY <1>1 DEF IsCondition
  <2> HIDE DEF made
  <2>3. "of" \in DOMAIN made /\ "transform" \notin DOMAIN made /\ made.of = parts
    BY <1>1, <2>1, <2>2 DEF IsCondition
  <2>4. Parts(made) = parts
    BY <2>3 DEF Parts
  <2> QED BY <2>4 DEF made
<1>2. CASE m.node \notin Connectives
  <2>1. "of" \notin DOMAIN m /\ "transform" \notin DOMAIN m
    BY <1>2 DEF IsCondition
  <2>2. Parts(m) = <<>>
    BY <2>1 DEF Parts
  <2>3. "of" \notin DOMAIN made /\ "transform" \notin DOMAIN made
    <3>1. CASE m.node = "matches"
      <4>1. made = Regex(m, CHOOSE texts \in fullmatch_regex(m.pattern) : TRUE)
        BY <3>1 DEF CompiledAt
      <4> HIDE DEF made
      <4> QED BY <4>1 DEF Regex
    <3>2. CASE m.node \in {"access_all", "access_any"}
      <4>1. made = [m EXCEPT !.flags = @ \cap known]
        BY <3>2 DEF CompiledAt
      <4> HIDE DEF made
      <4> QED BY <2>1, <4>1
    <3>3. CASE m.node \notin {"matches", "access_all", "access_any"}
      <4>1. made = m
        BY <1>2, <3>3 DEF CompiledAt, Connectives
      <4> QED BY <2>1, <4>1
    <3> QED BY <3>1, <3>2, <3>3
  <2> HIDE DEF made
  <2>4. Parts(made) = <<>>
    BY <2>3 DEF Parts
  <2> QED BY <2>2, <2>4 DEF made
<1> QED BY <1>1, <1>2

LEMMA ClassLeavesAgree ==
    ASSUME NEW m, IsCondition("class", m), m.node \notin Connectives, NEW parts, NEW x,
           m.node = "matches" => fullmatch_regex(m.pattern) # {}
    PROVE  CompiledClassLeaf(CompiledAt(ClassFlags, m, parts), x) <=> ClassLeaf(m, x)
<1> DEFINE made == CompiledAt(ClassFlags, m, parts)
<1>1. CASE m.node = "matches"
  <2> DEFINE texts == CHOOSE texts \in fullmatch_regex(m.pattern) : TRUE
  <2>1. m.pattern.wrapped /\ fullmatch_regex(m.pattern) = {m.pattern.whole}
    BY <1>1 DEF fullmatch_regex
  <2>2. texts = m.pattern.whole
    BY <2>1
  <2>3. made = Regex(m, texts)
    BY <1>1 DEF CompiledAt
  <2> HIDE DEF made, texts
  <2>4. made.node = "regex" /\ made.part = m.part /\ made.texts = m.pattern.whole /\ made.kinds = m.kinds
    BY <2>2, <2>3 DEF Regex
  <2>5. \A text : MatchesText(m.pattern, text) <=> text \in m.pattern.whole
    BY <2>1 DEF MatchesText
  <2>6. m.part = "name"
    BY <1>1 DEF IsCondition
  <2>7. ClassLeaf(m, x) <=> MatchesText(m.pattern, x.name)
    BY <1>1 DEF ClassLeaf
  <2>8. CompiledClassLeaf(made, x) <=> x[made.part] \in made.texts
    BY <2>4 DEF CompiledClassLeaf
  <2> QED BY <2>4, <2>5, <2>6, <2>7, <2>8 DEF made
<1>2. CASE m.node \in {"access_all", "access_any"}
  <2>1. made = [m EXCEPT !.flags = @ \cap ClassFlags]
    BY <1>2 DEF CompiledAt
  <2>2. "flags" \in DOMAIN m
    BY <1>2 DEF IsCondition
  <2> HIDE DEF made
  <2>3. made.node = m.node /\ made.flags = m.flags \cap ClassFlags
    BY <2>1, <2>2
  <2>4. CompiledClassLeaf(made, x) <=> ClassLeaf(m, x)
    <3>1. CASE m.node = "access_all"
      BY <2>3, <3>1 DEF CompiledClassLeaf, ClassLeaf
    <3>2. CASE m.node = "access_any"
      BY <2>3, <3>2 DEF CompiledClassLeaf, ClassLeaf
    <3> QED BY <1>2, <3>1, <3>2
  <2> QED BY <2>4 DEF made
<1>3. CASE m.node \notin {"matches", "access_all", "access_any"}
  <2>1. made = m
    BY <1>3 DEF CompiledAt, Connectives
  <2>2. m.node \in Leaves("class") \ {"matches", "access_all", "access_any"}
    BY <1>3 DEF IsCondition
  <2> HIDE DEF made
  <2>3. CompiledClassLeaf(m, x) <=> ClassLeaf(m, x)
    BY <2>2 DEF Leaves, CompiledClassLeaf, ClassLeaf
  <2> QED BY <2>1, <2>3 DEF made
<1> QED BY <1>1, <1>2, <1>3

LEMMA FieldLeavesAgree ==
    ASSUME NEW m, IsCondition("field", m), m.node \notin Connectives, NEW parts, NEW x,
           m.node = "matches" => fullmatch_regex(m.pattern) # {}
    PROVE  CompiledFieldLeaf(CompiledAt(FieldFlags, m, parts), x) <=> FieldLeaf(m, x)
<1> DEFINE made == CompiledAt(FieldFlags, m, parts)
<1>1. CASE m.node = "matches"
  <2> DEFINE texts == CHOOSE texts \in fullmatch_regex(m.pattern) : TRUE
  <2>1. m.pattern.wrapped /\ fullmatch_regex(m.pattern) = {m.pattern.whole}
    BY <1>1 DEF fullmatch_regex
  <2>2. texts = m.pattern.whole
    BY <2>1
  <2>3. made = Regex(m, texts)
    BY <1>1 DEF CompiledAt
  <2> HIDE DEF made, texts
  <2>4. made.node = "regex" /\ made.part = m.part /\ made.texts = m.pattern.whole /\ made.kinds = m.kinds
    BY <2>2, <2>3 DEF Regex
  <2>5. \A text : MatchesText(m.pattern, text) <=> text \in m.pattern.whole
    BY <2>1 DEF MatchesText
  <2>6. FieldLeaf(m, x) <=> MatchesText(m.pattern, x[m.part])
    BY <1>1 DEF FieldLeaf
  <2>7. CompiledFieldLeaf(made, x) <=> x[made.part] \in made.texts
    BY <2>4 DEF CompiledFieldLeaf
  <2> QED BY <2>4, <2>5, <2>6, <2>7 DEF made
<1>2. CASE m.node \in {"access_all", "access_any"}
  <2>1. made = [m EXCEPT !.flags = @ \cap FieldFlags]
    BY <1>2 DEF CompiledAt
  <2>2. "flags" \in DOMAIN m
    BY <1>2 DEF IsCondition
  <2> HIDE DEF made
  <2>3. made.node = m.node /\ made.flags = m.flags \cap FieldFlags
    BY <2>1, <2>2
  <2>4. CompiledFieldLeaf(made, x) <=> FieldLeaf(m, x)
    <3>1. CASE m.node = "access_all"
      BY <2>3, <3>1 DEF CompiledFieldLeaf, FieldLeaf
    <3>2. CASE m.node = "access_any"
      BY <2>3, <3>2 DEF CompiledFieldLeaf, FieldLeaf
    <3> QED BY <1>2, <3>1, <3>2
  <2> QED BY <2>4 DEF made
<1>3. CASE m.node \notin {"matches", "access_all", "access_any"}
  <2>1. made = m
    BY <1>3 DEF CompiledAt, Connectives
  <2>2. m.node \in Leaves("field") \ {"matches", "access_all", "access_any"}
    BY <1>3 DEF IsCondition
  <2> HIDE DEF made
  <2>3. CompiledFieldLeaf(m, x) <=> FieldLeaf(m, x)
    BY <2>2 DEF Leaves, CompiledFieldLeaf, FieldLeaf
  <2> QED BY <2>1, <2>3 DEF made
<1> QED BY <1>1, <1>2, <1>3

LEMMA MethodLeavesAgree ==
    ASSUME NEW m, IsCondition("method", m), m.node \notin Connectives, NEW parts, NEW x,
           m.node = "matches" => fullmatch_regex(m.pattern) # {}
    PROVE  CompiledMethodLeaf(CompiledAt(MethodFlags, m, parts), x) <=> MethodLeaf(m, x)
<1> DEFINE made == CompiledAt(MethodFlags, m, parts)
<1>1. CASE m.node = "matches"
  <2> DEFINE texts == CHOOSE texts \in fullmatch_regex(m.pattern) : TRUE
  <2>1. m.pattern.wrapped /\ fullmatch_regex(m.pattern) = {m.pattern.whole}
    BY <1>1 DEF fullmatch_regex
  <2>2. texts = m.pattern.whole
    BY <2>1
  <2>3. made = Regex(m, texts)
    BY <1>1 DEF CompiledAt
  <2> HIDE DEF made, texts
  <2>4. made.node = "regex" /\ made.part = m.part /\ made.texts = m.pattern.whole /\ made.kinds = m.kinds
    BY <2>2, <2>3 DEF Regex
  <2>5. \A text : MatchesText(m.pattern, text) <=> text \in m.pattern.whole
    BY <2>1 DEF MatchesText
  <2>6. MethodLeaf(m, x) <=> MatchesText(m.pattern, x[m.part])
    BY <1>1 DEF MethodLeaf
  <2>7. CompiledMethodLeaf(made, x) <=> x[made.part] \in made.texts
    BY <2>4 DEF CompiledMethodLeaf
  <2> QED BY <2>4, <2>5, <2>6, <2>7 DEF made
<1>2. CASE m.node \in {"access_all", "access_any"}
  <2>1. made = [m EXCEPT !.flags = @ \cap MethodFlags]
    BY <1>2 DEF CompiledAt
  <2>2. "flags" \in DOMAIN m
    BY <1>2 DEF IsCondition
  <2> HIDE DEF made
  <2>3. made.node = m.node /\ made.flags = m.flags \cap MethodFlags
    BY <2>1, <2>2
  <2>4. CompiledMethodLeaf(made, x) <=> MethodLeaf(m, x)
    <3>1. CASE m.node = "access_all"
      BY <2>3, <3>1 DEF CompiledMethodLeaf, MethodLeaf
    <3>2. CASE m.node = "access_any"
      BY <2>3, <3>2 DEF CompiledMethodLeaf, MethodLeaf
    <3> QED BY <1>2, <3>1, <3>2
  <2> QED BY <2>4 DEF made
<1>3. CASE m.node \notin {"matches", "access_all", "access_any"}
  <2>1. made = m
    BY <1>3 DEF CompiledAt, Connectives
  <2>2. m.node \in Leaves("method") \ {"matches", "access_all", "access_any"}
    BY <1>3 DEF IsCondition
  <2> HIDE DEF made
  <2>3. CompiledMethodLeaf(m, x) <=> MethodLeaf(m, x)
    BY <2>2 DEF Leaves, CompiledMethodLeaf, MethodLeaf
  <2> QED BY <2>1, <2>3 DEF made
<1> QED BY <1>1, <1>2, <1>3

LEMMA InsnLeavesAgree ==
    ASSUME NEW m, IsCondition("insn", m), m.node \notin Connectives, NEW parts, NEW x,
           m.node = "matches" => fullmatch_regex(m.pattern) # {}
    PROVE  CompiledInsnLeaf(CompiledAt({}, m, parts), x) <=> InsnLeaf(m, x)
<1> DEFINE made == CompiledAt({}, m, parts)
<1>1. CASE m.node = "matches"
  <2> DEFINE texts == CHOOSE texts \in fullmatch_regex(m.pattern) : TRUE
  <2>1. m.pattern.wrapped /\ fullmatch_regex(m.pattern) = {m.pattern.whole}
    BY <1>1 DEF fullmatch_regex
  <2>2. texts = m.pattern.whole
    BY <2>1
  <2>3. made = Regex(m, texts)
    BY <1>1 DEF CompiledAt
  <2> HIDE DEF made, texts
  <2>4. made.node = "regex" /\ made.part = m.part /\ made.texts = m.pattern.whole /\ made.kinds = m.kinds
    BY <2>2, <2>3 DEF Regex
  <2>5. \A text : MatchesText(m.pattern, text) <=> text \in m.pattern.whole
    BY <2>1 DEF MatchesText
  <2>6. InsnLeaf(m, x) <=> x.k \in m.kinds /\ MatchesText(m.pattern, x[m.part])
    BY <1>1 DEF InsnLeaf
  <2>7. CompiledInsnLeaf(made, x) <=> x.k \in made.kinds /\ x[made.part] \in made.texts
    BY <2>4 DEF CompiledInsnLeaf
  <2> QED BY <2>4, <2>5, <2>6, <2>7 DEF made
<1>2. CASE m.node \notin {"matches", "access_all", "access_any"}
  <2>1. made = m
    BY <1>2 DEF CompiledAt, Connectives
  <2>2. m.node \in Leaves("insn") \ {"matches", "access_all", "access_any"}
    BY <1>2 DEF IsCondition
  <2> HIDE DEF made
  <2>3. CompiledInsnLeaf(m, x) <=> InsnLeaf(m, x)
    BY <2>2 DEF Leaves, CompiledInsnLeaf, InsnLeaf
  <2> QED BY <2>1, <2>3 DEF made
<1>3. m.node \notin {"access_all", "access_any"}
  <2>1. m.node \in Leaves("insn")
    BY DEF IsCondition
  <2> QED BY <2>1 DEF Leaves
<1> QED BY <1>1, <1>2, <1>3

Kinds == {"class", "field", "method", "insn"}

LEMMA LeavesAgree ==
    ASSUME NEW of \in Kinds, NEW m, IsCondition(of, m), m.node \notin Connectives, NEW parts, NEW x,
           m.node = "matches" => fullmatch_regex(m.pattern) # {}
    PROVE  CompiledLeaf(of, CompiledAt(Known(of), m, parts), x) <=> Leaf(of, m, x)
<1>1. CASE of = "class"
  BY <1>1, ClassLeavesAgree DEF CompiledLeaf, Leaf, Known
<1>2. CASE of = "field"
  BY <1>2, FieldLeavesAgree DEF CompiledLeaf, Leaf, Known
<1>3. CASE of = "method"
  BY <1>3, MethodLeavesAgree DEF CompiledLeaf, Leaf, Known
<1>4. CASE of = "insn"
  BY <1>4, InsnLeavesAgree DEF CompiledLeaf, Leaf, Known
<1> QED BY <1>1, <1>2, <1>3, <1>4 DEF Kinds

LEMMA NodesAgree ==
    ASSUME NEW of \in Kinds, NEW m, IsCondition(of, m), NEW parts, NEW x,
           m.node = "matches" => fullmatch_regex(m.pattern) # {},
           NEW h, NEW g, DOMAIN h = DOMAIN Parts(m), DOMAIN g = DOMAIN Parts(m),
           \A i \in DOMAIN Parts(m) : g[i] <=> h[i]
    PROVE  CompiledMatchesAt(of, x, CompiledAt(Known(of), m, parts), g) <=> MatchesAt(of, x, m, h)
<1> DEFINE made == CompiledAt(Known(of), m, parts)
<1>1. CASE m.node \in Connectives
  <2>1. "of" \in DOMAIN m /\ "transform" \notin DOMAIN m /\ m.of \in Seq(Range(m.of)) /\ (m.node = "not" => Len(m.of) = 1)
    BY <1>1 DEF IsCondition
  <2>2. Parts(m) = m.of
    BY <2>1 DEF Parts
  <2>3. m.node = "not" => 1 \in DOMAIN Parts(m)
    BY <2>1, <2>2
  <2>4. made = [m EXCEPT !.of = parts]
    BY <1>1 DEF CompiledAt, Connectives
  <2> HIDE DEF made
  <2>5. made.node = m.node
    BY <2>1, <2>4
  <2>6. CASE m.node = "and"
    <3>1. CompiledMatchesAt(of, x, made, g) <=> \A i \in DOMAIN g : g[i]
      BY <2>5, <2>6 DEF CompiledMatchesAt
    <3>2. MatchesAt(of, x, m, h) <=> \A i \in DOMAIN h : h[i]
      BY <2>6 DEF MatchesAt
    <3> QED BY <3>1, <3>2, Zenon DEF made
  <2>7. CASE m.node = "or"
    <3>1. CompiledMatchesAt(of, x, made, g) <=> \E i \in DOMAIN g : g[i]
      BY <2>5, <2>7 DEF CompiledMatchesAt
    <3>2. MatchesAt(of, x, m, h) <=> \E i \in DOMAIN h : h[i]
      BY <2>7 DEF MatchesAt
    <3> QED BY <3>1, <3>2, Zenon DEF made
  <2>8. CASE m.node = "not"
    <3>1. CompiledMatchesAt(of, x, made, g) <=> ~g[1]
      BY <2>5, <2>8 DEF CompiledMatchesAt
    <3>2. MatchesAt(of, x, m, h) <=> ~h[1]
      BY <2>8 DEF MatchesAt
    <3> QED BY <2>3, <2>8, <3>1, <3>2, Zenon DEF made
  <2> QED BY <1>1, <2>6, <2>7, <2>8 DEF Connectives, made
<1>2. CASE m.node \notin Connectives
  <2>1. made.node \notin Connectives
    <3>1. CASE m.node = "matches"
      <4>1. made = Regex(m, CHOOSE texts \in fullmatch_regex(m.pattern) : TRUE)
        BY <3>1 DEF CompiledAt
      <4> HIDE DEF made
      <4> QED BY <4>1 DEF Regex, Connectives
    <3>2. CASE m.node \in {"access_all", "access_any"}
      <4>1. made = [m EXCEPT !.flags = @ \cap Known(of)]
        BY <3>2 DEF CompiledAt
      <4>2. "node" \in DOMAIN m
        BY DEF IsCondition
      <4> HIDE DEF made
      <4>3. made.node = m.node
        BY <4>1, <4>2
      <4> QED BY <1>2, <4>3
    <3>3. CASE m.node \notin {"matches", "access_all", "access_any"}
      <4>1. made = m
        BY <1>2, <3>3 DEF CompiledAt, Connectives
      <4> QED BY <1>2, <4>1
    <3> QED BY <3>1, <3>2, <3>3
  <2>2. CompiledLeaf(of, made, x) <=> Leaf(of, m, x)
    BY <1>2, LeavesAgree
  <2> HIDE DEF made
  <2>3. CompiledMatchesAt(of, x, made, g) = CompiledLeaf(of, made, x)
    BY <2>1 DEF CompiledMatchesAt, Connectives
  <2>4. MatchesAt(of, x, m, h) = Leaf(of, m, x)
    BY <1>2 DEF MatchesAt, Connectives
  <2> QED BY <2>2, <2>3, <2>4 DEF made
<1> QED BY <1>1, <1>2

-----------------------------------------------------------------------------
(* Whole trees, and pipelines of them. *)

LEMMA CompilesThroughout ==
    ASSUME NEW of, NEW tree, IsMatcher(of, tree), Compiles(tree)
    PROVE  \A way \in Ways(tree) :
              Subtree(tree, way).node = "matches" => fullmatch_regex(Subtree(tree, way).pattern) # {}
<1>1. Ends(tree) /\ \A way \in Ways(tree) : IsCondition(of, Subtree(tree, way))
  BY MatchersEnd
<1>2. PICK v : IsFold(tree, "compiles", 0, 0, v) /\ Compiles(tree) = v[<<>>]
  BY <1>1, CompilesIs
<1>3. \A way \in Ways(tree) : v[way] = CompilesAt(Subtree(tree, way), Below(tree, way, v))
  BY <1>2 DEF IsFold, FoldAt
<1> DEFINE T == {way \in Ways(tree) : v[way]}
<1>4. <<>> \in T
  BY <1>2, WaysFacts
<1>5. ASSUME NEW way \in Ways(tree), NEW i \in Nat, way \in T, Append(way, i) \in Ways(tree)
      PROVE  Append(way, i) \in T
  <2> DEFINE m == Subtree(tree, way)
  <2>1. way \in Seq(Nat) /\ i \in DOMAIN Parts(m)
    BY <1>5, WaysFacts
  <2>2. m.node \in Connectives
    <3> SUFFICES ASSUME m.node \notin Connectives PROVE FALSE
      OBVIOUS
    <3>1. IsCondition(of, m)
      BY <1>1
    <3> HIDE DEF m
    <3>2. "of" \notin DOMAIN m /\ "transform" \notin DOMAIN m
      BY <3>1 DEF IsCondition
    <3>3. Parts(m) = <<>>
      BY <3>2 DEF Parts
    <3> QED BY <2>1, <3>3
  <2>3. CompilesAt(m, Below(tree, way, v))
    BY <1>3, <1>5
  <2>4. \A j \in DOMAIN Below(tree, way, v) : Below(tree, way, v)[j]
    <3> HIDE DEF m
    <3> QED BY <2>2, <2>3 DEF CompilesAt, Connectives
  <2>5. i \in DOMAIN Below(tree, way, v) /\ Below(tree, way, v)[i] = v[Append(way, i)]
    BY <2>1 DEF Below
  <2>6. v[Append(way, i)]
    BY <2>4, <2>5, Zenon
  <2> QED BY <1>5, <2>6
<1> HIDE DEF T
<1>6. Ways(tree) \subseteq T
  BY <1>4, <1>5, FromTheRoot
<1>7. ASSUME NEW way \in Ways(tree), Subtree(tree, way).node = "matches"
      PROVE  fullmatch_regex(Subtree(tree, way).pattern) # {}
  <2>1. CompilesAt(Subtree(tree, way), Below(tree, way, v))
    BY <1>3, <1>6 DEF T
  <2> QED BY <1>7, <2>1 DEF CompilesAt
<1> QED BY <1>7

\* The tree that is compiled has the ways of the one it is made of.
LEMMA CompiledTree ==
    ASSUME NEW of, NEW tree, IsMatcher(of, tree), NEW known
    PROVE  LET made == Compiled(known, tree)
           IN  /\ Ends(made) /\ Ways(made) = Ways(tree)
               /\ \A way \in Ways(tree) : \E parts :
                    Subtree(made, way) = CompiledAt(known, Subtree(tree, way), parts)
               /\ \A way \in Ways(tree) : DOMAIN Parts(Subtree(made, way)) = DOMAIN Parts(Subtree(tree, way))
<1> DEFINE made == Compiled(known, tree)
<1>1. Ends(tree) /\ \A way \in Ways(tree) : IsCondition(of, Subtree(tree, way))
  BY MatchersEnd
<1>2. PICK c : IsFold(tree, "compiled", known, 0, c) /\ made = c[<<>>]
  BY <1>1, CompiledIs
<1> HIDE DEF made
<1>3. \A way \in Ways(tree) : c[way] = CompiledAt(known, Subtree(tree, way), Below(tree, way, c))
  BY <1>2 DEF IsFold, FoldAt
<1>4. ASSUME NEW way \in Ways(tree)
      PROVE  /\ DOMAIN Parts(c[way]) = DOMAIN Parts(Subtree(tree, way))
             /\ \A i \in DOMAIN Parts(Subtree(tree, way)) : Parts(c[way])[i] = c[Append(way, i)]
  <2>1. DOMAIN Below(tree, way, c) = DOMAIN Parts(Subtree(tree, way))
    BY DEF Below
  <2>2. \A i \in DOMAIN Parts(Subtree(tree, way)) : Below(tree, way, c)[i] = c[Append(way, i)]
    BY DEF Below
  <2> QED BY <1>1, <1>3, <2>1, <2>2, PartsOfNodes
<1>5. <<>> \in Ways(tree) /\ <<>> \in Ways(made) /\ Ways(tree) \subseteq Seq(Nat) /\ Ways(made) \subseteq Seq(Nat)
  BY WaysFacts
<1> DEFINE T == {way \in Ways(tree) : way \in Ways(made) /\ Subtree(made, way) = c[way]}
<1>6. <<>> \in T
  <2>1. Subtree(made, <<>>) = made
    BY SubtreeFacts, <1>5
  <2> QED BY <1>2, <1>5, <2>1
<1>7. ASSUME NEW way \in Ways(tree), NEW i \in Nat, way \in T, Append(way, i) \in Ways(tree)
      PROVE  Append(way, i) \in T
  <2>1. way \in Seq(Nat) /\ way \in Ways(made) /\ Subtree(made, way) = c[way]
    BY <1>5, <1>7
  <2>2. i \in DOMAIN Parts(Subtree(tree, way))
    BY <1>7, <2>1, WaysFacts
  <2>3. i \in DOMAIN Parts(c[way]) /\ Parts(c[way])[i] = c[Append(way, i)]
    BY <1>4, <2>2
  <2>4. Append(way, i) \in Ways(made)
    BY <2>1, <2>3, WaysFacts
  <2>5. Subtree(made, Append(way, i)) = Parts(Subtree(made, way))[i]
    BY <2>1, SubtreeFacts
  <2> QED BY <1>7, <2>1, <2>3, <2>4, <2>5
<1> HIDE DEF T
<1>8. Ways(tree) \subseteq T
  BY <1>6, <1>7, FromTheRoot
<1>9. \A way \in Ways(tree) : way \in Ways(made) /\ Subtree(made, way) = c[way]
  BY <1>8 DEF T
<1>10. ASSUME NEW way \in Ways(made), NEW i \in Nat, way \in Ways(tree), Append(way, i) \in Ways(made)
       PROVE  Append(way, i) \in Ways(tree)
  <2>1. way \in Seq(Nat)
    BY <1>5
  <2>2. i \in DOMAIN Parts(c[way])
    BY <1>9, <1>10, <2>1, WaysFacts
  <2>3. i \in DOMAIN Parts(Subtree(tree, way))
    BY <1>4, <1>10, <2>2
  <2> QED BY <1>10, <2>1, <2>3, WaysFacts
<1>11. Ways(made) \subseteq Ways(tree)
  BY <1>5, <1>10, FromTheRoot
<1>12. Ways(made) = Ways(tree)
  BY <1>9, <1>11
<1>13. Ends(made)
  <2>1. PICK deep \in Nat :
          \A way \in Ways(tree) : Len(way) \in 0..deep /\ DOMAIN Parts(Subtree(tree, way)) \subseteq Nat
    BY <1>1 DEF Ends
  <2>2. \A way \in Ways(made) : Len(way) \in 0..deep /\ DOMAIN Parts(Subtree(made, way)) \subseteq Nat
    BY <1>4, <1>9, <1>12, <2>1
  <2> QED BY <2>2 DEF Ends
<1>14. \A way \in Ways(tree) : \E parts : Subtree(made, way) = CompiledAt(known, Subtree(tree, way), parts)
  BY <1>3, <1>9
<1>15. \A way \in Ways(tree) : DOMAIN Parts(Subtree(made, way)) = DOMAIN Parts(Subtree(tree, way))
  BY <1>4, <1>9
<1> QED BY <1>12, <1>13, <1>14, <1>15 DEF made

\* A condition that compiles says, compiled, of everything what it says interpreted.
LEMMA CompiledMeansTheSame ==
    ASSUME NEW of \in Kinds, NEW tree, IsMatcher(of, tree), Compiles(tree), NEW x
    PROVE  CompiledMatches(of, Compiled(Known(of), tree), x) <=> Matches(of, tree, x)
<1> DEFINE made == Compiled(Known(of), tree)
<1>1. Ends(tree) /\ \A way \in Ways(tree) : IsCondition(of, Subtree(tree, way))
  BY MatchersEnd
<1>2. \A way \in Ways(tree) :
        Subtree(tree, way).node = "matches" => fullmatch_regex(Subtree(tree, way).pattern) # {}
  BY CompilesThroughout
<1>3. /\ Ends(made) /\ Ways(made) = Ways(tree)
      /\ \A way \in Ways(tree) : \E parts : Subtree(made, way) = CompiledAt(Known(of), Subtree(tree, way), parts)
      /\ \A way \in Ways(tree) : DOMAIN Parts(Subtree(made, way)) = DOMAIN Parts(Subtree(tree, way))
  BY CompiledTree
<1> HIDE DEF made
<1>4. PICK h : IsFold(tree, "matches", of, x, h) /\ Matches(of, tree, x) = h[<<>>]
  BY <1>1, MatchesIs
<1>5. PICK g : IsFold(made, "compiled matches", of, x, g) /\ CompiledMatches(of, made, x) = g[<<>>]
  BY <1>3, CompiledMatchesIs
<1>6. \A way \in Ways(tree) : h[way] = MatchesAt(of, x, Subtree(tree, way), Below(tree, way, h))
  BY <1>4 DEF IsFold, FoldAt
<1>7. \A way \in Ways(tree) : g[way] = CompiledMatchesAt(of, x, Subtree(made, way), Below(made, way, g))
  BY <1>3, <1>5 DEF IsFold, FoldAt
<1> DEFINE T == {way \in Ways(tree) : g[way] <=> h[way]}
<1>8. ASSUME NEW way \in Ways(tree),
             \A i \in Nat : Append(way, i) \in Ways(tree) => Append(way, i) \in T
      PROVE  way \in T
  <2> DEFINE H == Below(tree, way, h)
             G == Below(made, way, g)
             m == Subtree(tree, way)
  <2>1. way \in Seq(Nat) /\ DOMAIN Parts(m) \subseteq Nat
    BY <1>1, WaysFacts DEF Ends
  <2>2. DOMAIN H = DOMAIN Parts(m) /\ DOMAIN G = DOMAIN Parts(m)
    BY <1>3 DEF Below
  <2>3. \A i \in DOMAIN Parts(m) : H[i] = h[Append(way, i)] /\ G[i] = g[Append(way, i)]
    BY <1>3 DEF Below
  <2>4. \A i \in DOMAIN Parts(m) : g[Append(way, i)] <=> h[Append(way, i)]
    <3> TAKE i \in DOMAIN Parts(m)
    <3>1. Append(way, i) \in Ways(tree)
      BY <2>1, WaysFacts
    <3>2. Append(way, i) \in T
      BY <1>8, <2>1, <3>1
    <3> QED BY <3>2
  <2>5. \A i \in DOMAIN Parts(m) : G[i] <=> H[i]
    <3> HIDE DEF G, H, m
    <3> QED BY <2>3, <2>4, Zenon
  <2>6. PICK parts : Subtree(made, way) = CompiledAt(Known(of), m, parts)
    BY <1>3
  <2>7. IsCondition(of, m) /\ (m.node = "matches" => fullmatch_regex(m.pattern) # {})
    BY <1>1, <1>2
  <2> HIDE DEF G, H, m
  <2>8. CompiledMatchesAt(of, x, CompiledAt(Known(of), m, parts), G) <=> MatchesAt(of, x, m, H)
    BY <2>2, <2>5, <2>7, NodesAgree
  <2>9. g[way] <=> h[way]
    BY <1>6, <1>7, <2>6, <2>8 DEF G, H, m
  <2> QED BY <2>9
<1> HIDE DEF T
<1>9. Ways(tree) \subseteq T
  BY <1>1, <1>8, FromTheLeaves
<1>10. g[<<>>] <=> h[<<>>]
  BY <1>9, WaysFacts DEF T
<1> QED BY <1>4, <1>5, <1>10 DEF made

\* A pipeline that runs has been compiled whole.
PipelineInvariant ==
    /\ \E r \in DOMAIN Requests : job = Requests[r].job
    /\ status = "running" /\ job.kind = "pipeline" => \A i \in DOMAIN job.steps : StepCompiles(job.steps[i])

LEMMA InitPipeline == Init => PipelineInvariant
  BY DEF Init, PipelineInvariant

LEMMA StepKeepsPipeline == PipelineInvariant /\ [Next]_vars => PipelineInvariant'
<1> SUFFICES ASSUME PipelineInvariant, [Next]_vars PROVE PipelineInvariant'
  OBVIOUS
<1>1. CASE Load
  <2>1. job' = job
    BY <1>1 DEF Load
  <2>2. status' = "running" /\ job.kind = "pipeline" => \A i \in DOMAIN job.steps : StepCompiles(job.steps[i])
    BY <1>1 DEF Load
  <2> QED BY <2>1, <2>2 DEF PipelineInvariant
<1>2. CASE job' = job /\ (status' = "running" => status = "running")
  BY <1>2 DEF PipelineInvariant
<1>3. CASE TakeClass
  BY <1>2, <1>3 DEF TakeClass
<1>4. CASE PatchStep
  BY <1>2, <1>4 DEF PatchStep, HasStep, Working
<1>5. CASE PipelineStep
  BY <1>2, <1>5 DEF PipelineStep, HasStep, Working
<1>6. CASE ClosureStep
  BY <1>2, <1>6 DEF ClosureStep, HasStep, Working
<1>7. CASE CallbackStep
  BY <1>2, <1>7 DEF CallbackStep, HasStep, Working
<1>8. CASE SkipMethod
  BY <1>2, <1>8 DEF SkipMethod
<1>9. CASE RemoveNops
  BY <1>2, <1>9 DEF RemoveNops
<1>10. CASE Round
  BY <1>2, <1>10 DEF Round
<1>11. CASE FinishClass
  BY <1>2, <1>11 DEF FinishClass, Working
<1>12. CASE Write
  BY <1>2, <1>12 DEF Write
<1>13. CASE UNCHANGED vars
  BY <1>2, <1>13 DEF vars
<1> QED
  BY <1>1, <1>3, <1>4, <1>5, <1>6, <1>7, <1>8, <1>9, <1>10, <1>11, <1>12, <1>13 DEF Next

LEMMA PipelineInvariance == Spec => []PipelineInvariant
<1>1. Init => PipelineInvariant
  BY InitPipeline
<1>2. PipelineInvariant /\ [Next]_vars => PipelineInvariant'
  BY StepKeepsPipeline
<1> QED BY <1>1, <1>2, PTL DEF Spec

LEMMA StepSaysTheSame ==
    ASSUME PipelineInvariant, Working, job.kind = "pipeline", NEW i \in DOMAIN job.steps, NEW x
    PROVE  LET given == job.steps[i]
               made == compile(given)
               of == IF given.on = "field" THEN "field" ELSE "method"
           IN  /\ CompiledMatches("class", made.owner, x) <=> Matches("class", given.owner, x)
               /\ given.on # "class" => (CompiledMatches(of, made.member, x) <=> Matches(of, given.member, x))
               /\ \A m \in InsnMatchers(given.action) :
                    Compiles(m) => (CompiledMatches("insn", CompiledInsn(m), x) <=> Matches("insn", m, x))
<1> DEFINE given == job.steps[i]
           made == compile(given)
           of == IF given.on = "field" THEN "field" ELSE "method"
<1>1. Compiles(given.owner) /\ Compiles(given.member)
  BY DEF PipelineInvariant, Working, StepCompiles
<1>2. /\ {"on", "owner", "member"} \subseteq DOMAIN given
      /\ given.on \in {"class", "field", "method", "code"}
      /\ IsMatcher("class", given.owner)
      /\ given.on # "class" => IsMatcher(of, given.member)
      /\ \A m \in InsnMatchers(given.action) : IsMatcher("insn", m)
  BY PipelinesAreTyped DEF PipelineInvariant
<1> HIDE DEF given
<1>3. made.owner = Compiled(Known("class"), given.owner)
  BY <1>2 DEF compile, CompiledClass, Known
<1>4. given.on # "class" => made.member = Compiled(Known(of), given.member)
  <2>1. CASE given.on = "field"
    BY <1>2, <2>1 DEF compile, CompiledField, Known
  <2>2. CASE given.on \in {"method", "code"}
    BY <1>2, <2>2 DEF compile, CompiledMethod, Known
  <2> QED BY <1>2, <2>1, <2>2
<1> HIDE DEF made
<1>5. of \in Kinds /\ "class" \in Kinds /\ "insn" \in Kinds
  BY DEF Kinds
<1> HIDE DEF of
<1>6. CompiledMatches("class", made.owner, x) <=> Matches("class", given.owner, x)
  BY <1>1, <1>2, <1>3, <1>5, CompiledMeansTheSame
<1>7. given.on # "class" => (CompiledMatches(of, made.member, x) <=> Matches(of, given.member, x))
  BY <1>1, <1>2, <1>4, <1>5, CompiledMeansTheSame
<1>8. ASSUME NEW m \in InsnMatchers(given.action), Compiles(m)
      PROVE  CompiledMatches("insn", CompiledInsn(m), x) <=> Matches("insn", m, x)
  <2>1. CompiledInsn(m) = Compiled(Known("insn"), m)
    BY DEF CompiledInsn, Known
  <2> QED BY <1>2, <1>5, <1>8, <2>1, CompiledMeansTheSame
<1> QED BY <1>6, <1>7, <1>8 DEF given, made, of

\* Whatever trees a pipeline is given: while it runs, each condition says compiled of every
\* class, member and instruction what it says interpreted (matcher_spec.rs).
THEOREM CompiledAlwaysSaysTheSame == Spec => []CompiledSaysTheSame
<1>1. PipelineInvariant => CompiledSaysTheSame
  BY StepSaysTheSame DEF CompiledSaysTheSame
<1> QED BY <1>1, PipelineInvariance, PTL

-----------------------------------------------------------------------------
(* A rule and the transform of the same name. *)

LEMMA LeafEnds ==
    ASSUME NEW t, DOMAIN t \cap {"of", "transform"} = {}
    PROVE  Ways(t) = {<<>>} /\ Ends(t) /\ Subtree(t, <<>>) = t
<1>1. Parts(t) = <<>>
  BY DEF Parts
<1>2. <<>> \in Ways(t) /\ Ways(t) \subseteq Seq(Nat)
  BY WaysFacts
<1>3. Subtree(t, <<>>) = t
  BY <1>2, SubtreeFacts
<1> DEFINE T == {<<>>}
<1>4. ASSUME NEW way \in Ways(t), NEW i \in Nat, way \in T, Append(way, i) \in Ways(t) PROVE Append(way, i) \in T
  <2>1. i \in DOMAIN Parts(Subtree(t, <<>>))
    BY <1>2, <1>4, WaysFacts
  <2> QED BY <1>1, <1>3, <2>1
<1>5. Ways(t) \subseteq T
  <2> HIDE DEF T
  <2> QED BY <1>4, FromTheRoot DEF T
<1>6. Ends(t)
  <2>1. \A way \in Ways(t) : Len(way) \in 0..0 /\ DOMAIN Parts(Subtree(t, way)) \subseteq Nat
    BY <1>1, <1>3, <1>5
  <2> QED BY <2>1 DEF Ends
<1> QED BY <1>2, <1>3, <1>5, <1>6

LEMMA LeafIsFlat ==
    ASSUME NEW t, DOMAIN t \cap {"of", "transform"} = {}, t.do # "sequence", NEW class
    PROVE  ClassApply(t, class) = ClassStep(t, class)
<1>1. Flat(t) = <<t>>
  <2>1. PICK f : IsFold(t, "flat", 0, 0, f) /\ Flat(t) = f[<<>>]
    BY LeafEnds, FlatIs
  <2>2. f[<<>>] = FlatAt(t, Below(t, <<>>, f))
    BY <2>1, LeafEnds DEF IsFold, FoldAt
  <2> QED BY <2>1, <2>2 DEF FlatAt
<1> DEFINE steps == <<t>>
           after == CHOOSE after : after = [n \in 0..Len(steps) |-> IF n = 0 THEN class ELSE ClassStep(steps[n], after[n - 1])]
           both == [n \in 0..1 |-> IF n = 0 THEN class ELSE ClassStep(t, class)]
<1>2. Len(steps) = 1 /\ steps[1] = t
  OBVIOUS
<1>3. \E g : g = [n \in 0..Len(steps) |-> IF n = 0 THEN class ELSE ClassStep(steps[n], g[n - 1])]
  <2> HIDE DEF steps
  <2>1. \A n \in 0..1 : (IF n = 0 THEN class ELSE ClassStep(t, class)) = (IF n = 0 THEN class ELSE ClassStep(steps[n], both[n - 1]))
    BY <1>2
  <2>2. both = [n \in 0..Len(steps) |-> IF n = 0 THEN class ELSE ClassStep(steps[n], both[n - 1])]
    BY <1>2, <2>1
  <2> HIDE DEF both
  <2> QED BY <2>2
<1>4. after = [n \in 0..Len(steps) |-> IF n = 0 THEN class ELSE ClassStep(steps[n], after[n - 1])]
  BY <1>3
<1>5. ClassSteps(steps, class) = after[Len(steps)]
  BY DEF ClassSteps
<1> HIDE DEF after, steps
<1>6. after[0] = class /\ after[1] = ClassStep(steps[1], after[1 - 1])
  BY <1>2, <1>4
<1>7. 1 - 1 = 0
  OBVIOUS
<1> QED BY <1>1, <1>2, <1>5, <1>6, <1>7 DEF ClassApply, steps

LEMMA AllOfOne == ASSUME NEW leaf PROVE All({leaf}) = And(<<leaf>>)
<1>1. Cardinality({leaf}) = 1
  BY FS_Singleton
<1>2. \A f \in [1..1 -> {leaf}] : f = <<leaf>>
  OBVIOUS
<1>3. <<leaf>> \in [1..1 -> {leaf}] /\ IsInjective(<<leaf>>)
  BY DEF IsInjective
<1>4. SetToSeq({leaf}) = <<leaf>>
  BY <1>1, <1>2, <1>3 DEF SetToSeq
<1> QED BY <1>4 DEF All, all_of

\* A criterion on the name alone compares names.
LEMMA NameMatches ==
    ASSUME NEW of \in {"field", "method"}, NEW name, NEW x
    PROVE  CompiledMatches(of, And(<<Is("name", name)>>), x) <=> x.name = name
<1> DEFINE leaf == Is("name", name)
           tree == And(<<leaf>>)
<1>1. DOMAIN leaf \cap {"of", "transform"} = {} /\ leaf.node = "is" /\ leaf.part = "name" /\ leaf.value = name
  BY DEF Is
<1>2. DOMAIN tree \cap {"of", "transform"} = {"of"} /\ tree.node = "and" /\ tree.of = <<leaf>>
  BY DEF And
<1> HIDE DEF leaf, tree
<1>3. Parts(leaf) = <<>>
  BY <1>1 DEF Parts
<1>4. Parts(tree) = <<leaf>>
  BY <1>2 DEF Parts
<1>5. <<>> \in Ways(tree) /\ Ways(tree) \subseteq Seq(Nat) /\ <<>> \in Seq(Nat) /\ 1 \in Nat /\ Append(<<>>, 1) = <<1>>
  BY WaysFacts
<1>6. Subtree(tree, <<>>) = tree /\ Subtree(tree, <<1>>) = leaf
  <2>1. Subtree(tree, <<>>) = tree /\ Subtree(tree, Append(<<>>, 1)) = Parts(Subtree(tree, <<>>))[1]
    BY <1>5, SubtreeFacts
  <2> QED BY <1>4, <1>5, <2>1
<1>7. <<1>> \in Ways(tree)
  <2>1. 1 \in DOMAIN Parts(Subtree(tree, <<>>))
    BY <1>4, <1>6
  <2>2. Append(<<>>, 1) \in Ways(tree)
    BY <1>5, <2>1, WaysFacts
  <2> QED BY <1>5, <2>2
<1> DEFINE T == {<<>>, <<1>>}
<1>8. ASSUME NEW way \in Ways(tree), NEW i \in Nat, way \in T, Append(way, i) \in Ways(tree) PROVE Append(way, i) \in T
  <2>1. i \in DOMAIN Parts(Subtree(tree, way))
    BY <1>5, <1>8, WaysFacts
  <2>2. way # <<1>>
    BY <1>3, <1>6, <2>1
  <2>3. way = <<>> /\ i = 1
    BY <1>4, <1>6, <1>8, <2>1, <2>2
  <2> QED BY <1>5, <2>3
<1>9. Ways(tree) \subseteq T
  <2> HIDE DEF T
  <2> QED BY <1>8, FromTheRoot DEF T
<1>10. Ends(tree)
  <2>1. \A way \in T : Len(way) \in 0..1 /\ DOMAIN Parts(Subtree(tree, way)) \subseteq Nat
    BY <1>3, <1>4, <1>6
  <2>2. \A way \in Ways(tree) : Len(way) \in 0..1 /\ DOMAIN Parts(Subtree(tree, way)) \subseteq Nat
    BY <1>9, <2>1
  <2> QED BY <2>2 DEF Ends
<1>11. PICK f : IsFold(tree, "compiled matches", of, x, f) /\ CompiledMatches(of, tree, x) = f[<<>>]
  BY <1>10, CompiledMatchesIs
<1>12. \A way \in Ways(tree) : f[way] = CompiledMatchesAt(of, x, Subtree(tree, way), Below(tree, way, f))
  BY <1>11 DEF IsFold, FoldAt
<1>13. f[<<1>>] <=> x.name = name
  <2>1. f[<<1>>] = CompiledLeaf(of, leaf, x)
    BY <1>1, <1>6, <1>7, <1>12 DEF CompiledMatchesAt
  <2>2. CompiledLeaf(of, leaf, x) <=> x.name = name
    BY <1>1 DEF CompiledLeaf, CompiledFieldLeaf, CompiledMethodLeaf
  <2> QED BY <2>1, <2>2
<1>14. f[<<>>] <=> f[<<1>>]
  <2> DEFINE below == Below(tree, <<>>, f)
  <2>1. DOMAIN below = {1} /\ below[1] = f[<<1>>]
    BY <1>4, <1>5, <1>6 DEF Below
  <2> HIDE DEF below
  <2>2. f[<<>>] = CompiledMatchesAt(of, x, tree, below)
    BY <1>5, <1>6, <1>12 DEF below
  <2>3. CompiledMatchesAt(of, x, tree, below) <=> \A i \in DOMAIN below : below[i]
    BY <1>2 DEF CompiledMatchesAt
  <2> QED BY <2>1, <2>2, <2>3
<1> QED BY <1>11, <1>13, <1>14 DEF leaf, tree

AreRecords(members) == members \in Seq(Range(members)) /\ \A x \in Range(members) : IsRecord(x)

Stands(class) ==
    {"fields", "methods"} \subseteq DOMAIN class /\ AreRecords(class.fields) /\ AreRecords(class.methods)

LEMMA EditedIsRecord ==
    ASSUME NEW x, NEW a, a.do \in MemberActions \ {"remove"} PROVE IsRecord(Edited(x, a))
<1>1. CASE a.do = "rename"
  BY <1>1 DEF Edited, IsRecord
<1>2. CASE a.do = "add_access_flags"
  BY <1>2 DEF Edited, IsRecord
<1>3. CASE a.do = "remove_access_flags"
  BY <1>3 DEF Edited, IsRecord
<1>4. CASE a.do = "set_access_flags"
  BY <1>4 DEF Edited, IsRecord
<1> QED BY <1>1, <1>2, <1>3, <1>4 DEF MemberActions

LEMMA NewRecords ==
    ASSUME NEW members, AreRecords(members), NEW new, new = [i \in DOMAIN members |-> new[i]],
           \A i \in DOMAIN members : IsRecord(new[i])
    PROVE  AreRecords(new)
<1>1. Len(members) \in Nat /\ DOMAIN members = 1..Len(members)
  BY DEF AreRecords
<1>2. Range(new) = {new[i] : i \in 1..Len(members)}
  BY <1>1 DEF Range
<1>3. new \in [1..Len(members) -> Range(new)]
  BY <1>1, <1>2
<1>4. new \in Seq(Range(new))
  BY <1>1, <1>3, SeqDef
<1> QED BY <1>1, <1>2, <1>4 DEF AreRecords

LEMMA KeptRecords == ASSUME NEW members, AreRecords(members), NEW hits PROVE AreRecords(Kept(members, hits))
<1>1. Kept(members, hits) \in Seq(Range(members))
  BY KeptIsList DEF AreRecords
<1> QED BY <1>1, OwnRange DEF AreRecords

LEMMA MembersStand ==
    ASSUME NEW of, NEW members, AreRecords(members), NEW m, NEW a, a.do \in MemberActions \cup {"nothing"}
    PROVE  AreRecords(Members(of, members, m, a).class)
<1> DEFINE hit == {i \in DOMAIN members : CompiledMatches(of, m, members[i])}
           new == [i \in DOMAIN members |->
                     IF i \in hit /\ Changes(members[i], a) THEN Edited(members[i], a) ELSE members[i]]
<1>1. CASE a.do = "nothing"
  <2>1. Members(of, members, m, a).class = members
    BY <1>1 DEF Members, Outcome
  <2> QED BY <2>1
<1>2. CASE a.do = "remove"
  <2>1. Members(of, members, m, a).class = Kept(members, DOMAIN members \ hit)
    BY <1>2 DEF Members, Outcome
  <2> HIDE DEF hit
  <2> QED BY <2>1, KeptRecords
<1>3. CASE a.do \in MemberActions \ {"remove"}
  <2>1. Members(of, members, m, a).class = new
    BY <1>3 DEF Members, Outcome, MemberActions
  <2> HIDE DEF hit
  <2>2. ASSUME NEW i \in DOMAIN members PROVE IsRecord(new[i])
    <3>1. IsRecord(members[i])
      BY DEF AreRecords, Range
    <3> QED BY <1>3, <3>1, EditedIsRecord
  <2>3. new = [i \in DOMAIN members |-> new[i]]
    OBVIOUS
  <2> HIDE DEF new
  <2>4. AreRecords(new)
    BY <2>2, <2>3, NewRecords
  <2> QED BY <2>1, <2>4
<1> QED BY <1>1, <1>2, <1>3

LEMMA CodeActionStands ==
    ASSUME NEW class, Stands(class), NEW m, NEW action PROVE Stands(apply_code_action(class, m, action).class)
<1> DEFINE matches(method) ==
             IF method.code # NoCode /\ CompiledMatches("method", m, method)
             THEN CountMatches(method.code.items, action) ELSE 0
           new == [i \in DOMAIN class.methods |->
                     IF matches(class.methods[i]) = 0 THEN class.methods[i] ELSE OnCode(action.transform, class.methods[i])]
           out == apply_code_action(class, m, action).class
<1>1. out = [class EXCEPT !.methods = new]
  BY DEF apply_code_action, Outcome
<1> HIDE DEF out, matches
<1>2. \A x, t : IsRecord(x) => IsRecord(OnCode(t, x))
  BY DEF OnCode, IsRecord
<1>3. ASSUME NEW i \in DOMAIN class.methods PROVE IsRecord(new[i])
  <2>1. IsRecord(class.methods[i])
    BY DEF Stands, AreRecords, Range
  <2> QED BY <1>2, <2>1
<1>4. new = [i \in DOMAIN class.methods |-> new[i]]
  OBVIOUS
<1> HIDE DEF new
<1>5. AreRecords(new)
  BY <1>3, <1>4, NewRecords DEF Stands
<1>6. DOMAIN out = DOMAIN class /\ out.fields = class.fields /\ out.methods = new
  BY <1>1 DEF Stands
<1> QED BY <1>5, <1>6 DEF Stands, out

LEMMA ClassActionStands ==
    ASSUME NEW class, Stands(class), NEW a, a.do \in ClassActions PROVE Stands(apply_class_action(class, a).class)
<1> DEFINE out == apply_class_action(class, a).class
<1>1. CASE a.do \in {"add_access_flags", "remove_access_flags", "set_access_flags"}
  <2>1. \E flags : out = [class EXCEPT !.access = flags]
    BY <1>1 DEF apply_class_action, One, Outcome
  <2> HIDE DEF out
  <2>2. DOMAIN out = DOMAIN class /\ out.fields = class.fields /\ out.methods = class.methods
    BY <2>1 DEF Stands
  <2> QED BY <2>2 DEF Stands, out
<1>2. CASE a.do = "set_super_class"
  <2>1. out = [class EXCEPT !.super = a.to]
    BY <1>2 DEF apply_class_action, One, Outcome
  <2> HIDE DEF out
  <2>2. DOMAIN out = DOMAIN class /\ out.fields = class.fields /\ out.methods = class.methods
    BY <2>1 DEF Stands
  <2> QED BY <2>2 DEF Stands, out
<1>3. CASE a.do \in {"add_interface", "remove_interface"}
  <2>1. out = class \/ \E list : out = [class EXCEPT !.interfaces = list]
    BY <1>3 DEF apply_class_action, One, Outcome
  <2> HIDE DEF out
  <2>2. DOMAIN out = DOMAIN class /\ out.fields = class.fields /\ out.methods = class.methods
    BY <2>1 DEF Stands
  <2> QED BY <2>2 DEF Stands, out
<1> QED BY <1>1, <1>2, <1>3 DEF ClassActions

LEMMA FieldActionIs ==
    ASSUME NEW class, NEW m, NEW a, a.do \in MemberActions \cup {"nothing"}
    PROVE  apply_field_action(class, m, a).class = [class EXCEPT !.fields = Members("field", class.fields, m, a).class]
<1> DEFINE made == Members("field", class.fields, m, a)
           out == [class EXCEPT !.fields = made.class]
<1>1. "class" \in DOMAIN made
  BY DEF Members, Outcome, MemberActions
<1>2. apply_field_action(class, m, a).class = out
  <2> HIDE DEF out
  <2> QED BY <1>1 DEF apply_field_action, out
<1> QED BY <1>2

LEMMA MethodActionIs ==
    ASSUME NEW class, NEW m, NEW a, a.do \in MemberActions \cup {"nothing"}
    PROVE  apply_method_action(class, m, a).class = [class EXCEPT !.methods = Members("method", class.methods, m, a).class]
<1> DEFINE made == Members("method", class.methods, m, a)
           out == [class EXCEPT !.methods = made.class]
<1>1. "class" \in DOMAIN made
  BY DEF Members, Outcome, MemberActions
<1>2. apply_method_action(class, m, a).class = out
  <2> HIDE DEF out
  <2> QED BY <1>1 DEF apply_method_action, out
<1> QED BY <1>2

LEMMA MemberActionStands ==
    ASSUME NEW class, Stands(class), NEW m, NEW a, a.do \in MemberActions \cup {"nothing"}
    PROVE  Stands(apply_field_action(class, m, a).class) /\ Stands(apply_method_action(class, m, a).class)
<1> DEFINE fields == Members("field", class.fields, m, a).class
           methods == Members("method", class.methods, m, a).class
           first == [class EXCEPT !.fields = fields]
           second == [class EXCEPT !.methods = methods]
<1>1. AreRecords(fields) /\ AreRecords(methods)
  BY MembersStand DEF Stands
<1>2. apply_field_action(class, m, a).class = first
  BY FieldActionIs
<1>3. apply_method_action(class, m, a).class = second
  BY MethodActionIs
<1> HIDE DEF fields, methods
<1>4. /\ DOMAIN first = DOMAIN class /\ first.fields = fields /\ first.methods = class.methods
      /\ DOMAIN second = DOMAIN class /\ second.methods = methods /\ second.fields = class.fields
  BY DEF Stands
<1> HIDE DEF first, second
<1>5. Stands(first) /\ Stands(second)
  BY <1>1, <1>4 DEF Stands
<1> QED BY <1>2, <1>3, <1>5

\* after is the recursion in apply_method_actions.
InTurn(class, m, a, code, n, after) ==
    after = [k \in 0..n |->
               IF k = 0 THEN apply_method_action(class, m, a)
               ELSE LET next == apply_code_action(after[k - 1].class, m, code[k])
                    IN  Outcome(next.class, after[k - 1].matched + next.matched, after[k - 1].changed + next.changed)]

LEMMA InTurnExists ==
    ASSUME NEW class, NEW m, NEW a, NEW code, NEW n \in Nat
    PROVE  \E after : InTurn(class, m, a, code, n, after)
<1> DEFINE first == apply_method_action(class, m, a)
           then(b, k) == LET next == apply_code_action(b.class, m, code[k])
                         IN  Outcome(next.class, b.matched + next.matched, b.changed + next.changed)
           N == {k \in 0..n : \E after : InTurn(class, m, a, code, k, after)}
<1>1. \A k, after : InTurn(class, m, a, code, k, after) <=>
        after = [j \in 0..k |-> IF j = 0 THEN first ELSE then(after[j - 1], j)]
  BY DEF InTurn
<1> HIDE DEF first, then
<1>2. 0 \in N
  <2> DEFINE after == [k \in 0..0 |-> first]
  <2>1. after = [k \in 0..0 |-> IF k = 0 THEN first ELSE then(after[k - 1], k)]
    OBVIOUS
  <2> HIDE DEF after
  <2>2. InTurn(class, m, a, code, 0, after)
    BY <1>1, <2>1
  <2>3. 0 \in 0..n
    OBVIOUS
  <2> QED BY <2>2, <2>3
<1>3. ASSUME NEW k \in 1..n, k - 1 \in N PROVE k \in N
  <2>1. PICK b : InTurn(class, m, a, code, k - 1, b)
    BY <1>3
  <2>2. b = [j \in 0..(k - 1) |-> IF j = 0 THEN first ELSE then(b[j - 1], j)]
    BY <1>1, <2>1
  <2> DEFINE after == [j \in 0..k |-> IF j = 0 THEN first ELSE then(b[j - 1], j)]
  <2>3. ASSUME NEW j \in 0..(k - 1) PROVE after[j] = b[j]
    <3>1. j \in 0..k
      OBVIOUS
    <3> QED BY <2>2, <3>1
  <2>4. ASSUME NEW j \in 0..k
        PROVE  (IF j = 0 THEN first ELSE then(b[j - 1], j)) = (IF j = 0 THEN first ELSE then(after[j - 1], j))
    <3> HIDE DEF after
    <3>1. CASE j = 0
      BY <3>1
    <3>2. CASE j # 0
      <4>1. j - 1 \in 0..(k - 1)
        BY <3>2
      <4> QED BY <2>3, <4>1
    <3> QED BY <3>1, <3>2
  <2>5. after = [j \in 0..k |-> IF j = 0 THEN first ELSE then(after[j - 1], j)]
    BY <2>4
  <2> HIDE DEF after
  <2>6. InTurn(class, m, a, code, k, after)
    BY <1>1, <2>5
  <2> QED BY <2>6
<1>4. 0..n \subseteq N
  <2> HIDE DEF N
  <2> QED BY <1>2, <1>3, UpTo
<1> QED BY <1>4

LEMMA InTurnStarts ==
    ASSUME NEW class, NEW m, NEW a, NEW code, NEW n \in Nat, NEW after, InTurn(class, m, a, code, n, after)
    PROVE  after[0] = apply_method_action(class, m, a)
<1> DEFINE first == apply_method_action(class, m, a)
           then(b, k) == LET next == apply_code_action(b.class, m, code[k])
                         IN  Outcome(next.class, b.matched + next.matched, b.changed + next.changed)
<1>1. after = [j \in 0..n |-> IF j = 0 THEN first ELSE then(after[j - 1], j)]
  BY DEF InTurn
<1> HIDE DEF first, then
<1>2. 0 \in 0..n
  OBVIOUS
<1> QED BY <1>1, <1>2 DEF first

LEMMA InTurnGoesOn ==
    ASSUME NEW class, NEW m, NEW a, NEW code, NEW n \in Nat, NEW after, InTurn(class, m, a, code, n, after)
    PROVE  \A k \in 1..n : after[k].class = apply_code_action(after[k - 1].class, m, code[k]).class
<1> DEFINE first == apply_method_action(class, m, a)
           then(b, k) == LET next == apply_code_action(b.class, m, code[k])
                         IN  Outcome(next.class, b.matched + next.matched, b.changed + next.changed)
<1>1. after = [j \in 0..n |-> IF j = 0 THEN first ELSE then(after[j - 1], j)]
  BY DEF InTurn
<1>2. \A b, k : then(b, k).class = apply_code_action(b.class, m, code[k]).class
  BY DEF Outcome
<1> HIDE DEF first, then
<1>3. ASSUME NEW k \in 1..n PROVE after[k] = then(after[k - 1], k)
  <2>1. k \in 0..n /\ k # 0
    OBVIOUS
  <2> QED BY <1>1, <2>1
<1> QED BY <1>2, <1>3

LEMMA MethodActionsAre ==
    ASSUME NEW class, NEW m, NEW a, NEW code, Len(code) \in Nat
    PROVE  \E after : InTurn(class, m, a, code, Len(code), after) /\ apply_method_actions(class, m, a, code) = after[Len(code)]
<1> DEFINE after == CHOOSE after : InTurn(class, m, a, code, Len(code), after)
<1>1. InTurn(class, m, a, code, Len(code), after)
  BY InTurnExists
<1>2. apply_method_actions(class, m, a, code) = after[Len(code)]
  BY DEF apply_method_actions, InTurn
<1> QED BY <1>1, <1>2

LEMMA MethodActionsStand ==
    ASSUME NEW class, Stands(class), NEW m, NEW a, a.do \in MemberActions \cup {"nothing"}, NEW code, Len(code) \in Nat
    PROVE  Stands(apply_method_actions(class, m, a, code).class)
<1> DEFINE n == Len(code)
<1>1. PICK after : InTurn(class, m, a, code, n, after) /\ apply_method_actions(class, m, a, code) = after[n]
  BY MethodActionsAre
<1> HIDE DEF n
<1> DEFINE N == {k \in 0..n : Stands(after[k].class)}
<1>2. n \in Nat
  BY DEF n
<1>3. \A k \in 1..n : after[k].class = apply_code_action(after[k - 1].class, m, code[k]).class
  BY <1>1, <1>2, InTurnGoesOn
<1>4. 0 \in N
  <2>1. Stands(after[0].class)
    <3>1. Stands(apply_method_action(class, m, a).class)
      BY MemberActionStands
    <3>2. after[0] = apply_method_action(class, m, a)
      BY <1>1, <1>2, InTurnStarts
    <3> QED BY <3>1, <3>2
  <2>2. 0 \in 0..n
    BY <1>2
  <2> QED BY <2>1, <2>2
<1>5. ASSUME NEW k \in 1..n, k - 1 \in N PROVE k \in N
  <2>1. Stands(apply_code_action(after[k - 1].class, m, code[k]).class)
    BY <1>5, CodeActionStands
  <2>2. Stands(after[k].class)
    BY <1>3, <2>1
  <2> QED BY <1>2, <2>2
<1> HIDE DEF N
<1>6. 0..n \subseteq N
  BY <1>2, <1>4, <1>5, UpTo
<1>7. n \in N
  BY <1>2, <1>6
<1> QED BY <1>1, <1>7 DEF N

LEMMA RuleStands ==
    ASSUME NEW class, Stands(class), NEW rule, IsRule(rule) PROVE Stands(ApplyRule(rule, class).class)
<1>1. CASE ~CompiledMatches("class", build_class_matcher(rule.owner), class)
  <2>1. ApplyRule(rule, class) = Outcome(class, 0, 0)
    BY <1>1 DEF ApplyRule
  <2> QED BY <2>1 DEF Outcome
<1>2. CASE CompiledMatches("class", build_class_matcher(rule.owner), class)
  <2>1. CASE rule.kind = "class"
    <3>1. ApplyRule(rule, class) = apply_class_action(class, rule.action)
      BY <1>2, <2>1 DEF ApplyRule
    <3>2. rule.action.do \in ClassActions
      BY <2>1 DEF IsRule
    <3> QED BY <3>1, <3>2, ClassActionStands
  <2>2. CASE rule.kind = "field"
    <3>1. ApplyRule(rule, class) = apply_field_action(class, build_field_matcher(rule.matcher), rule.action)
      BY <1>2, <2>2 DEF ApplyRule
    <3>2. rule.action.do \in MemberActions
      BY <2>2 DEF IsRule
    <3>3. Stands(apply_field_action(class, build_field_matcher(rule.matcher), rule.action).class)
      BY <3>2, MemberActionStands
    <3> QED BY <3>1, <3>3
  <2>3. CASE rule.kind = "method"
    <3>1. ApplyRule(rule, class) =
            apply_method_actions(class, build_method_matcher(rule.matcher), rule.action, CompiledCode(rule))
      BY <1>2, <2>3 DEF ApplyRule
    <3>2. rule.action.do \in MemberActions \cup {"nothing"}
      BY <2>3 DEF IsRule, NoAction
    <3>3. Len(CompiledCode(rule)) \in Nat
      BY DEF IsRule
    <3>4. Stands(apply_method_actions(class, build_method_matcher(rule.matcher), rule.action, CompiledCode(rule)).class)
      BY <3>2, <3>3, MethodActionsStand
    <3> QED BY <3>1, <3>4
  <2> QED BY <2>1, <2>2, <2>3 DEF IsRule
<1> QED BY <1>1, <1>2

LEMMA ClassRulesAgree ==
    ASSUME NEW class, NEW a, a.do \in ClassActions, DOMAIN a \cap {"of", "transform"} = {},
           a.do \in {"add_access_flags", "remove_access_flags", "set_access_flags"} => a.flags \subseteq ClassFlags
    PROVE  ClassApply(a, class) =
               IF a.do = "remove_access_flags"
               THEN [apply_class_action(class, a).class EXCEPT !.access = @ \cap ClassFlags]
               ELSE apply_class_action(class, a).class
<1>1. ClassApply(a, class) = ClassStep(a, class)
  <2>1. a.do # "sequence"
    BY DEF ClassActions
  <2> QED BY <2>1, LeafIsFlat
<1>2. CASE a.do \in {"add_access_flags", "remove_access_flags", "set_access_flags"}
  <2>1. a.flags \cap ClassFlags = a.flags
    BY <1>2
  <2>2. CASE a.do = "add_access_flags"
    BY <1>1, <2>1, <2>2 DEF apply_class_action, ClassStep, One, Outcome, AddedFlags
  <2>3. CASE a.do = "remove_access_flags"
    <3>1. (class.access \ a.flags) \cap ClassFlags = class.access \cap (ClassFlags \ a.flags)
      OBVIOUS
    <3>2. PICK left : left = class.access \ a.flags
      OBVIOUS
    <3>3. apply_class_action(class, a).class = [class EXCEPT !.access = left]
      BY <2>3, <3>2 DEF apply_class_action, One, Outcome
    <3>4. ClassStep(a, class) = [class EXCEPT !.access = left \cap ClassFlags]
      BY <2>3, <3>1, <3>2 DEF ClassStep, RemovedFlags
    <3>5. [[class EXCEPT !.access = left] EXCEPT !.access = @ \cap ClassFlags]
            = [class EXCEPT !.access = left \cap ClassFlags]
      OBVIOUS
    <3> QED BY <1>1, <2>3, <3>3, <3>4, <3>5
  <2>4. CASE a.do = "set_access_flags"
    BY <1>1, <2>1, <2>4 DEF apply_class_action, ClassStep, One, Outcome
  <2> QED BY <1>2, <2>2, <2>3, <2>4
<1>3. CASE a.do = "set_super_class"
  BY <1>1, <1>3 DEF apply_class_action, ClassStep, One, Outcome
<1>4. CASE a.do = "add_interface"
  <2>1. CASE a.name \in Range(class.interfaces)
    BY <1>1, <1>4, <2>1 DEF apply_class_action, ClassStep, One, Outcome
  <2>2. CASE a.name \notin Range(class.interfaces)
    BY <1>1, <1>4, <2>2 DEF apply_class_action, ClassStep, One, Outcome
  <2> QED BY <2>1, <2>2
<1>5. CASE a.do = "remove_interface"
  BY <1>1, <1>5 DEF apply_class_action, ClassStep, One, Outcome
<1> QED BY <1>2, <1>3, <1>4, <1>5 DEF ClassActions

\* Members named so become the same whether a rule or a transform changes them.
LEMMA MembersAgree ==
    ASSUME NEW of \in {"field", "method"}, NEW members, AreRecords(members), NEW name, NEW a,
           NEW known, a.do = "set_access_flags" => a.flags \subseteq known
    PROVE  LET m == And(<<Is("name", name)>>)
           IN  /\ a.do = "rename" =>
                    \A t : t.from = name /\ t.to = a.to => Members(of, members, m, a).class = RenamedMembers(members, t)
               /\ a.do = "set_access_flags" =>
                    \A t : t.name = name /\ t.flags = a.flags =>
                        Members(of, members, m, a).class = FlaggedMembers(members, t, known)
               /\ a.do = "remove" =>
                    \A t : t.name = name /\ t.descriptor = Same =>
                        Members(of, members, m, a).class = RemovedMembers(members, t)
<1> DEFINE m == And(<<Is("name", name)>>)
           hit == {i \in DOMAIN members : CompiledMatches(of, m, members[i])}
           new == [i \in DOMAIN members |->
                     IF i \in hit /\ Changes(members[i], a) THEN Edited(members[i], a) ELSE members[i]]
<1>1. hit = {i \in DOMAIN members : members[i].name = name}
  BY NameMatches
<1>2. \A i \in DOMAIN members : IsRecord(members[i])
  BY DEF AreRecords, Range
<1>3. a.do = "remove" => Members(of, members, m, a).class = Kept(members, DOMAIN members \ hit)
  BY DEF Members, Outcome
<1>4. a.do \in {"rename", "set_access_flags"} => Members(of, members, m, a).class = new
  BY DEF Members, Outcome
<1> HIDE DEF m, hit
<1>5. ASSUME a.do = "rename", NEW t, t.from = name, t.to = a.to PROVE new = RenamedMembers(members, t)
  <2>1. ASSUME NEW i \in DOMAIN members
        PROVE  (IF i \in hit /\ Changes(members[i], a) THEN Edited(members[i], a) ELSE members[i])
                 = (IF HasName(members[i], t.from) THEN [members[i] EXCEPT !.name = t.to] ELSE members[i])
    <3>1. CASE members[i].name # name
      BY <1>1, <1>5, <3>1 DEF HasName
    <3>2. CASE members[i].name = name /\ members[i].name # a.to
      BY <1>1, <1>5, <3>2 DEF HasName, Changes, Edited
    <3>3. CASE members[i].name = name /\ members[i].name = a.to
      <4>1. ~Changes(members[i], a)
        BY <1>5, <3>3 DEF Changes
      <4>2. [members[i] EXCEPT !.name = t.to] = members[i]
        BY <1>2, <1>5, <3>3 DEF IsRecord
      <4> QED BY <1>5, <3>3, <4>1, <4>2 DEF HasName
    <3> QED BY <3>1, <3>2, <3>3
  <2> QED BY <2>1 DEF RenamedMembers
<1>6. ASSUME a.do = "set_access_flags", NEW t, t.name = name, t.flags = a.flags
      PROVE  new = FlaggedMembers(members, t, known)
  <2>1. t.flags \cap known = a.flags
    BY <1>6
  <2>2. ASSUME NEW i \in DOMAIN members
        PROVE  (IF i \in hit /\ Changes(members[i], a) THEN Edited(members[i], a) ELSE members[i])
                 = (IF HasName(members[i], t.name) THEN [members[i] EXCEPT !.access = t.flags \cap known] ELSE members[i])
    <3>1. CASE members[i].name # name
      BY <1>1, <1>6, <3>1 DEF HasName
    <3>2. CASE members[i].name = name /\ members[i].access # a.flags
      BY <1>1, <1>6, <2>1, <3>2 DEF HasName, Changes, Edited
    <3>3. CASE members[i].name = name /\ members[i].access = a.flags
      <4>1. ~Changes(members[i], a)
        BY <1>6, <3>3 DEF Changes
      <4>2. [members[i] EXCEPT !.access = t.flags \cap known] = members[i]
        BY <1>2, <2>1, <3>3 DEF IsRecord
      <4> QED BY <1>6, <3>3, <4>1, <4>2 DEF HasName
    <3> QED BY <3>1, <3>2, <3>3
  <2> QED BY <2>2 DEF FlaggedMembers
<1>7. ASSUME a.do = "remove", NEW t, t.name = name, t.descriptor = Same
      PROVE  Kept(members, DOMAIN members \ hit) = RemovedMembers(members, t)
  <2>1. DOMAIN members \ hit =
          {i \in DOMAIN members : ~(HasName(members[i], t.name) /\ Optional(t.descriptor, members[i].descriptor))}
    BY <1>1, <1>7 DEF HasName, Optional
  <2> QED BY <2>1 DEF RemovedMembers
<1> HIDE DEF new
<1> QED BY <1>3, <1>4, <1>5, <1>6, <1>7 DEF m

LEMMA NoCodeToRun ==
    ASSUME NEW class, NEW m, NEW a, NEW rule, rule.code = <<>>
    PROVE  apply_method_actions(class, m, a, CompiledCode(rule)) = apply_method_action(class, m, a)
<1> DEFINE code == CompiledCode(rule)
<1>1. Len(code) = 0
  <2> DEFINE lists == [i \in DOMAIN rule.code |-> build_compiled_code_actions(rule.code[i])]
  <2>1. lists = <<>>
    OBVIOUS
  <2>2. code = FlattenSeq(lists)
    BY DEF CompiledCode
  <2> HIDE DEF lists, code
  <2> QED BY <2>1, <2>2 DEF FlattenSeq
<1> HIDE DEF code
<1>2. PICK after : InTurn(class, m, a, code, Len(code), after) /\ apply_method_actions(class, m, a, code) = after[Len(code)]
  BY <1>1, MethodActionsAre
<1>3. InTurn(class, m, a, code, 0, after) /\ apply_method_actions(class, m, a, code) = after[0]
  BY <1>1, <1>2
<1>4. 0 \in Nat
  OBVIOUS
<1>5. after[0] = apply_method_action(class, m, a)
  BY <1>3, <1>4, InTurnStarts
<1> QED BY <1>3, <1>5 DEF code

LEMMA RuleAgrees ==
    ASSUME NEW class, Stands(class), NEW rule, IsRule(rule), HasEquivalent(rule),
           CompiledMatches("class", build_class_matcher(rule.owner), class)
    PROVE  ClassApply(Equivalent(rule), class) = AsDeclared(rule, ApplyRule(rule, class).class)
<1> DEFINE a == rule.action
           t == Equivalent(rule)
           name == rule.matcher["name"]
           m == And(<<Is("name", name)>>)
<1>1. CASE rule.kind = "class"
  <2>1. ApplyRule(rule, class) = apply_class_action(class, a)
    BY <1>1 DEF ApplyRule
  <2>2. /\ a.do \in ClassActions /\ DOMAIN a \cap {"of", "transform"} = {}
        /\ a.do \in {"add_access_flags", "remove_access_flags", "set_access_flags"} => a.flags \subseteq ClassFlags
    BY <1>1 DEF IsRule
  <2>3. t = a
    BY <1>1 DEF Equivalent
  <2> HIDE DEF a, t
  <2>4. t = Equivalent(rule) /\ a = rule.action
    BY DEF t, a
  <2>5. ClassApply(a, class) =
          IF a.do = "remove_access_flags"
          THEN [apply_class_action(class, a).class EXCEPT !.access = @ \cap ClassFlags]
          ELSE apply_class_action(class, a).class
    BY <2>2, ClassRulesAgree
  <2> QED BY <2>1, <2>3, <2>4, <2>5 DEF AsDeclared
<1>2. CASE rule.kind \in {"field", "method"}
  <2>1. DOMAIN rule.matcher = {"name"} /\ rule.code = <<>> /\ a.do \in {"rename", "set_access_flags", "remove"}
    BY <1>2 DEF HasEquivalent
  <2>2. build_field_matcher(rule.matcher) = m /\ build_method_matcher(rule.matcher) = m
    <3>1. {FieldCriterion(key, rule.matcher[key]) : key \in {"name"}} = {Is("name", name)}
      BY DEF FieldCriterion, field_named
    <3>2. {MethodCriterion(key, rule.matcher[key]) : key \in {"name"}} = {Is("name", name)}
      BY DEF MethodCriterion, method_named
    <3> QED BY <2>1, <3>1, <3>2, AllOfOne DEF build_field_matcher, build_method_matcher
  <2>3. a.do \in MemberActions /\ a.do # "nothing"
    BY <2>1 DEF MemberActions
  <2>6. SUFFICES ApplyRule(rule, class).class = ClassApply(Equivalent(rule), class)
    BY <2>1 DEF AsDeclared
  <2> HIDE DEF m
  <2>4. CASE rule.kind = "field"
    <3> DEFINE new == Members("field", class.fields, m, a).class
    <3>1. ApplyRule(rule, class) = apply_field_action(class, m, a)
      BY <2>2, <2>4 DEF ApplyRule
    <3>2. apply_field_action(class, m, a).class = [class EXCEPT !.fields = new]
      <4> HIDE DEF a
      <4>1. a.do \in MemberActions \cup {"nothing"}
        BY <2>3
      <4> QED BY <4>1, FieldActionIs
    <3>3. a.do = "set_access_flags" => a.flags \subseteq FieldFlags
      BY <2>4 DEF IsRule
    <3>4. /\ a.do = "rename" =>
               /\ t.do = "rename_field" /\ t.from = name /\ t.to = a.to /\ DOMAIN t \cap {"of", "transform"} = {}
          /\ a.do = "set_access_flags" =>
               /\ t.do = "set_field_access_flags" /\ t.name = name /\ t.flags = a.flags
               /\ DOMAIN t \cap {"of", "transform"} = {}
          /\ a.do = "remove" =>
               /\ t.do = "remove_field" /\ t.name = name /\ t.descriptor = Same
               /\ DOMAIN t \cap {"of", "transform"} = {}
      BY <2>1, <2>4 DEF Equivalent
    <3> HIDE DEF t, a, name
    <3>5. /\ a.do = "rename" => new = RenamedMembers(class.fields, t)
          /\ a.do = "set_access_flags" => new = FlaggedMembers(class.fields, t, FieldFlags)
          /\ a.do = "remove" => new = RemovedMembers(class.fields, t)
      BY <3>3, <3>4, MembersAgree DEF Stands, m
    <3> HIDE DEF new
    <3>6. ClassApply(t, class) = ClassStep(t, class)
      BY <2>1, <3>4, LeafIsFlat
    <3>7. ClassStep(t, class) = [class EXCEPT !.fields = new]
      <4>1. CASE a.do = "rename"
        BY <3>4, <3>5, <4>1 DEF ClassStep
      <4>2. CASE a.do = "set_access_flags"
        BY <3>4, <3>5, <4>2 DEF ClassStep
      <4>3. CASE a.do = "remove"
        BY <3>4, <3>5, <4>3 DEF ClassStep
      <4> QED BY <2>1, <4>1, <4>2, <4>3
    <3> QED BY <3>1, <3>2, <3>6, <3>7 DEF t
  <2>5. CASE rule.kind = "method"
    <3> DEFINE new == Members("method", class.methods, m, a).class
    <3>1. ApplyRule(rule, class) = apply_method_action(class, m, a)
      <4>1. ApplyRule(rule, class) = apply_method_actions(class, m, a, CompiledCode(rule))
        BY <2>2, <2>5 DEF ApplyRule
      <4> HIDE DEF a
      <4> QED BY <2>1, <4>1, NoCodeToRun
    <3>2. apply_method_action(class, m, a).class = [class EXCEPT !.methods = new]
      <4> HIDE DEF a
      <4>1. a.do \in MemberActions \cup {"nothing"}
        BY <2>3
      <4> QED BY <4>1, MethodActionIs
    <3>3. a.do = "set_access_flags" => a.flags \subseteq MethodFlags
      BY <2>5 DEF IsRule
    <3>4. /\ a.do = "rename" =>
               /\ t.do = "rename_method" /\ t.from = name /\ t.to = a.to /\ DOMAIN t \cap {"of", "transform"} = {}
          /\ a.do = "set_access_flags" =>
               /\ t.do = "set_method_access_flags" /\ t.name = name /\ t.flags = a.flags
               /\ DOMAIN t \cap {"of", "transform"} = {}
          /\ a.do = "remove" =>
               /\ t.do = "remove_method" /\ t.name = name /\ t.descriptor = Same
               /\ DOMAIN t \cap {"of", "transform"} = {}
      BY <2>1, <2>5 DEF Equivalent
    <3> HIDE DEF t, a, name
    <3>5. /\ a.do = "rename" => new = RenamedMembers(class.methods, t)
          /\ a.do = "set_access_flags" => new = FlaggedMembers(class.methods, t, MethodFlags)
          /\ a.do = "remove" => new = RemovedMembers(class.methods, t)
      BY <3>3, <3>4, MembersAgree DEF Stands, m
    <3> HIDE DEF new
    <3>6. ClassApply(t, class) = ClassStep(t, class)
      BY <2>1, <3>4, LeafIsFlat
    <3>7. ClassStep(t, class) = [class EXCEPT !.methods = new]
      <4>1. CASE a.do = "rename"
        BY <3>4, <3>5, <4>1 DEF ClassStep
      <4>2. CASE a.do = "set_access_flags"
        BY <3>4, <3>5, <4>2 DEF ClassStep
      <4>3. CASE a.do = "remove"
        BY <3>4, <3>5, <4>3 DEF ClassStep
      <4> QED BY <2>1, <4>1, <4>2, <4>3
    <3> QED BY <3>1, <3>2, <3>6, <3>7 DEF t
  <2> QED BY <1>2, <2>4, <2>5
<1> QED BY <1>1, <1>2 DEF IsRule

\* While a plan runs, the class in work is a class, as far as the rules have got with it.
PlanInvariant ==
    /\ \E r \in DOMAIN Requests : job = Requests[r].job /\ jar = Requests[r].jar
    /\ job.kind = "patch" =>
        /\ done \in Seq(Range(done)) /\ step \in Nat \ {0}
        /\ status = "loading" => work = NoClass
        /\ Working => Stands(work)

LEMMA PlanFacts ==
    ASSUME PlanInvariant, job.kind = "patch"
    PROVE  /\ jar \in Seq(Range(jar)) /\ \A class \in Range(jar) : Stands(class)
           /\ Len(job.steps) \in Nat /\ DOMAIN job.steps = 1..Len(job.steps)
           /\ \A i \in DOMAIN job.steps : IsRule(job.steps[i])
<1>1. PICK r \in DOMAIN Requests : job = Requests[r].job /\ jar = Requests[r].jar
  BY DEF PlanInvariant
<1>2. jar \in Seq(Range(jar))
  BY <1>1, JarsAreLifted
<1>3. ASSUME NEW class \in Range(jar) PROVE Stands(class)
  <2>1. /\ {"fields", "methods"} \subseteq DOMAIN class
        /\ class.fields \in Seq(Range(class.fields)) /\ class.methods \in Seq(Range(class.methods))
        /\ \A x \in Range(class.fields) \cup Range(class.methods) : IsRecord(x)
    BY <1>1, <1>3, JarsAreLifted
  <2> QED BY <2>1 DEF Stands, AreRecords
<1>4. job.steps \in Seq(Range(job.steps)) /\ \A rule \in Range(job.steps) : IsRule(rule)
  BY <1>1, PlansAreTyped
<1>5. Len(job.steps) \in Nat /\ DOMAIN job.steps = 1..Len(job.steps)
  BY <1>4
<1>6. \A i \in DOMAIN job.steps : job.steps[i] \in Range(job.steps)
  BY DEF Range
<1> QED BY <1>2, <1>3, <1>4, <1>5, <1>6

LEMMA InitPlan == Init => PlanInvariant
<1> SUFFICES ASSUME Init PROVE PlanInvariant
  OBVIOUS
<1>1. \E r \in DOMAIN Requests : job = Requests[r].job /\ jar = Requests[r].jar
  BY DEF Init
<1>2. done = <<>> /\ step = 1 /\ work = NoClass
  BY DEF Init
<1>3. done \in Seq(Range(done)) /\ step \in Nat \ {0} /\ ~Working
  BY <1>2 DEF Working
<1> QED BY <1>1, <1>2, <1>3 DEF PlanInvariant

LEMMA StepKeepsPlan == PlanInvariant /\ [Next]_vars => PlanInvariant'
<1> SUFFICES ASSUME PlanInvariant, [Next]_vars PROVE PlanInvariant'
  OBVIOUS
<1>1. job' = job /\ jar' = jar
  BY DEF Next, Load, TakeClass, PatchStep, PipelineStep, ClosureStep, CallbackStep, SkipMethod, RemoveNops, Round,
         FinishClass, Write, vars
<1>2. CASE job.kind # "patch"
  BY <1>1, <1>2 DEF PlanInvariant
<1> SUFFICES ASSUME job.kind = "patch"
             PROVE  /\ done' \in Seq(Range(done')) /\ step' \in Nat \ {0}
                    /\ status' = "loading" => work' = NoClass
                    /\ Working' => Stands(work')
  BY <1>1, <1>2 DEF PlanInvariant
<1>3. done \in Seq(Range(done)) /\ step \in Nat \ {0} /\ (Working => Stands(work))
  BY DEF PlanInvariant
<1>4. status = "loading" => work = NoClass
  BY DEF PlanInvariant
<1>5. CASE Load
  BY <1>3, <1>4, <1>5 DEF Load, Working
<1>6. CASE TakeClass
  <2>1. /\ work' = jar[Len(done) + 1] /\ step' = 1 /\ done' = done /\ Len(done) < Len(jar)
        /\ status' # "loading"
    BY <1>6 DEF TakeClass
  <2>2. jar[Len(done) + 1] \in Range(jar)
    <3>1. Len(done) \in Nat /\ Len(jar) \in Nat /\ DOMAIN jar = 1..Len(jar)
      BY <1>3, PlanFacts
    <3>2. Len(done) + 1 \in DOMAIN jar
      BY <2>1, <3>1
    <3> QED BY <3>2 DEF Range
  <2>3. Stands(work')
    BY <2>1, <2>2, PlanFacts
  <2> QED BY <1>3, <2>1, <2>3
<1>7. CASE PatchStep
  <2>1. Working /\ step <= Len(job.steps) /\ done' = done
    BY <1>7 DEF PatchStep, HasStep
  <2>2. step \in DOMAIN job.steps /\ IsRule(job.steps[step])
    BY <1>3, <2>1, PlanFacts
  <2>3. CASE Stop("panicked")
    BY <1>3, <2>1, <2>3 DEF Stop, Working
  <2>4. CASE Advance(ApplyRule(job.steps[step], work).class)
    <3>1. Stands(ApplyRule(job.steps[step], work).class)
      BY <1>3, <2>1, <2>2, RuleStands
    <3>2. Stands(work')
      BY <2>4, <3>1 DEF Advance
    <3>3. step' \in Nat \ {0} /\ status' # "loading"
      BY <1>3, <2>1, <2>4 DEF Advance, Working
    <3> QED BY <1>3, <2>1, <3>2, <3>3
  <2> QED BY <1>7, <2>3, <2>4 DEF PatchStep
<1>8. CASE FinishClass
  <2>1. step' = step /\ Working
    BY <1>8 DEF FinishClass
  <2>2. CASE done' = Append(done, work) /\ work' = NoClass
    <3>1. Append(done, work) \in Seq(Range(done) \cup {work})
      BY <1>3
    <3>2. done' \in Seq(Range(done'))
      BY <2>2, <3>1, OwnRange
    <3> QED BY <1>3, <2>1, <2>2, <3>2 DEF Working
  <2>3. CASE done' = done /\ work' = work /\ status' = "failed"
    BY <1>3, <2>1, <2>3 DEF Working
  <2> QED BY <1>8, <2>2, <2>3 DEF FinishClass
<1>9. CASE Write
  BY <1>3, <1>9 DEF Write, Working
<1>10. CASE PipelineStep \/ ClosureStep \/ CallbackStep \/ SkipMethod \/ RemoveNops \/ Round
  BY <1>10 DEF PipelineStep, ClosureStep, CallbackStep, HasStep, SkipMethod, RemoveNops, Round, CleansMethod
<1>11. CASE UNCHANGED vars
  BY <1>3, <1>4, <1>11 DEF vars, Working
<1> QED BY <1>5, <1>6, <1>7, <1>8, <1>9, <1>10, <1>11 DEF Next

LEMMA PlanInvariance == Spec => []PlanInvariant
<1>1. Init => PlanInvariant
  BY InitPlan
<1>2. PlanInvariant /\ [Next]_vars => PlanInvariant'
  BY StepKeepsPlan
<1> QED BY <1>1, <1>2, PTL DEF Spec

\* Whatever the plan and the JAR: a rule that has a declarative transform of the same name
\* leaves of every class what that transform would, but for the bits that only the transform
\* takes away (RulesAndSpecsAgree; jar_patcher.rs and transform_spec.rs).
THEOREM RulesAndSpecsAlwaysAgree == Spec => []RulesAndSpecsAgree
<1>1. PlanInvariant => RulesAndSpecsAgree
  <2> SUFFICES ASSUME PlanInvariant, Working, job.kind = "patch", NEW i \in DOMAIN job.steps,
                      HasEquivalent(job.steps[i]),
                      CompiledMatches("class", build_class_matcher(job.steps[i].owner), work)
               PROVE  ClassApply(Equivalent(job.steps[i]), work)
                        = AsDeclared(job.steps[i], ApplyRule(job.steps[i], work).class)
    BY DEF RulesAndSpecsAgree
  <2>1. Stands(work)
    BY DEF PlanInvariant
  <2>2. IsRule(job.steps[i])
    BY PlanFacts
  <2> QED BY <2>1, <2>2, RuleAgrees
<1> QED BY <1>1, PlanInvariance, PTL

-----------------------------------------------------------------------------
(* Errors. *)

ErrorInvariant ==
    /\ error # "none" => status = "failed"
    /\ status # "written" => file = jar

\* No job writes the file once a callback has raised, returned a value or panicked, for any class
\* (the callbacks of archive.rs in the Python binding).
THEOREM ErrorsAlwaysKeepTheFile == Spec => []ErrorsKeepTheFile
<1>1. Init => ErrorInvariant
  BY DEF Init, ErrorInvariant
<1>2. ErrorInvariant /\ [Next]_vars => ErrorInvariant'
  <2> SUFFICES ASSUME ErrorInvariant, [Next]_vars PROVE ErrorInvariant'
    OBVIOUS
  <2>1. CASE Load
    BY <2>1 DEF Load, ErrorInvariant
  <2>2. CASE TakeClass \/ SkipMethod \/ RemoveNops \/ Round
    BY <2>2 DEF TakeClass, SkipMethod, RemoveNops, Round, ErrorInvariant
  <2>3. CASE PatchStep
    <3>1. status = "running" /\ error' = error /\ file' = file /\ jar' = jar
      BY <2>3 DEF PatchStep, HasStep, Working
    <3>2. status' \in {status, "panicked"}
      BY <2>3 DEF PatchStep, Stop, Advance
    <3> QED BY <3>1, <3>2 DEF ErrorInvariant
  <2>4. CASE PipelineStep
    <3>1. status = "running" /\ error' = error /\ file' = file /\ jar' = jar
      BY <2>4 DEF PipelineStep, HasStep, Working
    <3>2. status' \in {status, "panicked"}
      BY <2>4 DEF PipelineStep, Stop, Advance
    <3> QED BY <3>1, <3>2 DEF ErrorInvariant
  <2>5. CASE ClosureStep
    <3>1. status = "running" /\ error' = error /\ file' = file /\ jar' = jar
      BY <2>5 DEF ClosureStep, HasStep, Working
    <3>2. status' \in {status, "failed"}
      BY <2>5 DEF ClosureStep, Stop, Advance
    <3> QED BY <3>1, <3>2 DEF ErrorInvariant
  <2>6. CASE CallbackStep
    <3>1. status = "running" /\ file' = file /\ jar' = jar
      BY <2>6 DEF CallbackStep, HasStep, Working
    <3>2. \/ status' \in {status, "panicked"} /\ error' = error
          \/ status' = "failed"
      BY <2>6 DEF CallbackStep, CallbackResult
    <3> QED BY <3>1, <3>2 DEF ErrorInvariant
  <2>7. CASE FinishClass
    BY <2>7 DEF FinishClass, Working, ErrorInvariant
  <2>8. CASE Write
    BY <2>8 DEF Write, ErrorInvariant
  <2>9. CASE UNCHANGED vars
    BY <2>9 DEF vars, ErrorInvariant
  <2> QED BY <2>1, <2>2, <2>3, <2>4, <2>5, <2>6, <2>7, <2>8, <2>9 DEF Next
<1>3. ErrorInvariant => ErrorsKeepTheFile
  BY DEF ErrorInvariant, ErrorsKeepTheFile
<1> QED BY <1>1, <1>2, <1>3, PTL DEF Spec
=============================================================================
