---------------------------- MODULE FilesProofs ----------------------------
(***************************************************************************)
(* Proofs about LibraryJobs for any files, folders, keys, requests, jobs   *)
(* and scenarios.                                                          *)
(***************************************************************************)
EXTENDS LibraryJobs, TLAPS, FiniteSetTheorems, WellFoundedInduction

------------------------------------------------------------------------------
(* Sums over a finite set *)

\* A set of subsets of a finite set that is not empty has a member none of
\* whose proper subsets is one.
LEMMA Minimal ==
    ASSUME NEW S, IsFiniteSet(S), NEW B, B \subseteq SUBSET S, B # {}
    PROVE  \E T \in B : \A U \in B : U \subseteq T => U = T
<1>1. FiniteSubsetsOf(S) = SUBSET S
  BY FS_FiniteSubsetsOfFinite
<1>2. IsWellFoundedOn(StrictSubsetOrdering(S), SUBSET S)
  BY <1>1, FS_StrictSubsetOrderingWellFounded
<1>3. PICK T \in B : \A U \in B : ~(<<U, T>> \in StrictSubsetOrdering(S))
  BY <1>2, WFMin
<1>4. ASSUME NEW U \in B, U \subseteq T, U # T PROVE FALSE
  <2>1. <<U, T>> \in (SUBSET S) \X (SUBSET S)
    OBVIOUS
  <2>2. <<U, T>> \in StrictSubsetOrdering(S)
    BY <1>4, <2>1 DEF StrictSubsetOrdering
  <2> QED BY <1>3, <2>2
<1> QED BY <1>4

\* The sum of the sizes of the rows in S, as the fold of the library computes
\* it: g maps every subset to its sum, taking out one element after the other.
Total(rows, S) == MapThenSumSet(LAMBDA f : rows[f].size, S)
Pick(s) == CHOOSE x \in s : TRUE
Sums(g, rows, S) ==
    g = [s \in SUBSET S |-> IF s = {} THEN 0 ELSE rows[Pick(s)].size + g[s \ {Pick(s)}]]

LEMMA TotalDef ==
    ASSUME NEW rows, NEW S
    PROVE  Total(rows, S) = (CHOOSE g : Sums(g, rows, S))[S]
BY DEF Total, MapThenSumSet, MapThenFoldSet, Sums, Pick

LEMMA PickFact ==
    ASSUME NEW s, s # {}
    PROVE  Pick(s) \in s
BY DEF Pick

LEMMA SumsAt ==
    ASSUME NEW rows, NEW S, NEW g, Sums(g, rows, S), NEW s \in SUBSET S
    PROVE  g[s] = IF s = {} THEN 0 ELSE rows[Pick(s)].size + g[s \ {Pick(s)}]
BY DEF Sums

LEMMA SumsUnique ==
    ASSUME NEW rows, NEW S, NEW T, IsFiniteSet(S), NEW g, NEW h,
           Sums(g, rows, S), Sums(h, rows, T), NEW u, u \subseteq S, u \subseteq T
    PROVE  g[u] = h[u]
<1> DEFINE B == {s \in SUBSET S : s \subseteq T /\ g[s] # h[s]}
<1> SUFFICES ASSUME B # {} PROVE FALSE
  OBVIOUS
<1>1. PICK m \in B : \A s \in B : s \subseteq m => s = m
  <2>1. B \subseteq SUBSET S
    OBVIOUS
  <2> HIDE DEF B
  <2> QED BY <2>1, Minimal
<1>2. /\ g[m] = IF m = {} THEN 0 ELSE rows[Pick(m)].size + g[m \ {Pick(m)}]
      /\ h[m] = IF m = {} THEN 0 ELSE rows[Pick(m)].size + h[m \ {Pick(m)}]
  <2>1. m \in SUBSET S /\ m \in SUBSET T
    BY <1>1
  <2> QED BY <2>1, SumsAt
<1>3. m # {}
  BY <1>1, <1>2
<1>4. m \ {Pick(m)} \notin B
  BY <1>1, <1>3, PickFact
<1>5. g[m \ {Pick(m)}] = h[m \ {Pick(m)}]
  BY <1>1, <1>4
<1> QED BY <1>1, <1>2, <1>5

LEMMA SumsExist ==
    ASSUME NEW rows, NEW S, IsFiniteSet(S)
    PROVE  \E g : Sums(g, rows, S)
<1> DEFINE B == {s \in SUBSET S : ~\E g : Sums(g, rows, s)}
<1> SUFFICES ASSUME B # {} PROVE FALSE
  OBVIOUS
<1>1. PICK m \in B : \A s \in B : s \subseteq m => s = m
  <2>1. B \subseteq SUBSET S
    OBVIOUS
  <2> HIDE DEF B
  <2> QED BY <2>1, Minimal
<1> DEFINE G(s) == CHOOSE g : Sums(g, rows, s)
           v(s) == IF s = {} THEN 0 ELSE rows[Pick(s)].size + G(s \ {Pick(s)})[s \ {Pick(s)}]
           f == [s \in SUBSET m |-> v(s)]
<1>2. ASSUME NEW s \in SUBSET m, s # m PROVE Sums(G(s), rows, s)
  <2>1. \E g : Sums(g, rows, s)
    BY <1>1, <1>2
  <2> QED BY <2>1
<1>3. ASSUME NEW s \in SUBSET m, s # m PROVE v(s) = G(s)[s]
  <2>1. Sums(G(s), rows, s)
    BY <1>2, <1>3
  <2>2. G(s)[s] = IF s = {} THEN 0 ELSE rows[Pick(s)].size + G(s)[s \ {Pick(s)}]
    <3> HIDE DEF G
    <3> QED BY <2>1, SumsAt
  <2>3. CASE s # {}
    <3> DEFINE t == s \ {Pick(s)}
    <3>1. t \in SUBSET m /\ t # m /\ t \subseteq s
      BY <1>3, <2>3, PickFact
    <3>2. Sums(G(t), rows, t)
      BY <1>2, <3>1
    <3>3. IsFiniteSet(t)
      BY <1>1, <3>1, FS_Subset
    <3>4. G(t)[t] = G(s)[t]
      <4> HIDE DEF G
      <4> QED BY <2>1, <3>1, <3>2, <3>3, SumsUnique
    <3> QED BY <2>2, <2>3, <3>4
  <2> QED BY <2>2, <2>3
<1>4. ASSUME NEW s \in SUBSET m
      PROVE  v(s) = IF s = {} THEN 0 ELSE rows[Pick(s)].size + f[s \ {Pick(s)}]
  <2>1. CASE s # {}
    <3> DEFINE t == s \ {Pick(s)}
    <3>1. t \in SUBSET m /\ t # m
      BY <2>1, PickFact
    <3>2. f[t] = v(t)
      <4> HIDE DEF v
      <4> QED BY <3>1
    <3>3. v(t) = G(t)[t]
      BY <1>3, <3>1
    <3> QED BY <2>1, <3>2, <3>3
  <2> QED BY <2>1
<1>5. Sums(f, rows, m)
  <2> HIDE DEF v
  <2>1. f = [s \in SUBSET m |-> IF s = {} THEN 0 ELSE rows[Pick(s)].size + f[s \ {Pick(s)}]]
    BY <1>4
  <2> QED BY <2>1 DEF Sums
<1> QED BY <1>1, <1>5

\* One element is taken out, and the rest is summed.
LEMMA TotalAt ==
    ASSUME NEW rows, NEW S, IsFiniteSet(S)
    PROVE  /\ S = {} => Total(rows, S) = 0
           /\ S # {} => Total(rows, S) = rows[Pick(S)].size + Total(rows, S \ {Pick(S)})
<1> DEFINE g == CHOOSE h : Sums(h, rows, S)
<1>1. Sums(g, rows, S)
  BY SumsExist
<1> HIDE DEF g
<1>2. Total(rows, S) = g[S]
  BY TotalDef DEF g
<1>3. g[S] = IF S = {} THEN 0 ELSE rows[Pick(S)].size + g[S \ {Pick(S)}]
  BY <1>1, SumsAt
<1>4. ASSUME NEW t, t \subseteq S PROVE g[t] = Total(rows, t)
  <2> DEFINE h == CHOOSE k : Sums(k, rows, t)
  <2>1. IsFiniteSet(t)
    BY <1>4, FS_Subset
  <2>2. Sums(h, rows, t)
    BY <2>1, SumsExist
  <2> HIDE DEF h
  <2>3. h[t] = g[t]
    BY <1>1, <1>4, <2>1, <2>2, SumsUnique
  <2> QED BY <2>3, TotalDef DEF h
<1> QED BY <1>2, <1>3, <1>4

\* Sums of naturals are naturals.
LEMMA TotalNat ==
    ASSUME NEW rows, NEW S, IsFiniteSet(S), \A x \in S : rows[x].size \in Nat
    PROVE  Total(rows, S) \in Nat
<1> DEFINE B == {s \in SUBSET S : Total(rows, s) \notin Nat}
<1> SUFFICES ASSUME B # {} PROVE FALSE
  OBVIOUS
<1>1. PICK m \in B : \A s \in B : s \subseteq m => s = m
  <2>1. B \subseteq SUBSET S
    OBVIOUS
  <2> HIDE DEF B
  <2> QED BY <2>1, Minimal
<1>2. IsFiniteSet(m) /\ Total(rows, m) \notin Nat
  BY <1>1, FS_Subset
<1>3. m # {}
  <2>1. m = {} => Total(rows, m) = 0
    BY <1>2, TotalAt
  <2> QED BY <1>2, <2>1
<1>4. Pick(m) \in m /\ Total(rows, m) = rows[Pick(m)].size + Total(rows, m \ {Pick(m)})
  BY <1>2, <1>3, TotalAt, PickFact
<1>5. m \ {Pick(m)} \in SUBSET S /\ m \ {Pick(m)} \notin B
  BY <1>1, <1>4
<1>6. Total(rows, m \ {Pick(m)}) \in Nat
  BY <1>5
<1> QED BY <1>1, <1>4, <1>6

\* Any element may be taken out.
LEMMA TotalSplit ==
    ASSUME NEW rows, NEW S, IsFiniteSet(S), \A x \in S : rows[x].size \in Nat, NEW y \in S
    PROVE  Total(rows, S) = rows[y].size + Total(rows, S \ {y})
<1> DEFINE Splits(s, z) == Total(rows, s) = rows[z].size + Total(rows, s \ {z})
           B == {s \in SUBSET S : \E z \in s : ~Splits(s, z)}
<1> SUFFICES ASSUME B # {} PROVE FALSE
  OBVIOUS
<1> HIDE DEF Splits
<1>1. PICK m \in B : \A s \in B : s \subseteq m => s = m
  <2>1. B \subseteq SUBSET S
    OBVIOUS
  <2> HIDE DEF B
  <2> QED BY <2>1, Minimal
<1>2. PICK z \in m : ~Splits(m, z)
  BY <1>1
<1> DEFINE x == Pick(m)
<1>3. IsFiniteSet(m) /\ m # {} /\ m \in SUBSET S
  BY <1>1, <1>2, FS_Subset
<1>4. x \in m /\ Total(rows, m) = rows[x].size + Total(rows, m \ {x})
  BY <1>3, TotalAt, PickFact
<1> HIDE DEF x
<1>5. z # x
  BY <1>2, <1>4 DEF Splits
<1>6. m \ {x} \notin B /\ m \ {z} \notin B
  BY <1>1, <1>4
<1>7. Splits(m \ {x}, z) /\ Splits(m \ {z}, x)
  BY <1>3, <1>4, <1>5, <1>6
<1>8. /\ Total(rows, m \ {x}) = rows[z].size + Total(rows, (m \ {x}) \ {z})
      /\ Total(rows, m \ {z}) = rows[x].size + Total(rows, (m \ {z}) \ {x})
  BY <1>7 DEF Splits
<1>9. (m \ {x}) \ {z} = (m \ {z}) \ {x}
  OBVIOUS
<1>10. rows[x].size \in Nat /\ rows[z].size \in Nat /\ Total(rows, (m \ {x}) \ {z}) \in Nat
  <2>1. IsFiniteSet((m \ {x}) \ {z}) /\ \A u \in (m \ {x}) \ {z} : rows[u].size \in Nat
    BY <1>3, FS_RemoveElement
  <2> QED BY <1>3, <1>4, <2>1, TotalNat
<1>11. Total(rows, m) = rows[z].size + Total(rows, m \ {z})
  <2> DEFINE a == Total(rows, m)  b == Total(rows, m \ {x})  c == Total(rows, m \ {z})
             d == Total(rows, (m \ {x}) \ {z})  i == rows[x].size  j == rows[z].size
  <2>1. a = i + b /\ b = j + d /\ c = i + d /\ i \in Nat /\ j \in Nat /\ d \in Nat
    <3>1. Total(rows, (m \ {z}) \ {x}) = d
      BY <1>9
    <3> QED BY <1>4, <1>8, <1>10, <3>1
  <2> HIDE DEF a, b, c, d, i, j
  <2>2. a = j + c
    BY <2>1
  <2> QED BY <2>2 DEF a, c, j
<1> QED BY <1>2, <1>11 DEF Splits

\* Only the sizes of the rows summed matter.
LEMMA TotalSame ==
    ASSUME NEW rows, NEW other, NEW S, IsFiniteSet(S),
           \A x \in S : rows[x].size = other[x].size
    PROVE  Total(rows, S) = Total(other, S)
<1> DEFINE B == {s \in SUBSET S : Total(rows, s) # Total(other, s)}
<1> SUFFICES ASSUME B # {} PROVE FALSE
  OBVIOUS
<1>1. PICK m \in B : \A s \in B : s \subseteq m => s = m
  <2>1. B \subseteq SUBSET S
    OBVIOUS
  <2> HIDE DEF B
  <2> QED BY <2>1, Minimal
<1>2. IsFiniteSet(m)
  BY <1>1, FS_Subset
<1>3. m # {}
  BY <1>1, <1>2, TotalAt
<1>4. /\ Pick(m) \in m /\ Total(rows, m) = rows[Pick(m)].size + Total(rows, m \ {Pick(m)})
      /\ Total(other, m) = other[Pick(m)].size + Total(other, m \ {Pick(m)})
  BY <1>2, <1>3, TotalAt, PickFact
<1>5. Total(rows, m \ {Pick(m)}) = Total(other, m \ {Pick(m)})
  BY <1>1, <1>4
<1> QED BY <1>1, <1>4, <1>5

\* Part of the rows is no more than all of them.
LEMMA TotalPart ==
    ASSUME NEW rows, NEW S, IsFiniteSet(S), \A x \in S : rows[x].size \in Nat,
           NEW T, T \subseteq S
    PROVE  Total(rows, T) <= Total(rows, S)
<1> DEFINE B == {s \in SUBSET S : T \subseteq s /\ ~(Total(rows, T) <= Total(rows, s))}
<1> SUFFICES ASSUME B # {} PROVE FALSE
  OBVIOUS
<1>1. PICK m \in B : \A s \in B : s \subseteq m => s = m
  <2>1. B \subseteq SUBSET S
    OBVIOUS
  <2> HIDE DEF B
  <2> QED BY <2>1, Minimal
<1>2. IsFiniteSet(m) /\ T \subseteq m /\ m \in SUBSET S /\ ~(Total(rows, T) <= Total(rows, m))
  BY <1>1, FS_Subset
<1>3. Total(rows, T) \in Nat
  <2>1. IsFiniteSet(T)
    BY FS_Subset
  <2> QED BY <2>1, TotalNat
<1>4. PICK y \in m : y \notin T
  BY <1>2, <1>3
<1>5. m \ {y} \notin B
  BY <1>1, <1>4
<1>6. Total(rows, T) <= Total(rows, m \ {y})
  BY <1>2, <1>4, <1>5
<1>7. Total(rows, m) = rows[y].size + Total(rows, m \ {y})
  BY <1>2, <1>4, TotalSplit
<1>8. Total(rows, m \ {y}) \in Nat /\ rows[y].size \in Nat
  <2>1. IsFiniteSet(m \ {y}) /\ \A u \in m \ {y} : rows[u].size \in Nat
    BY <1>2, FS_RemoveElement
  <2> QED BY <1>2, <1>4, <2>1, TotalNat
<1> QED BY <1>2, <1>3, <1>6, <1>7, <1>8

\* Files of size 1 add up to no more than their number.
LEMMA TotalCount ==
    ASSUME NEW rows, NEW S, IsFiniteSet(S), \A x \in S : rows[x].size = 1
    PROVE  Total(rows, S) = Cardinality(S)
<1> DEFINE B == {s \in SUBSET S : Total(rows, s) # Cardinality(s)}
<1> SUFFICES ASSUME B # {} PROVE FALSE
  OBVIOUS
<1>1. PICK m \in B : \A s \in B : s \subseteq m => s = m
  <2>1. B \subseteq SUBSET S
    OBVIOUS
  <2> HIDE DEF B
  <2> QED BY <2>1, Minimal
<1>2. IsFiniteSet(m) /\ m \in SUBSET S /\ Total(rows, m) # Cardinality(m)
  BY <1>1, FS_Subset
<1>3. m # {}
  BY <1>2, TotalAt, FS_EmptySet
<1>4. Pick(m) \in m /\ Total(rows, m) = rows[Pick(m)].size + Total(rows, m \ {Pick(m)})
  BY <1>2, <1>3, TotalAt, PickFact
<1>5. Total(rows, m \ {Pick(m)}) = Cardinality(m \ {Pick(m)})
  BY <1>1, <1>4
<1>6. Cardinality(m \ {Pick(m)}) = Cardinality(m) - 1 /\ Cardinality(m) \in Nat
  BY <1>2, <1>4, FS_RemoveElement, FS_CardinalityType
<1> QED BY <1>2, <1>4, <1>5, <1>6

------------------------------------------------------------------------------
(* Walks over a finite set, a step at a time *)

\* A set of naturals that is not empty has a least member.
LEMMA Least ==
    ASSUME NEW B, B \subseteq Nat, B # {}
    PROVE  \E n \in B : \A m \in B : n <= m
<1> DEFINE R == OpToRel(<, Nat)
<1>1. IsWellFoundedOn(R, Nat)
  BY NatLessThanWellFounded
<1>2. \A x, y \in Nat : <<x, y>> \in R <=> x < y
  BY DEF OpToRel
<1> HIDE DEF R
<1>3. PICK n \in B : \A m \in B : ~(<<m, n>> \in R)
  BY <1>1, WFMin
<1>4. ASSUME NEW m \in B PROVE n <= m
  <2>1. ~(m < n)
    BY <1>2, <1>3
  <2> QED BY <2>1
<1> QED BY <1>4

\* f[n] is what F makes of start in n steps.
Iter(f, F, start, N) == f = [n \in 0..N |-> IF n = 0 THEN start ELSE F[f[n - 1]]]

LEMMA IterExists ==
    ASSUME NEW F, NEW start, NEW N \in Nat
    PROVE  \E f : Iter(f, F, start, N)
<1> DEFINE B == {n \in Nat : ~\E f : Iter(f, F, start, n)}
<1> SUFFICES ASSUME B # {} PROVE FALSE
  OBVIOUS
<1>1. PICK m \in B : \A n \in B : m <= n
  <2>1. B \subseteq Nat
    OBVIOUS
  <2> HIDE DEF B
  <2> QED BY <2>1, Least
<1>2. CASE m = 0
  <2> DEFINE f == [n \in 0..0 |-> start]
  <2>1. Iter(f, F, start, 0)
    BY DEF Iter
  <2> QED BY <1>1, <1>2, <2>1
<1>3. CASE m # 0
  <2>1. m - 1 \in Nat /\ m - 1 \notin B
    BY <1>1, <1>3
  <2>2. PICK g : Iter(g, F, start, m - 1)
    BY <2>1
  <2> DEFINE f == [n \in 0..m |-> IF n = m THEN F[g[m - 1]] ELSE g[n]]
  <2>3. ASSUME NEW n \in 0..m PROVE f[n] = IF n = 0 THEN start ELSE F[f[n - 1]]
    <3>1. CASE n = m
      <4>1. m - 1 \in 0..m /\ m - 1 # m
        BY <1>3
      <4> QED BY <1>3, <3>1, <4>1
    <3>2. CASE n # m
      <4>1. n \in 0..(m - 1) /\ (n # 0 => n - 1 \in 0..m /\ n - 1 # m)
        BY <3>2
      <4>2. g[n] = IF n = 0 THEN start ELSE F[g[n - 1]]
        BY <2>2, <4>1 DEF Iter
      <4> QED BY <3>2, <4>1, <4>2
    <3> QED BY <3>1, <3>2
  <2>4. f = [n \in 0..m |-> IF n = 0 THEN start ELSE F[f[n - 1]]]
    <3>1. f = [n \in 0..m |-> f[n]]
      OBVIOUS
    <3> HIDE DEF f
    <3> QED BY <2>3, <3>1
  <2>5. Iter(f, F, start, m)
    <3> HIDE DEF f
    <3> QED BY <2>4 DEF Iter
  <2> QED BY <1>1, <2>5
<1> QED BY <1>2, <1>3

\* A walk that never loses what it has seen stands still after as many steps
\* as there are further elements.
LEMMA IterCloses ==
    ASSUME NEW P, IsFiniteSet(P), NEW F \in [SUBSET P -> SUBSET P],
           \A s \in SUBSET P : s \subseteq F[s],
           NEW start \in SUBSET P, start # {},
           NEW N \in Nat, Cardinality(P) <= N + 1,
           NEW f, Iter(f, F, start, N)
    PROVE  f[N] \in SUBSET P /\ start \subseteq f[N] /\ F[f[N]] = f[N]
<1> DEFINE Good(n) == /\ f[n] \in SUBSET P /\ start \subseteq f[n]
                      /\ F[f[n]] = f[n] \/ Cardinality(f[n]) >= n + 1
           B == {n \in 0..N : ~Good(n)}
<1>1. B = {}
  <2> SUFFICES ASSUME B # {} PROVE FALSE
    OBVIOUS
  <2>1. PICK m \in B : \A n \in B : m <= n
    <3>1. B \subseteq Nat
      OBVIOUS
    <3> HIDE DEF B
    <3> QED BY <3>1, Least
  <2>2. f[m] = IF m = 0 THEN start ELSE F[f[m - 1]]
    BY <2>1 DEF Iter
  <2>3. CASE m = 0
    <3>1. IsFiniteSet(start) /\ Cardinality(start) \in Nat /\ Cardinality(start) # 0
      BY FS_Subset, FS_CardinalityType, FS_EmptySet
    <3> QED BY <2>1, <2>2, <2>3, <3>1
  <2>4. CASE m # 0
    <3> DEFINE s == f[m - 1]  t == f[m]
    <3>1. m - 1 \in 0..N /\ m - 1 \notin B
      BY <2>1, <2>4
    <3>2. Good(m - 1)
      BY <3>1
    <3>3. s \in SUBSET P /\ start \subseteq s /\ (F[s] = s \/ Cardinality(s) >= m)
      BY <2>1, <3>2
    <3>4. t = F[s]
      BY <2>2, <2>4
    <3>5. t \in SUBSET P /\ start \subseteq t /\ s \subseteq t
      BY <3>3, <3>4
    <3>6. F[t] = t \/ Cardinality(t) >= m + 1
      <4>1. CASE t = s
        BY <3>3, <3>4, <4>1
      <4>2. CASE t # s
        <5>1. IsFiniteSet(t) /\ IsFiniteSet(s)
          BY <3>3, <3>5, FS_Subset
        <5>2. Cardinality(s) <= Cardinality(t) /\ Cardinality(s) # Cardinality(t)
          BY <3>5, <4>2, <5>1, FS_Subset
        <5>3. Cardinality(s) \in Nat /\ Cardinality(t) \in Nat
          BY <5>1, FS_CardinalityType
        <5>4. Cardinality(s) >= m
          BY <3>3, <3>4, <4>2
        <5> QED BY <2>1, <5>2, <5>3, <5>4
      <4> QED BY <4>1, <4>2
    <3> QED BY <2>1, <3>5, <3>6
  <2> QED BY <2>3, <2>4
<1>2. Good(N)
  BY <1>1
<1>3. CASE F[f[N]] # f[N]
  <2>1. IsFiniteSet(f[N]) /\ Cardinality(f[N]) <= Cardinality(P) /\ Cardinality(P) \in Nat
    BY <1>2, FS_Subset, FS_CardinalityType
  <2>2. Cardinality(f[N]) \in Nat
    BY <2>1, FS_CardinalityType
  <2>3. Cardinality(f[N]) = Cardinality(P)
    BY <1>2, <1>3, <2>1, <2>2
  <2>4. f[N] = P
    BY <1>2, <2>1, <2>3, FS_Subset
  <2>5. F[P] \in SUBSET P /\ P \subseteq F[P]
    <3>1. P \in SUBSET P
      OBVIOUS
    <3> QED BY <3>1
  <2> QED BY <1>3, <2>4, <2>5
<1> QED BY <1>2, <1>3

\* The chain above a folder ends at the root or goes round: it has the
\* folder's parent and the parent of all its folders.
LEMMA AncestorsClosed ==
    ASSUME \A e \in Folders : folder[e].parent \in Places, NEW d \in Folders
    PROVE  /\ Ancestors(d) \in SUBSET Places
           /\ folder[d].parent \in Ancestors(d)
           /\ \A e \in Ancestors(d) \ {Root} : folder[e].parent \in Ancestors(d)
<1> DEFINE N == Cardinality(Folders)
           start == {folder[d].parent}
           F == [s \in SUBSET Places |-> s \cup {folder[e].parent : e \in s \ {Root}}]
           Walk(f) == f = [n \in 0..N |-> IF n = 0 THEN start
                             ELSE f[n - 1] \cup {folder[e].parent : e \in f[n - 1] \ {Root}}]
           up == CHOOSE f : Walk(f)
<1>1. N \in Nat /\ IsFiniteSet(Places) /\ Cardinality(Places) <= N + 1
  <2>1. IsFiniteSet(Folders) /\ Cardinality(Folders) \in Nat
    BY LibraryAssumption, FS_CardinalityType
  <2>2. /\ IsFiniteSet(Folders \cup {Root})
        /\ \/ Cardinality(Folders \cup {Root}) = Cardinality(Folders)
           \/ Cardinality(Folders \cup {Root}) = Cardinality(Folders) + 1
    BY <2>1, FS_AddElement
  <2> QED BY <2>1, <2>2 DEF Places
<1>2. start \in SUBSET Places /\ start # {}
  OBVIOUS
<1>3. F \in [SUBSET Places -> SUBSET Places] /\ \A s \in SUBSET Places : s \subseteq F[s]
  BY DEF Places
<1>4. ASSUME NEW f, Walk(f) PROVE Iter(f, F, start, N)
  <2> DEFINE B == {n \in 0..N : f[n] \notin SUBSET Places}
  <2>1. ASSUME NEW n \in 0..N
        PROVE  f[n] = IF n = 0 THEN start
                      ELSE f[n - 1] \cup {folder[e].parent : e \in f[n - 1] \ {Root}}
    BY <1>4
  <2> HIDE DEF start
  <2>2. B = {}
    <3> SUFFICES ASSUME B # {} PROVE FALSE
      OBVIOUS
    <3>1. PICK m \in B : \A n \in B : m <= n
      <4>1. B \subseteq Nat
        BY <1>1
      <4> HIDE DEF B
      <4> QED BY <4>1, Least
    <3>2. m # 0
      BY <1>2, <2>1, <3>1
    <3>3. m - 1 \in 0..N /\ m - 1 \notin B
      BY <1>1, <3>1, <3>2
    <3>4. f[m - 1] \in SUBSET Places
      BY <3>3
    <3>5. f[m] = f[m - 1] \cup {folder[e].parent : e \in f[m - 1] \ {Root}}
      BY <2>1, <3>1, <3>2
    <3>6. f[m] \in SUBSET Places
      BY <3>4, <3>5 DEF Places
    <3> QED BY <3>1, <3>6
  <2>3. ASSUME NEW n \in 0..N PROVE f[n] = IF n = 0 THEN start ELSE F[f[n - 1]]
    <3>1. CASE n # 0
      <4>1. n - 1 \in 0..N
        BY <1>1, <3>1
      <4>2. f[n - 1] \in SUBSET Places
        BY <2>2, <4>1
      <4>3. F[f[n - 1]] = f[n - 1] \cup {folder[e].parent : e \in f[n - 1] \ {Root}}
        BY <4>2
      <4> QED BY <2>1, <3>1, <4>3
    <3> QED BY <2>1, <3>1
  <2>4. f = [n \in 0..N |-> f[n]]
    BY <1>4
  <2> HIDE DEF F, Walk
  <2> QED BY <2>3, <2>4 DEF Iter
<1>5. \E f : Walk(f)
  <2>1. PICK f : Iter(f, F, start, N)
    BY <1>1, IterExists
  <2> DEFINE B == {n \in 0..N : f[n] \notin SUBSET Places}
  <2>2. ASSUME NEW n \in 0..N PROVE f[n] = IF n = 0 THEN start ELSE F[f[n - 1]]
    <3> HIDE DEF F, start
    <3> QED BY <2>1 DEF Iter
  <2>3. B = {}
    <3> SUFFICES ASSUME B # {} PROVE FALSE
      OBVIOUS
    <3>1. PICK m \in B : \A n \in B : m <= n
      <4>1. B \subseteq Nat
        BY <1>1
      <4> HIDE DEF B
      <4> QED BY <4>1, Least
    <3> HIDE DEF F, start
    <3>2. m # 0
      BY <1>2, <2>2, <3>1
    <3>3. m - 1 \in 0..N /\ m - 1 \notin B
      BY <1>1, <3>1, <3>2
    <3>4. f[m - 1] \in SUBSET Places /\ f[m] = F[f[m - 1]]
      BY <2>2, <3>1, <3>2, <3>3
    <3> QED BY <1>3, <3>1, <3>4
  <2>4. ASSUME NEW n \in 0..N
        PROVE  f[n] = IF n = 0 THEN start
                      ELSE f[n - 1] \cup {folder[e].parent : e \in f[n - 1] \ {Root}}
    <3>1. CASE n # 0
      <4>1. n - 1 \in 0..N
        BY <1>1, <3>1
      <4>2. f[n - 1] \in SUBSET Places
        BY <2>3, <4>1
      <4>3. F[f[n - 1]] = f[n - 1] \cup {folder[e].parent : e \in f[n - 1] \ {Root}}
        BY <4>2
      <4> QED BY <2>2, <3>1, <4>3
    <3> QED BY <2>2, <3>1
  <2>5. f = [n \in 0..N |-> f[n]]
    <3> HIDE DEF F, start
    <3> QED BY <2>1 DEF Iter
  <2>6. Walk(f)
    <3> HIDE DEF F, start
    <3> QED BY <2>4, <2>5
  <2> QED BY <2>6
<1>6. Walk(up)
  <2> HIDE DEF Walk
  <2> QED BY <1>5
<1>7. Ancestors(d) = up[N]
  BY DEF Ancestors
<1>8. Iter(up, F, start, N)
  <2> HIDE DEF up, F, Walk
  <2> QED BY <1>4, <1>6
<1>9. up[N] \in SUBSET Places /\ start \subseteq up[N] /\ F[up[N]] = up[N]
  <2> HIDE DEF up, F, start, N
  <2> QED BY <1>1, <1>2, <1>3, <1>8, IterCloses
<1> HIDE DEF up
<1> QED BY <1>7, <1>9

\* What is below a folder: the folder and all live folders in one of its own.
LEMMA SubtreeClosed ==
    ASSUME NEW d \in Folders
    PROVE  /\ list_subtree_ids(d) \in SUBSET Folders
           /\ d \in list_subtree_ids(d)
           /\ \A e \in Folders : get_folder(e) /\ folder[e].parent \in list_subtree_ids(d)
                                 => e \in list_subtree_ids(d)
<1> DEFINE N == Cardinality(Folders)
           start == {d}
           F == [s \in SUBSET Folders |-> s \cup {e \in Folders : get_folder(e) /\ folder[e].parent \in s}]
           Walk(f) == f = [n \in 0..N |-> IF n = 0 THEN start
                             ELSE f[n - 1] \cup {e \in Folders : get_folder(e) /\ folder[e].parent \in f[n - 1]}]
           down == CHOOSE f : Walk(f)
<1>1. N \in Nat /\ IsFiniteSet(Folders) /\ Cardinality(Folders) <= N + 1
  <2>1. IsFiniteSet(Folders) /\ Cardinality(Folders) \in Nat
    BY LibraryAssumption, FS_CardinalityType
  <2> QED BY <2>1
<1>2. start \in SUBSET Folders /\ start # {}
  OBVIOUS
<1>3. F \in [SUBSET Folders -> SUBSET Folders] /\ \A s \in SUBSET Folders : s \subseteq F[s]
  OBVIOUS
<1>4. ASSUME NEW f, Walk(f) PROVE Iter(f, F, start, N)
  <2> DEFINE B == {n \in 0..N : f[n] \notin SUBSET Folders}
  <2>1. ASSUME NEW n \in 0..N
        PROVE  f[n] = IF n = 0 THEN start
                      ELSE f[n - 1] \cup {e \in Folders : get_folder(e) /\ folder[e].parent \in f[n - 1]}
    BY <1>4
  <2> HIDE DEF start
  <2>2. B = {}
    <3> SUFFICES ASSUME B # {} PROVE FALSE
      OBVIOUS
    <3>1. PICK m \in B : \A n \in B : m <= n
      <4>1. B \subseteq Nat
        BY <1>1
      <4> HIDE DEF B
      <4> QED BY <4>1, Least
    <3>2. m # 0
      BY <1>2, <2>1, <3>1
    <3>3. m - 1 \in 0..N /\ m - 1 \notin B
      BY <1>1, <3>1, <3>2
    <3>4. f[m - 1] \in SUBSET Folders
      BY <3>3
    <3>5. f[m] = f[m - 1] \cup {e \in Folders : get_folder(e) /\ folder[e].parent \in f[m - 1]}
      BY <2>1, <3>1, <3>2
    <3>6. f[m] \in SUBSET Folders
      BY <3>4, <3>5
    <3> QED BY <3>1, <3>6
  <2>3. ASSUME NEW n \in 0..N PROVE f[n] = IF n = 0 THEN start ELSE F[f[n - 1]]
    <3>1. CASE n # 0
      <4>1. n - 1 \in 0..N
        BY <1>1, <3>1
      <4>2. f[n - 1] \in SUBSET Folders
        BY <2>2, <4>1
      <4>3. F[f[n - 1]] = f[n - 1] \cup {e \in Folders : get_folder(e) /\ folder[e].parent \in f[n - 1]}
        BY <4>2
      <4> QED BY <2>1, <3>1, <4>3
    <3> QED BY <2>1, <3>1
  <2>4. f = [n \in 0..N |-> f[n]]
    BY <1>4
  <2> HIDE DEF F, Walk
  <2> QED BY <2>3, <2>4 DEF Iter
<1>5. \E f : Walk(f)
  <2>1. PICK f : Iter(f, F, start, N)
    BY <1>1, IterExists
  <2> DEFINE B == {n \in 0..N : f[n] \notin SUBSET Folders}
  <2>2. ASSUME NEW n \in 0..N PROVE f[n] = IF n = 0 THEN start ELSE F[f[n - 1]]
    <3> HIDE DEF F, start
    <3> QED BY <2>1 DEF Iter
  <2>3. B = {}
    <3> SUFFICES ASSUME B # {} PROVE FALSE
      OBVIOUS
    <3>1. PICK m \in B : \A n \in B : m <= n
      <4>1. B \subseteq Nat
        BY <1>1
      <4> HIDE DEF B
      <4> QED BY <4>1, Least
    <3> HIDE DEF F, start
    <3>2. m # 0
      BY <1>2, <2>2, <3>1
    <3>3. m - 1 \in 0..N /\ m - 1 \notin B
      BY <1>1, <3>1, <3>2
    <3>4. f[m - 1] \in SUBSET Folders /\ f[m] = F[f[m - 1]]
      BY <2>2, <3>1, <3>2, <3>3
    <3> QED BY <1>3, <3>1, <3>4
  <2>4. ASSUME NEW n \in 0..N
        PROVE  f[n] = IF n = 0 THEN start
                      ELSE f[n - 1] \cup {e \in Folders : get_folder(e) /\ folder[e].parent \in f[n - 1]}
    <3>1. CASE n # 0
      <4>1. n - 1 \in 0..N
        BY <1>1, <3>1
      <4>2. f[n - 1] \in SUBSET Folders
        BY <2>3, <4>1
      <4>3. F[f[n - 1]] = f[n - 1] \cup {e \in Folders : get_folder(e) /\ folder[e].parent \in f[n - 1]}
        BY <4>2
      <4> QED BY <2>2, <3>1, <4>3
    <3> QED BY <2>2, <3>1
  <2>5. f = [n \in 0..N |-> f[n]]
    <3> HIDE DEF F, start
    <3> QED BY <2>1 DEF Iter
  <2>6. Walk(f)
    <3> HIDE DEF F, start
    <3> QED BY <2>4, <2>5
  <2> QED BY <2>6
<1>6. Walk(down)
  <2> HIDE DEF Walk
  <2> QED BY <1>5
<1>7. list_subtree_ids(d) = down[N]
  BY DEF list_subtree_ids
<1>8. Iter(down, F, start, N)
  <2> HIDE DEF down, F, Walk
  <2> QED BY <1>4, <1>6
<1>9. down[N] \in SUBSET Folders /\ start \subseteq down[N] /\ F[down[N]] = down[N]
  <2> HIDE DEF down, F, start, N
  <2>1. PICK P, G, M : P = Folders /\ G = F /\ M = N
    OBVIOUS
  <2>2. /\ IsFiniteSet(P) /\ Cardinality(P) <= M + 1 /\ M \in Nat
        /\ G \in [SUBSET P -> SUBSET P] /\ \A s \in SUBSET P : s \subseteq G[s]
        /\ start \in SUBSET P /\ start # {} /\ Iter(down, G, start, M)
    BY <1>1, <1>2, <1>3, <1>8, <2>1
  <2>3. down[M] \in SUBSET P /\ start \subseteq down[M] /\ G[down[M]] = down[M]
    BY <2>2, IterCloses
  <2> QED BY <2>1, <2>3
<1> HIDE DEF down
<1> QED BY <1>7, <1>9

------------------------------------------------------------------------------
(* Types, and what a request holds at each of its steps *)

Ops == {"idle"} \cup VerifyOps \cup RemoveOps \cup OtherOps

Request == [op : Ops, key : Keys \cup {NoKey}, loaded : UploadSession, size : 0..MaxSize,
            file : Files \cup {NoFile}, self : Places, place : Places, name : Names,
            ids : SUBSET Folders, keys : SUBSET Keys, todo : SUBSET Folders,
            job : Jobs \cup {NoJob}]

RequestHas(q) ==
    /\ q.op \in VerifyOps => q.key \in Keys /\ q.keys = {}
    /\ q.op \in {"rename", "move", "collect"} => q.self \in Folders
    /\ q.op \in {"move_file", "unlink", "unlink_row"} => q.file \in Files
    /\ q.op \in {"unlink", "unlink_row"} => q.key \in Keys
    /\ q.op = "job" => q.job \in Jobs
    /\ q.loaded.owner = "guest" => q.op \in {"complete", "exists", "owner"} /\ q.job \in Jobs
    /\ q.keys # {} => q.op \in RemoveOps \cup {"drop"}
    /\ q.op = "idle" => q = Idle

Shape == /\ TypeOKJobs
         /\ \A r \in Requests : RequestHas(reqs[r])
         /\ \A f \in Files : get_file(f) => row[f].key \in Keys
         /\ \A d \in Folders : get_folder(d) \/ folder[d].parent = Root

\* Only the request r changes, to a proper one.
Only(r) == /\ reqs' \in [Requests -> Request]
           /\ \A q \in Requests : q # r => reqs'[q] = reqs[q]
           /\ RequestHas(reqs'[r])

USE DEF VerifyOps, SeenOps, RemoveOps, OtherOps

LEMMA RequestsTyped ==
    ASSUME TypeOKJobs
    PROVE  reqs \in [Requests -> Request]
BY DEF TypeOKJobs, TypeOKLibrary, Request, Ops

LEMMA IdleFacts ==
    /\ Idle \in Request /\ RequestHas(Idle)
    /\ Idle.op = "idle" /\ Idle.key = NoKey /\ Idle.keys = {} /\ Idle.job = NoJob
    /\ Idle.loaded = NoSession /\ Idle.file = NoFile /\ Idle.todo = {} /\ Idle.ids = {}
    /\ Idle.size = 0
<1>1. (CHOOSE n \in Names : TRUE) \in Names
  BY LibraryAssumption
<1>2. NoSession \in UploadSession /\ NoSession.owner = "user"
  BY DEF NoSession, UploadSession
<1>3. 0 \in 0..MaxSize
  BY UploadAssumption
<1> QED BY <1>1, <1>2, <1>3 DEF Idle, Request, Ops, RequestHas, Places

LEMMA AnswerFacts ==
    ASSUME reqs \in [Requests -> Request], NEW r \in Requests, Answer(r)
    PROVE  Only(r) /\ reqs'[r] = Idle
BY IdleFacts DEF Answer, Only

LEMMA StepFacts ==
    ASSUME reqs \in [Requests -> Request], NEW r \in Requests, NEW op \in Ops, Step(r, op),
           RequestHas([reqs[r] EXCEPT !.op = op])
    PROVE  /\ Only(r) /\ reqs'[r] = [reqs[r] EXCEPT !.op = op]
           /\ reqs'[r].op = op /\ reqs'[r].key = reqs[r].key /\ reqs'[r].keys = reqs[r].keys
           /\ reqs'[r].job = reqs[r].job /\ reqs'[r].loaded = reqs[r].loaded
           /\ reqs'[r].file = reqs[r].file /\ reqs'[r].size = reqs[r].size
           /\ reqs'[r].self = reqs[r].self /\ reqs'[r].place = reqs[r].place
BY DEF Step, Only, Request

------------------------------------------------------------------------------
(* What each step does to the request that takes it *)

LEMMA ShapeFacts ==
    ASSUME Shape
    PROVE  /\ reqs \in [Requests -> Request]
           /\ \A r \in Requests : reqs[r] \in Request /\ RequestHas(reqs[r])
           /\ folder \in [Folders -> UserFolder] /\ row \in [Files -> UserFile]
           /\ session \in [Keys -> UploadSession] /\ object \in [Keys -> 0..MaxSize]
BY RequestsTyped DEF Shape, TypeOKJobs, TypeOKLibrary, TypeOKUploads

LEMMA VerifyRequest ==
    ASSUME Shape, NEW r \in Requests, NEW k \in Keys, NEW j \in Jobs \cup {NoJob},
           verify_upload_session(r, k, j), session[k].owner = "guest" => j \in Jobs
    PROVE  /\ Only(r) /\ reqs[r].op = "idle" /\ reqs[r] = Idle
           /\ reqs'[r].op = IF session[k].upload THEN "complete" ELSE "exists"
           /\ reqs'[r].key = k /\ reqs'[r].keys = {} /\ reqs'[r].loaded = session[k]
           /\ reqs'[r].job = j /\ reqs'[r].file = NoFile
<1>1. reqs[r].op = "idle" /\ session[k] \in UploadSession /\ session[k].owner \in {"user", "guest"}
  BY ShapeFacts DEF verify_upload_session, Start, UploadSession
<1> DEFINE q == [Idle EXCEPT !.op = IF session[k].upload THEN "complete" ELSE "exists",
                             !.key = k, !.loaded = session[k], !.job = j]
<1>2. reqs' = [reqs EXCEPT ![r] = q]
  BY DEF verify_upload_session, Start
<1>3. /\ q.op = (IF session[k].upload THEN "complete" ELSE "exists") /\ q.key = k /\ q.keys = {}
      /\ q.loaded = session[k] /\ q.job = j /\ q.file = NoFile
  BY IdleFacts DEF Request
<1>4. q \in Request
  <2>1. (IF session[k].upload THEN "complete" ELSE "exists") \in Ops
    BY DEF Ops
  <2> QED BY <1>1, <2>1, IdleFacts DEF Request
<1>5. RequestHas(q)
  BY <1>1, <1>3 DEF RequestHas
<1> HIDE DEF q
<1> QED BY <1>1, <1>2, <1>3, <1>4, <1>5, ShapeFacts DEF Only, RequestHas

LEMMA CompletePartsRequest ==
    ASSUME Shape, NEW r \in Requests, CompleteParts(r)
    PROVE  /\ Only(r) /\ reqs[r].op = "complete" /\ reqs[r].key \in Keys
           /\ IF CanComplete(reqs[r].key)
              THEN reqs'[r] = [reqs[r] EXCEPT !.op = "exists"] ELSE reqs'[r] = Idle
<1>1. reqs[r].op = "complete" /\ RequestHas(reqs[r]) /\ reqs[r].key \in Keys /\ reqs[r] \in Request
  BY ShapeFacts DEF CompleteParts, RequestHas
<1>2. CASE CanComplete(reqs[r].key)
  <2>1. RequestHas([reqs[r] EXCEPT !.op = "exists"])
    BY <1>1 DEF RequestHas, Request
  <2> QED BY <1>1, <1>2, <2>1, ShapeFacts, StepFacts DEF CompleteParts, Ops
<1>3. CASE ~CanComplete(reqs[r].key)
  BY <1>1, <1>3, ShapeFacts, AnswerFacts DEF CompleteParts
<1> QED BY <1>2, <1>3

LEMMA CheckObjectRequest ==
    ASSUME Shape, NEW r \in Requests, CheckObject(r)
    PROVE  /\ Only(r) /\ reqs[r].op = "exists" /\ reqs[r].key \in Keys
           /\ IF object_exists(reqs[r].key)
              THEN reqs'[r] = [reqs[r] EXCEPT !.op = "owner"] ELSE reqs'[r] = Idle
<1>1. reqs[r].op = "exists" /\ RequestHas(reqs[r]) /\ reqs[r].key \in Keys /\ reqs[r] \in Request
  BY ShapeFacts DEF CheckObject, RequestHas
<1>2. CASE object_exists(reqs[r].key)
  <2>1. RequestHas([reqs[r] EXCEPT !.op = "owner"])
    BY <1>1 DEF RequestHas, Request
  <2> QED BY <1>1, <1>2, <2>1, ShapeFacts, StepFacts DEF CheckObject, Ops
<1>3. CASE ~object_exists(reqs[r].key)
  BY <1>1, <1>3, ShapeFacts, AnswerFacts DEF CheckObject
<1> QED BY <1>2, <1>3

LEMMA CheckOwnerRequest ==
    ASSUME Shape, NEW r \in Requests, CheckOwner(r)
    PROVE  /\ Only(r) /\ reqs[r].op = "owner" /\ reqs[r].key \in Keys
           /\ reqs[r].loaded.owner = "user"
           /\ reqs'[r] = [reqs[r] EXCEPT !.op = "measure"]
<1>1. /\ reqs[r].op = "owner" /\ RequestHas(reqs[r]) /\ reqs[r].key \in Keys
      /\ reqs[r] \in Request /\ reqs[r].loaded.owner = "user"
  BY ShapeFacts DEF CheckOwner, RequestHas
<1>2. RequestHas([reqs[r] EXCEPT !.op = "measure"])
  BY <1>1 DEF RequestHas, Request
<1>3. Step(r, "measure") /\ "measure" \in Ops
  BY DEF CheckOwner, Ops
<1>4. Only(r) /\ reqs'[r] = [reqs[r] EXCEPT !.op = "measure"]
  BY <1>2, <1>3, ShapeFacts, StepFacts
<1> QED BY <1>1, <1>4

\* A refused upload's key is the one to remove.
LEMMA RefuseFacts ==
    ASSUME Shape, NEW r \in Requests, Refuse(r), reqs[r].op \in {"measure", "lock"}
    PROVE  /\ Only(r) /\ reqs[r].key \in Keys
           /\ reqs'[r] = [reqs[r] EXCEPT !.op = "remove", !.keys = {reqs[r].key}]
<1>1. RequestHas(reqs[r]) /\ reqs[r].key \in Keys /\ reqs[r] \in Request
  BY ShapeFacts DEF RequestHas
<1> DEFINE q == [reqs[r] EXCEPT !.op = "remove", !.keys = {reqs[r].key}]
<1>2. q \in Request /\ RequestHas(q)
  BY <1>1 DEF Request, Ops, RequestHas
<1>3. reqs' = [reqs EXCEPT ![r] = q]
  BY <1>1, ShapeFacts DEF Refuse, Request
<1> HIDE DEF q
<1>4. Only(r) /\ reqs'[r] = q
  BY <1>2, <1>3, ShapeFacts DEF Only
<1> QED BY <1>1, <1>4 DEF q

LEMMA MeasureRequest ==
    ASSUME Shape, NEW r \in Requests, measure_upload(r)
    PROVE  /\ Only(r) /\ reqs[r].op = "measure" /\ reqs[r].key \in Keys
           /\ \/ /\ \/ stat_object(reqs[r].key) > MaxFile
                    \/ ~validate_upload_signature(reqs[r].key)
                    \/ ~FolderThere(reqs[r].loaded.folder)
                 /\ reqs'[r] = [reqs[r] EXCEPT !.op = "remove", !.keys = {reqs[r].key}]
              \/ /\ ~(stat_object(reqs[r].key) > MaxFile)
                 /\ validate_upload_signature(reqs[r].key)
                 /\ FolderThere(reqs[r].loaded.folder)
                 /\ reqs'[r] = [reqs[r] EXCEPT !.op = "find", !.size = stat_object(reqs[r].key)]
<1> DEFINE k == reqs[r].key
           bad == \/ stat_object(k) > MaxFile \/ ~validate_upload_signature(k)
                  \/ ~FolderThere(reqs[r].loaded.folder)
           q == [reqs[r] EXCEPT !.op = "find", !.size = stat_object(k)]
<1>1. reqs[r].op = "measure" /\ RequestHas(reqs[r]) /\ k \in Keys /\ reqs[r] \in Request
  BY ShapeFacts DEF measure_upload, RequestHas
<1>2. IF bad THEN Refuse(r)
      ELSE reqs' = [reqs EXCEPT ![r].op = "find", ![r].size = stat_object(k)]
  BY DEF measure_upload
<1>3. CASE bad
  <2>1. Refuse(r)
    BY <1>2, <1>3
  <2> QED BY <1>1, <1>3, <2>1, RefuseFacts
<1>4. CASE ~bad
  <2>1. stat_object(k) \in 0..MaxSize
    BY <1>1, ShapeFacts DEF stat_object
  <2>2. q \in Request /\ RequestHas(q)
    BY <1>1, <2>1 DEF Request, Ops, RequestHas
  <2>3. reqs' = [reqs EXCEPT ![r] = q]
    BY <1>1, <1>2, <1>4, ShapeFacts DEF Request
  <2> HIDE DEF q
  <2>4. Only(r) /\ reqs'[r] = q
    BY <2>2, <2>3, ShapeFacts DEF Only
  <2> QED BY <1>1, <1>4, <2>4 DEF q
<1> QED BY <1>3, <1>4

LEMMA FindRequest ==
    ASSUME Shape, NEW r \in Requests, find_existing(r)
    PROVE  /\ Only(r) /\ reqs[r].op = "find" /\ reqs[r].key \in Keys
           /\ \/ /\ find_by_key(reqs[r].key) # {}
                 /\ reqs'[r] = Idle \/ reqs'[r] = [reqs[r] EXCEPT !.op = "job"]
              \/ /\ find_by_key(reqs[r].key) = {}
                 /\ reqs'[r] = [reqs[r] EXCEPT !.op = "lock"]
<1>1. /\ reqs[r].op = "find" /\ RequestHas(reqs[r]) /\ reqs[r].key \in Keys
      /\ reqs[r] \in Request /\ "job" \in Ops /\ "lock" \in Ops
  BY ShapeFacts DEF find_existing, RequestHas, Ops
<1>2. IF find_by_key(reqs[r].key) # {}
      THEN IF reqs[r].job = NoJob THEN Answer(r) ELSE Step(r, "job")
      ELSE Step(r, "lock")
  BY DEF find_existing
<1>3. RequestHas([reqs[r] EXCEPT !.op = "lock"])
  BY <1>1 DEF RequestHas, Request
<1>4. CASE find_by_key(reqs[r].key) = {}
  BY <1>1, <1>2, <1>3, <1>4, ShapeFacts, StepFacts
<1>5. CASE find_by_key(reqs[r].key) # {} /\ reqs[r].job = NoJob
  BY <1>1, <1>2, <1>5, ShapeFacts, AnswerFacts
<1>6. CASE find_by_key(reqs[r].key) # {} /\ reqs[r].job # NoJob
  <2>1. RequestHas([reqs[r] EXCEPT !.op = "job"])
    BY <1>1, <1>6 DEF RequestHas, Request
  <2> QED BY <1>1, <1>2, <1>6, <2>1, ShapeFacts, StepFacts
<1> QED BY <1>4, <1>5, <1>6

LEMMA LockRequest ==
    ASSUME Shape, NEW r \in Requests, lock_and_check(r)
    PROVE  /\ Only(r) /\ reqs[r].op = "lock" /\ reqs[r].key \in Keys
           /\ \/ /\ evaluate_storage_quota(get_user_storage_used, reqs[r].size)
                 /\ reqs'[r] = [reqs[r] EXCEPT !.op = "save"]
              \/ reqs'[r] = [reqs[r] EXCEPT !.op = "remove", !.keys = {reqs[r].key}]
<1>1. /\ reqs[r].op = "lock" /\ RequestHas(reqs[r]) /\ reqs[r].key \in Keys
      /\ reqs[r] \in Request /\ "save" \in Ops
  BY ShapeFacts DEF lock_and_check, RequestHas, Ops
<1>2. IF evaluate_storage_quota(get_user_storage_used, reqs[r].size)
      THEN Step(r, "save") ELSE Refuse(r)
  BY DEF lock_and_check
<1>3. CASE ~evaluate_storage_quota(get_user_storage_used, reqs[r].size)
  <2>1. Refuse(r)
    BY <1>2, <1>3
  <2> QED BY <1>1, <2>1, RefuseFacts
<1>4. CASE evaluate_storage_quota(get_user_storage_used, reqs[r].size)
  <2>1. RequestHas([reqs[r] EXCEPT !.op = "save"])
    BY <1>1 DEF RequestHas, Request
  <2>2. Step(r, "save")
    BY <1>2, <1>4
  <2> QED BY <1>1, <1>4, <2>1, <2>2, ShapeFacts, StepFacts
<1> QED BY <1>3, <1>4

LEMMA SaveRequest ==
    ASSUME Shape, NEW r \in Requests, save_file(r)
    PROVE  /\ Only(r) /\ reqs[r].op = "save" /\ reqs[r].key \in Keys
           /\ reqs'[r] = Idle \/ reqs'[r] = [reqs[r] EXCEPT !.op = "job"]
<1>1. /\ reqs[r].op = "save" /\ RequestHas(reqs[r]) /\ reqs[r].key \in Keys
      /\ reqs[r] \in Request /\ "job" \in Ops
  BY ShapeFacts DEF save_file, RequestHas, Ops
<1>2. Answer(r) \/ (reqs[r].job # NoJob /\ Step(r, "job"))
  BY DEF save_file
<1>3. CASE Answer(r)
  BY <1>1, <1>3, ShapeFacts, AnswerFacts
<1>4. CASE reqs[r].job # NoJob /\ Step(r, "job")
  <2>1. RequestHas([reqs[r] EXCEPT !.op = "job"])
    BY <1>1, <1>4 DEF RequestHas, Request
  <2> QED BY <1>1, <1>4, <2>1, ShapeFacts, StepFacts
<1> QED BY <1>2, <1>3, <1>4

LEMMA RemoveOneRequest ==
    ASSUME Shape, NEW r \in Requests, reqs[r].op \in RemoveOps, NEW k \in reqs[r].keys,
           reqs' = [reqs EXCEPT ![r].keys = @ \ {k}]
    PROVE  Only(r) /\ reqs'[r] = [reqs[r] EXCEPT !.keys = reqs[r].keys \ {k}]
<1> DEFINE q == [reqs[r] EXCEPT !.keys = reqs[r].keys \ {k}]
<1>1. q \in Request /\ RequestHas(q)
  BY ShapeFacts DEF Request, RequestHas
<1>2. reqs' = [reqs EXCEPT ![r] = q]
  BY ShapeFacts DEF Request
<1> HIDE DEF q
<1>3. Only(r) /\ reqs'[r] = q
  BY <1>1, <1>2, ShapeFacts DEF Only
<1> QED BY <1>3 DEF q

LEMMA RemoveFailsRequest ==
    ASSUME Shape, NEW r \in Requests, RemoveFails(r)
    PROVE  /\ Only(r) /\ reqs[r].op \in RemoveOps
           /\ \/ \E k \in reqs[r].keys :
                    /\ reqs[r].op = "gather" /\ leaked' = leaked \cup {k} /\ UNCHANGED lock
                    /\ reqs'[r] = [reqs[r] EXCEPT !.keys = reqs[r].keys \ {k}, !.todo = {}]
              \/ /\ leaked' = leaked \cup reqs[r].keys /\ Released(r)
                 /\ reqs'[r] = Idle
<1>1. reqs[r].op \in RemoveOps
  BY DEF RemoveFails
<1>2. PICK k \in reqs[r].keys :
          IF reqs[r].op = "gather"
          THEN /\ leaked' = leaked \cup {k}
               /\ reqs' = [reqs EXCEPT ![r].keys = @ \ {k}, ![r].todo = {}]
               /\ NoLock
          ELSE /\ leaked' = leaked \cup reqs[r].keys
               /\ Answer(r)
               /\ Released(r)
  BY DEF RemoveFails
<1>3. CASE reqs[r].op = "gather"
  <2> DEFINE q == [reqs[r] EXCEPT !.keys = reqs[r].keys \ {k}, !.todo = {}]
  <2>1. q \in Request /\ RequestHas(q)
    BY <1>3, ShapeFacts DEF Request, RequestHas
  <2>2. reqs' = [reqs EXCEPT ![r] = q]
    BY <1>2, <1>3, ShapeFacts DEF Request
  <2> HIDE DEF q
  <2>3. Only(r) /\ reqs'[r] = q
    BY <2>1, <2>2, ShapeFacts DEF Only
  <2> QED BY <1>1, <1>2, <1>3, <2>3 DEF q, NoLock
<1>4. CASE reqs[r].op # "gather"
  BY <1>1, <1>2, <1>4, ShapeFacts, AnswerFacts
<1> QED BY <1>3, <1>4

LEMMA RemoveDoneRequest ==
    ASSUME Shape, NEW r \in Requests, RemoveDone(r)
    PROVE  /\ Only(r) /\ reqs[r].op \in RemoveOps /\ reqs[r].keys = {}
           /\ \/ reqs'[r] = Idle
              \/ /\ reqs'[r].op \in {"collect", "remove"}
                 /\ reqs'[r].keys = {} /\ reqs'[r].key = reqs[r].key
                 /\ reqs'[r].job = reqs[r].job /\ reqs'[r].loaded = reqs[r].loaded
                 /\ reqs'[r].file = reqs[r].file
<1>1. reqs[r].op \in RemoveOps /\ reqs[r].keys = {}
  BY DEF RemoveDone
<1>2. CASE reqs[r].todo = {}
  BY <1>1, <1>2, ShapeFacts, AnswerFacts DEF RemoveDone
<1>3. CASE reqs[r].todo # {}
  <2>1. PICK d \in reqs[r].todo :
           reqs' = [reqs EXCEPT ![r].todo = @ \ {d}, ![r].self = d,
                                ![r].op = IF get_folder(d) THEN "collect" ELSE "remove"]
    BY <1>3 DEF RemoveDone
  <2> DEFINE op == IF get_folder(d) THEN "collect" ELSE "remove"
             q == [reqs[r] EXCEPT !.todo = reqs[r].todo \ {d}, !.self = d, !.op = op]
  <2>2. op \in {"collect", "remove"}
    OBVIOUS
  <2>3. reqs' = [reqs EXCEPT ![r] = q]
    BY <2>1, ShapeFacts DEF Request
  <2> HIDE DEF op
  <2>4. d \in Folders /\ d \in Places /\ op \in Ops /\ reqs[r] \in Request /\ RequestHas(reqs[r])
    BY <2>2, ShapeFacts DEF Request, Ops, Places
  <2>5. /\ q \in Request /\ q.op = op /\ q.self = d /\ q.keys = reqs[r].keys /\ q.key = reqs[r].key
        /\ q.job = reqs[r].job /\ q.loaded = reqs[r].loaded /\ q.file = reqs[r].file
    BY <2>4 DEF Request
  <2> HIDE DEF q
  <2>6. RequestHas(q)
    BY <1>1, <2>2, <2>4, <2>5 DEF RequestHas
  <2>7. Only(r) /\ reqs'[r] = q
    BY <2>3, <2>5, <2>6, ShapeFacts DEF Only
  <2> QED BY <1>1, <2>2, <2>5, <2>7
<1> QED BY <1>2, <1>3

LEMMA StartFacts ==
    ASSUME Shape, NEW r \in Requests, NEW q \in Request, RequestHas(q), Start(r, q)
    PROVE  Only(r) /\ reqs[r] = Idle /\ reqs'[r] = q
BY ShapeFacts DEF Start, Only, RequestHas

LEMMA MoveFileArrives ==
    ASSUME Shape, NEW r \in Requests, NEW f \in Files, NEW d \in Places, move_file_request(r, f, d)
    PROVE  /\ Only(r) /\ reqs[r] = Idle
           /\ reqs'[r].op = "move_file" /\ reqs'[r].key = NoKey /\ reqs'[r].keys = {}
           /\ reqs'[r].job = NoJob /\ reqs'[r].loaded = NoSession
<1> DEFINE q == [Idle EXCEPT !.op = "move_file", !.file = f, !.place = d]
<1>1. q \in Request /\ RequestHas(q)
  BY IdleFacts DEF Request, Ops, RequestHas, NoSession
<1>2. /\ q.op = "move_file" /\ q.key = NoKey /\ q.keys = {} /\ q.job = NoJob
      /\ q.loaded = NoSession
  BY IdleFacts DEF Request
<1>3. Start(r, q)
  BY DEF move_file_request
<1> HIDE DEF q
<1> QED BY <1>1, <1>2, <1>3, StartFacts

LEMMA DeleteFileArrives ==
    ASSUME Shape, NEW r \in Requests, NEW f \in Files, delete_file_request(r, f)
    PROVE  /\ Only(r) /\ reqs[r] = Idle /\ row[f].key \in Keys
           /\ reqs'[r].op = "unlink" /\ reqs'[r].key = row[f].key /\ reqs'[r].keys = {}
           /\ reqs'[r].file = f /\ reqs'[r].job = NoJob /\ reqs'[r].loaded = NoSession
<1> DEFINE q == [Idle EXCEPT !.op = "unlink", !.file = f, !.key = row[f].key]
<1>1. row[f].key \in Keys
  BY DEF delete_file_request, Shape
<1>2. q \in Request /\ RequestHas(q)
  BY <1>1, IdleFacts DEF Request, Ops, RequestHas, NoSession
<1>3. /\ q.op = "unlink" /\ q.key = row[f].key /\ q.keys = {} /\ q.file = f /\ q.job = NoJob
      /\ q.loaded = NoSession
  BY IdleFacts DEF Request
<1>4. Start(r, q)
  BY DEF delete_file_request
<1> HIDE DEF q
<1> QED BY <1>1, <1>2, <1>3, <1>4, StartFacts

\* The files a batch finds lose their rows, and it is to remove their objects.
LEMMA BatchArrives ==
    ASSUME Shape, NEW r \in Requests, batch_delete(r)
    PROVE  /\ Only(r) /\ reqs[r] = Idle
           /\ \E found \in SUBSET {f \in Files : get_file(f)} :
                 /\ row' = [f \in Files |-> IF f \in found THEN GoneFile ELSE row[f]]
                 /\ reqs'[r].keys = {row[f].key : f \in found}
                 /\ reqs'[r].keys \subseteq Keys
           /\ reqs'[r].op = "gather" /\ reqs'[r].key = NoKey
           /\ reqs'[r].job = NoJob /\ reqs'[r].loaded = NoSession
<1>1. PICK asked \in SUBSET {f \in Files : row[f].state # "unused"},
           dirs \in SUBSET {d \in Folders : folder[d].state # "unused"} :
             delete_many(r, asked, dirs)
  BY DEF batch_delete
<1> DEFINE found == {f \in asked : get_file(f)}
           ks == {row[f].key : f \in found}
           q == [Idle EXCEPT !.op = "gather", !.keys = ks, !.todo = dirs]
<1>2. found \in SUBSET {f \in Files : get_file(f)}
  OBVIOUS
<1>3. ks \subseteq Keys
  BY DEF Shape
<1>4. Start(r, q) /\ row' = [f \in Files |-> IF f \in found THEN GoneFile ELSE row[f]]
  BY <1>1 DEF delete_many
<1> HIDE DEF ks, found
<1>5. q \in Request
  BY <1>1, <1>3, IdleFacts DEF Request, Ops
<1>6. q.op = "gather" /\ q.keys = ks /\ q.key = NoKey /\ q.job = NoJob /\ q.loaded = NoSession
  BY IdleFacts DEF Request
<1> HIDE DEF q
<1>7. RequestHas(q)
  BY <1>6 DEF RequestHas, NoSession
<1>8. Only(r) /\ reqs[r] = Idle /\ reqs'[r] = q
  BY <1>4, <1>5, <1>7, StartFacts
<1> QED BY <1>2, <1>3, <1>4, <1>6, <1>8 DEF ks

LEMMA CreateFolderArrives ==
    ASSUME Shape, NEW r \in Requests, NEW p \in Places, NEW n \in Names,
           create_folder_request(r, p, n)
    PROVE  /\ Only(r) /\ reqs[r] = Idle
           /\ reqs'[r].op = "create" /\ reqs'[r].key = NoKey /\ reqs'[r].keys = {}
           /\ reqs'[r].job = NoJob /\ reqs'[r].loaded = NoSession
<1> DEFINE q == [Idle EXCEPT !.op = "create", !.place = p, !.name = n]
<1>1. q \in Request /\ RequestHas(q)
  BY IdleFacts DEF Request, Ops, RequestHas, NoSession
<1>2. /\ q.op = "create" /\ q.key = NoKey /\ q.keys = {} /\ q.job = NoJob
      /\ q.loaded = NoSession
  BY IdleFacts DEF Request
<1>3. Start(r, q)
  BY DEF create_folder_request
<1> HIDE DEF q
<1> QED BY <1>1, <1>2, <1>3, StartFacts

LEMMA RenameFolderArrives ==
    ASSUME Shape, NEW r \in Requests, NEW d \in Folders, NEW n \in Names,
           rename_folder_request(r, d, n)
    PROVE  /\ Only(r) /\ reqs[r] = Idle
           /\ reqs'[r].op = "rename" /\ reqs'[r].key = NoKey /\ reqs'[r].keys = {}
           /\ reqs'[r].job = NoJob /\ reqs'[r].loaded = NoSession
<1> DEFINE q == [Idle EXCEPT !.op = "rename", !.self = d, !.name = n]
<1>1. q \in Request /\ q.self = d
  BY IdleFacts DEF Request, Ops, Places
<1>2. /\ q.op = "rename" /\ q.key = NoKey /\ q.keys = {} /\ q.job = NoJob
      /\ q.loaded = NoSession
  BY IdleFacts DEF Request
<1>3. Start(r, q)
  BY DEF rename_folder_request
<1> HIDE DEF q
<1>4. RequestHas(q)
  BY <1>1, <1>2 DEF RequestHas, NoSession
<1> QED BY <1>1, <1>2, <1>3, <1>4, StartFacts

LEMMA MoveFolderArrives ==
    ASSUME Shape, NEW r \in Requests, NEW d \in Folders, NEW p \in Places,
           move_folder_request(r, d, p)
    PROVE  /\ Only(r) /\ reqs[r] = Idle
           /\ reqs'[r].op = "move" /\ reqs'[r].key = NoKey /\ reqs'[r].keys = {}
           /\ reqs'[r].job = NoJob /\ reqs'[r].loaded = NoSession
           /\ reqs'[r].self = d /\ reqs'[r].place = p
<1> DEFINE q == [Idle EXCEPT !.op = "move", !.self = d, !.place = p]
<1>1. q \in Request /\ q.self = d
  BY IdleFacts DEF Request, Ops, Places
<1>2. /\ q.op = "move" /\ q.key = NoKey /\ q.keys = {} /\ q.job = NoJob
      /\ q.loaded = NoSession /\ q.self = d /\ q.place = p
  BY IdleFacts DEF Request
<1>3. Start(r, q)
  BY DEF move_folder_request
<1> HIDE DEF q
<1>4. RequestHas(q)
  BY <1>1, <1>2 DEF RequestHas, NoSession
<1> QED BY <1>1, <1>2, <1>3, <1>4, StartFacts

LEMMA DeleteFolderArrives ==
    ASSUME Shape, NEW r \in Requests, NEW d \in Folders, delete_folder_request(r, d)
    PROVE  /\ Only(r) /\ reqs[r] = Idle
           /\ reqs'[r].op = "collect" /\ reqs'[r].key = NoKey /\ reqs'[r].keys = {}
           /\ reqs'[r].job = NoJob /\ reqs'[r].loaded = NoSession
<1> DEFINE q == [Idle EXCEPT !.op = "collect", !.self = d]
<1>1. q \in Request /\ q.self = d
  BY IdleFacts DEF Request, Ops, Places
<1>2. /\ q.op = "collect" /\ q.key = NoKey /\ q.keys = {} /\ q.job = NoJob
      /\ q.loaded = NoSession
  BY IdleFacts DEF Request
<1>3. Start(r, q)
  BY DEF delete_folder_request
<1> HIDE DEF q
<1>4. RequestHas(q)
  BY <1>1, <1>2 DEF RequestHas, NoSession
<1> QED BY <1>1, <1>2, <1>3, <1>4, StartFacts

LEMMA UnlinkRequest ==
    ASSUME Shape, NEW r \in Requests, delete_file_object(r)
    PROVE  /\ Only(r) /\ reqs[r].op = "unlink" /\ reqs[r].key \in Keys
           /\ reqs'[r] = [reqs[r] EXCEPT !.op = "unlink_row"]
<1>1. /\ reqs[r].op = "unlink" /\ RequestHas(reqs[r]) /\ reqs[r].key \in Keys
      /\ reqs[r] \in Request
  BY ShapeFacts DEF delete_file_object, RequestHas
<1>2. RequestHas([reqs[r] EXCEPT !.op = "unlink_row"])
  BY <1>1 DEF RequestHas, Request
<1>3. Step(r, "unlink_row") /\ "unlink_row" \in Ops
  BY DEF delete_file_object, Ops
<1>4. Only(r) /\ reqs'[r] = [reqs[r] EXCEPT !.op = "unlink_row"]
  BY <1>2, <1>3, ShapeFacts, StepFacts
<1> QED BY <1>1, <1>4

LEMMA CollectRequest ==
    ASSUME Shape, NEW r \in Requests, delete_with_descendants(r)
    PROVE  /\ Only(r) /\ reqs[r].op = "collect"
           /\ reqs'[r].op = "drop" /\ reqs'[r].key = reqs[r].key /\ reqs'[r].keys \subseteq Keys
           /\ reqs'[r].job = reqs[r].job /\ reqs'[r].loaded = reqs[r].loaded
           /\ reqs'[r].file = reqs[r].file
<1>1. reqs[r].op = "collect" /\ RequestHas(reqs[r]) /\ reqs[r] \in Request /\ reqs[r].self \in Folders
  BY ShapeFacts DEF delete_with_descendants, RequestHas
<1> DEFINE ids == list_subtree_ids(reqs[r].self)
           ks == {row[f].key : f \in FilesIn(ids)}
           q == [reqs[r] EXCEPT !.op = "drop", !.ids = ids, !.keys = ks]
<1>2. ks \subseteq Keys
  BY DEF Shape, FilesIn
<1>3. ids \in SUBSET Folders
  BY <1>1, SubtreeClosed
<1>4. reqs' = [reqs EXCEPT ![r].op = "drop", ![r].ids = ids, ![r].keys = ks]
  BY DEF delete_with_descendants
<1> HIDE DEF ks, ids
<1>5. reqs' = [reqs EXCEPT ![r] = q]
  BY <1>4, ShapeFacts DEF Request
<1>6. /\ q \in Request /\ q.op = "drop" /\ q.keys = ks /\ q.key = reqs[r].key
      /\ q.job = reqs[r].job /\ q.loaded = reqs[r].loaded /\ q.file = reqs[r].file
  BY <1>1, <1>2, <1>3 DEF Request, Ops
<1> HIDE DEF q
<1>7. RequestHas(q)
  BY <1>1, <1>6 DEF RequestHas
<1>8. Only(r) /\ reqs'[r] = q
  BY <1>5, <1>6, <1>7, ShapeFacts DEF Only
<1> QED BY <1>1, <1>2, <1>6, <1>8

LEMMA DropRequest ==
    ASSUME Shape, NEW r \in Requests, DropFolders(r)
    PROVE  /\ Only(r) /\ reqs[r].op = "drop"
           /\ reqs'[r] = [reqs[r] EXCEPT !.op = "remove"]
<1>1. reqs[r].op = "drop" /\ RequestHas(reqs[r]) /\ reqs[r] \in Request
  BY ShapeFacts DEF DropFolders
<1>2. RequestHas([reqs[r] EXCEPT !.op = "remove"])
  BY <1>1 DEF RequestHas, Request
<1>3. Step(r, "remove") /\ "remove" \in Ops
  BY DEF DropFolders, Ops
<1>4. Only(r) /\ reqs'[r] = [reqs[r] EXCEPT !.op = "remove"]
  BY <1>2, <1>3, ShapeFacts, StepFacts
<1> QED BY <1>1, <1>4

\* The steps that end a request whatever they find.
LEMMA LastStep ==
    ASSUME Shape, NEW r \in Requests,
           \/ move_file(r) \/ delete_file_row(r) \/ create_folder(r) \/ rename_folder(r)
           \/ move_folder(r) \/ RequestDies(r) \/ PointJob(r) \/ verify_guest_upload(r)
    PROVE  Only(r) /\ reqs'[r] = Idle
<1>1. Answer(r)
  BY DEF move_file, delete_file_row, create_folder, rename_folder, move_folder, RequestDies,
         PointJob, verify_guest_upload
<1> QED BY <1>1, ShapeFacts, AnswerFacts

------------------------------------------------------------------------------
(* Every step keeps the types *)

JobsTyped ==
    /\ job \in [Jobs -> [state : JobStates, guest : BOOLEAN, token : BOOLEAN,
                         key : Keys \cup {NoKey}]]
    /\ output \subseteq Jobs
    /\ workflow \in 0..MaxTargets
    /\ sweep \in [selected : SUBSET Jobs, todo : SUBSET Jobs, keys : [Jobs -> Keys \cup {NoKey}]]
    /\ released \subseteq Keys

RowsTyped == /\ row \in [Files -> UserFile]
             /\ \A f \in Files : get_file(f) => row[f].key \in Keys

FoldersTyped == /\ folder \in [Folders -> UserFolder]
                /\ \A d \in Folders : get_folder(d) \/ folder[d].parent = Root

LockTyped == lock \in Requests \cup {NoRequest} /\ leaked \subseteq Keys

LEMMA ShapeParts ==
    Shape <=> /\ TypeOKUploads /\ RowsTyped /\ FoldersTyped /\ LockTyped /\ JobsTyped
              /\ reqs \in [Requests -> Request] /\ \A r \in Requests : RequestHas(reqs[r])
BY DEF Shape, TypeOKJobs, TypeOKLibrary, RowsTyped, FoldersTyped, LockTyped, JobsTyped, Request, Ops

LEMMA ShapeNext ==
    ASSUME Shape, NEW r \in Requests, Only(r), TypeOKUploads', RowsTyped', FoldersTyped',
           LockTyped', JobsTyped'
    PROVE  Shape'
<1>1. \A q \in Requests : RequestHas(reqs'[q])
  BY ShapeParts DEF Only
<1>2. \A q \in Requests : RequestHas(reqs[q])'
  BY <1>1 DEF RequestHas, Idle
<1> QED BY <1>2 DEF Only, Shape, TypeOKJobs, TypeOKLibrary, RowsTyped, FoldersTyped, LockTyped,
              JobsTyped, Request, Ops

\* The parts a step leaves alone.
LEMMA SameTypes ==
    ASSUME Shape
    PROVE  /\ UNCHANGED uploadVars => TypeOKUploads'
           /\ UNCHANGED row => RowsTyped'
           /\ UNCHANGED folder => FoldersTyped'
           /\ UNCHANGED <<lock, leaked>> => LockTyped'
           /\ UNCHANGED jobVars => JobsTyped'
<1>1. TypeOKUploads /\ RowsTyped /\ FoldersTyped /\ LockTyped /\ JobsTyped
  BY ShapeParts
<1>2. UNCHANGED uploadVars => TypeOKUploads'
  BY <1>1 DEF uploadVars, TypeOKUploads
<1>3. UNCHANGED row => RowsTyped'
  BY <1>1 DEF RowsTyped, get_file
<1>4. UNCHANGED folder => FoldersTyped'
  BY <1>1 DEF FoldersTyped, get_folder
<1>5. UNCHANGED <<lock, leaked>> => LockTyped'
  BY <1>1 DEF LockTyped
<1>6. UNCHANGED jobVars => JobsTyped'
  BY <1>1 DEF JobsTyped, jobVars
<1> QED BY <1>2, <1>3, <1>4, <1>5, <1>6

LEMMA ReleasedTyped ==
    ASSUME LockTyped, NEW r \in Requests, Released(r), leaked' \subseteq Keys
    PROVE  LockTyped'
BY DEF LockTyped, Released

LEMMA GoneFacts ==
    GoneFile \in UserFile /\ GoneFile.state = "gone" /\ GoneFile.size = 0 /\ GoneFile.key = NoKey
<1>1. 0 \in 0..MaxSize /\ Root \in Places
  BY UploadAssumption DEF Places
<1>2. NoUserFile \in UserFile
  BY <1>1 DEF NoUserFile, UserFile
<1>3. NoUserFile.size = 0 /\ NoUserFile.key = NoKey
  BY DEF NoUserFile
<1> QED BY <1>2, <1>3 DEF GoneFile, UserFile

LEMMA RemovedTyped ==
    ASSUME TypeOKUploads, NEW k, object' = remove_object(k), UNCHANGED <<parts, session>>
    PROVE  TypeOKUploads'
<1>1. 0 \in 0..MaxSize
  BY UploadAssumption
<1>2. [object EXCEPT ![k] = 0] \in [Keys -> 0..MaxSize]
  BY <1>1 DEF TypeOKUploads
<1> QED BY <1>2 DEF TypeOKUploads, remove_object

\* A step of a request that changes neither rows nor folders nor the store.
LEMMA QuietShape ==
    ASSUME Shape, NEW r \in Requests, Only(r), UNCHANGED <<uploadVars, folder, row, jobVars>>, LockTyped'
    PROVE  Shape'
BY SameTypes, ShapeNext

LEMMA OnlyRequestsShape ==
    ASSUME Shape, NEW r \in Requests, Only(r), OnlyRequests, UNCHANGED jobVars
    PROVE  Shape'
BY SameTypes, QuietShape DEF OnlyRequests, NoStore, NoRows, NoLock, NoLeak

LEMMA UploadShape ==
    ASSUME Shape, NEW k \in Keys, Upload(k)
    PROVE  Shape'
<1>1. TypeOKUploads /\ UNCHANGED libraryVars /\ UNCHANGED jobVars
  BY ShapeParts DEF Upload, create_upload_session, guest_upload_session, discard_upload_session
<1>2. TypeOKUploads'
  <2>1. ASSUME NEW owner \in {"user", "guest"}, NEW d \in Places, NEW declared,
               create_upload(k, owner, d, declared)
        PROVE  TypeOKUploads'
    <3> DEFINE multi == plan_multipart(declared)
               s == [live |-> TRUE, owner |-> owner, completed |-> FALSE, multipart |-> multi,
                     upload |-> multi, folder |-> d, created |-> TRUE]
    <3>1. multi \in BOOLEAN
      BY DEF plan_multipart
    <3> HIDE DEF multi
    <3>2. s \in UploadSession
      BY <3>1 DEF UploadSession, Places
    <3>3. /\ session' = [session EXCEPT ![k] = s]
          /\ parts' = IF multi THEN [parts EXCEPT ![k] = [state |-> "open", size |-> 0]] ELSE parts
          /\ object' = object
      BY <2>1 DEF create_upload, multi, create_multipart_upload
    <3> HIDE DEF s
    <3> QED BY <1>1, <3>2, <3>3, UploadAssumption DEF TypeOKUploads
  <2>2. CASE create_upload_session(k)
    BY <2>1, <2>2 DEF create_upload_session
  <2>3. CASE guest_upload_session(k)
    BY <2>1, <2>3 DEF guest_upload_session, Places
  <2>4. CASE discard_upload_session(k)
    <3>1. [session EXCEPT ![k].live = FALSE] \in [Keys -> UploadSession]
      BY <1>1 DEF TypeOKUploads, UploadSession
    <3> QED BY <1>1, <2>4, <3>1, UploadAssumption
            DEF discard_upload_session, delete_upload_session, abort_multipart_upload, TypeOKUploads
  <2>5. CASE ClientPut(k)
    BY <1>1, <2>5 DEF ClientPut, Sizes, TypeOKUploads
  <2>6. CASE ClientSendsParts(k)
    BY <1>1, <2>6 DEF ClientSendsParts, Sizes, TypeOKUploads
  <2>7. CASE SessionExpires(k)
    <3>1. [session EXCEPT ![k].live = FALSE] \in [Keys -> UploadSession]
      BY <1>1 DEF TypeOKUploads, UploadSession
    <3> QED BY <1>1, <2>7, <3>1 DEF SessionExpires, TypeOKUploads
  <2> QED BY <2>2, <2>3, <2>4, <2>5, <2>6, <2>7 DEF Upload
<1> QED BY <1>1, <1>2 DEF libraryVars, jobVars, Shape, TypeOKJobs, TypeOKLibrary, RequestHas,
           get_file, get_folder

LEMMA VerifyShape ==
    ASSUME Shape, NEW r \in Requests, NEW k \in Keys, Verify(r, k)
    PROVE  Shape'
<1>1. PICK j \in Jobs \cup {NoJob} :
          verify_upload_session(r, k, j) /\ (session[k].owner = "guest" => j \in Jobs)
  BY DEF Verify
<1>2. Only(r)
  BY <1>1, VerifyRequest
<1> QED BY <1>1, <1>2, OnlyRequestsShape DEF Verify, verify_upload_session

LEMMA ArriveShape ==
    ASSUME Shape, NEW r \in Requests, Arrive(r)
    PROVE  Shape'
<1>1. UNCHANGED jobVars
  BY DEF Arrive
<1>2. ASSUME NEW f \in Files, NEW d \in Places, move_file_request(r, f, d) PROVE Shape'
  BY <1>1, <1>2, MoveFileArrives, OnlyRequestsShape DEF move_file_request
<1>3. ASSUME NEW f \in Files, delete_file_request(r, f) PROVE Shape'
  BY <1>1, <1>3, DeleteFileArrives, OnlyRequestsShape DEF delete_file_request
<1>4. CASE batch_delete(r)
  <2>1. PICK found \in SUBSET {f \in Files : get_file(f)} :
            row' = [f \in Files |-> IF f \in found THEN GoneFile ELSE row[f]]
    BY <1>4, BatchArrives
  <2>2. RowsTyped'
    <3>1. GoneFile \in UserFile /\ GoneFile.state = "gone"
      BY GoneFacts
    <3>2. RowsTyped
      BY ShapeParts
    <3> QED BY <2>1, <3>1, <3>2 DEF RowsTyped, get_file
  <2>3. UNCHANGED <<uploadVars, folder, lock, leaked>>
    BY <1>4 DEF batch_delete, NoStore, NoLock, NoLeak
  <2>4. Only(r)
    BY <1>4, BatchArrives
  <2> QED BY <1>1, <2>2, <2>3, <2>4, SameTypes, ShapeNext
<1>5. ASSUME NEW p \in Places, NEW n \in Names, create_folder_request(r, p, n) PROVE Shape'
  BY <1>1, <1>5, CreateFolderArrives, OnlyRequestsShape DEF create_folder_request
<1>6. ASSUME NEW d \in Folders, NEW n \in Names, rename_folder_request(r, d, n) PROVE Shape'
  BY <1>1, <1>6, RenameFolderArrives, OnlyRequestsShape DEF rename_folder_request
<1>7. ASSUME NEW d \in Folders, NEW p \in Places, move_folder_request(r, d, p) PROVE Shape'
  BY <1>1, <1>7, MoveFolderArrives, OnlyRequestsShape DEF move_folder_request
<1>8. ASSUME NEW d \in Folders, delete_folder_request(r, d) PROVE Shape'
  BY <1>1, <1>8, DeleteFolderArrives, OnlyRequestsShape DEF delete_folder_request
<1> QED BY <1>2, <1>3, <1>4, <1>5, <1>6, <1>7, <1>8 DEF Arrive, ArriveFiles, ArriveFolders

LEMMA ServeShape ==
    ASSUME Shape, NEW r \in Requests, Serve(r)
    PROVE  Shape'
<1>1. UNCHANGED jobVars /\ LockTyped /\ RowsTyped /\ FoldersTyped /\ TypeOKUploads
  BY ShapeParts DEF Serve
<1>2. CASE CompleteParts(r)
  <2>1. Only(r) /\ reqs[r].key \in Keys
    BY <1>2, CompletePartsRequest
  <2>2. TypeOKUploads'
    BY <1>1, <1>2, <2>1 DEF CompleteParts, complete_multipart_upload, TypeOKUploads
  <2>3. UNCHANGED <<folder, row, lock, leaked>>
    BY <1>2 DEF CompleteParts, NoRows, NoLock, NoLeak
  <2> QED BY <1>1, <2>1, <2>2, <2>3, SameTypes, ShapeNext
<1>3. CASE CheckObject(r)
  <2>1. Only(r) /\ reqs[r].key \in Keys /\ reqs[r].loaded \in UploadSession
    BY <1>3, CheckObjectRequest, ShapeFacts DEF Request
  <2>2. [reqs[r].loaded EXCEPT !.live = TRUE, !.completed = TRUE, !.upload = FALSE] \in UploadSession
    BY <2>1 DEF UploadSession
  <2>3. TypeOKUploads'
    BY <1>1, <1>3, <2>1, <2>2 DEF CheckObject, SaveVerified, TypeOKUploads
  <2>4. UNCHANGED <<folder, row, lock, leaked>>
    BY <1>3 DEF CheckObject, NoRows, NoLock, NoLeak
  <2> QED BY <1>1, <2>1, <2>3, <2>4, SameTypes, ShapeNext
<1>4. CASE CheckOwner(r)
  BY <1>1, <1>4, CheckOwnerRequest, OnlyRequestsShape DEF CheckOwner
<1>5. CASE measure_upload(r)
  <2>1. Only(r) /\ reqs[r].key \in Keys
    BY <1>5, MeasureRequest
  <2>2. leaked' \subseteq Keys /\ UNCHANGED <<uploadVars, folder, row, lock>>
    BY <1>1, <1>5, <2>1 DEF measure_upload, LockTyped, NoStore, NoRows, NoLock
  <2>3. LockTyped'
    BY <1>1, <2>2 DEF LockTyped
  <2> QED BY <1>1, <2>1, <2>2, <2>3, QuietShape
<1>6. CASE find_existing(r)
  BY <1>1, <1>6, FindRequest, OnlyRequestsShape DEF find_existing
<1>7. CASE lock_and_check(r)
  <2>1. Only(r) /\ UNCHANGED <<uploadVars, folder, row>>
    BY <1>7, LockRequest DEF lock_and_check, NoStore, NoRows
  <2>2. LockTyped'
    BY <1>1, <1>7 DEF lock_and_check, LockTyped, NoLeak
  <2> QED BY <1>1, <2>1, <2>2, QuietShape
<1>8. CASE save_file(r)
  <2>1. Only(r) /\ reqs[r].key \in Keys /\ reqs[r] \in Request
    BY <1>8, SaveRequest, ShapeFacts
  <2>2. RowsTyped'
    <3> DEFINE new == [state |-> "live", key |-> reqs[r].key, folder |-> reqs[r].loaded.folder,
                       size |-> reqs[r].size, favorite |-> FALSE]
    <3>1. new \in UserFile /\ new.key \in Keys
      BY <2>1 DEF UserFile, Request, UploadSession, Places
    <3>2. row' = row \/ \E f \in Files : row' = [row EXCEPT ![f] = new]
      BY <1>8 DEF save_file
    <3> HIDE DEF new
    <3> QED BY <1>1, <3>1, <3>2 DEF RowsTyped, get_file
  <2>3. leaked' \subseteq Keys /\ Released(r) /\ UNCHANGED <<uploadVars, folder>>
    BY <1>1, <1>8, <2>1 DEF save_file, LockTyped, NoStore
  <2>4. LockTyped'
    BY <1>1, <2>3, ReleasedTyped
  <2> QED BY <1>1, <2>1, <2>2, <2>3, <2>4, SameTypes, ShapeNext
<1>9. CASE RemoveOne(r)
  <2>1. PICK k \in reqs[r].keys :
           /\ object' = remove_object(k)
           /\ reqs' = [reqs EXCEPT ![r].keys = @ \ {k}]
           /\ leaked' = IF \E q \in Requests : reqs[q].op \in SeenOps /\ reqs[q].key = k
                        THEN leaked \cup {k} ELSE leaked
    BY <1>9 DEF RemoveOne
  <2>2. Only(r) /\ k \in Keys
    BY <1>9, <2>1, RemoveOneRequest, ShapeFacts DEF RemoveOne, Request
  <2>3. TypeOKUploads'
    BY <1>1, <1>9, <2>1, RemovedTyped DEF RemoveOne
  <2>4. LockTyped' /\ UNCHANGED <<folder, row>>
    BY <1>1, <1>9, <2>1, <2>2 DEF RemoveOne, LockTyped, NoRows, NoLock
  <2> QED BY <1>1, <2>2, <2>3, <2>4, SameTypes, ShapeNext
<1>10. CASE RemoveDone(r)
  <2>1. Only(r) /\ Released(r) /\ UNCHANGED <<uploadVars, folder, row, leaked>>
    BY <1>10, RemoveDoneRequest DEF RemoveDone, NoStore, NoRows, NoLeak
  <2>2. LockTyped'
    BY <1>1, <2>1, ReleasedTyped DEF LockTyped
  <2> QED BY <1>1, <2>1, <2>2, QuietShape
<1>11. CASE move_file(r)
  <2>1. Only(r) /\ UNCHANGED <<uploadVars, folder, lock, leaked>> /\ reqs[r].file \in Files /\ reqs[r].place \in Places
    BY <1>11, LastStep, ShapeFacts DEF move_file, NoStore, NoLock, NoLeak, Request, RequestHas
  <2>2. RowsTyped'
    BY <1>1, <1>11, <2>1 DEF move_file, RowsTyped, UserFile, get_file
  <2> QED BY <1>1, <2>1, <2>2, SameTypes, ShapeNext
<1>12. CASE delete_file_object(r)
  <2>1. Only(r) /\ UNCHANGED <<folder, row, lock, leaked>>
    BY <1>12, UnlinkRequest DEF delete_file_object, NoRows, NoLock, NoLeak
  <2>2. TypeOKUploads'
    BY <1>1, <1>12, RemovedTyped DEF delete_file_object
  <2> QED BY <1>1, <2>1, <2>2, SameTypes, ShapeNext
<1>13. CASE delete_file_row(r)
  <2>1. Only(r) /\ UNCHANGED <<uploadVars, folder, lock, leaked>>
    BY <1>13, LastStep DEF delete_file_row, NoStore, NoLock, NoLeak
  <2>2. RowsTyped'
    BY <1>1, <1>13, GoneFacts DEF delete_file_row, RowsTyped, get_file
  <2> QED BY <1>1, <2>1, <2>2, SameTypes, ShapeNext
<1>14. CASE create_folder(r)
  <2>1. Only(r) /\ UNCHANGED <<uploadVars, row, lock, leaked>> /\ reqs[r] \in Request
    BY <1>14, LastStep, ShapeFacts DEF create_folder, NoStore, NoLock, NoLeak
  <2>2. FoldersTyped'
    <3> DEFINE new == [state |-> "live", parent |-> reqs[r].place, name |-> reqs[r].name]
    <3>1. new \in UserFolder /\ new.state = "live"
      BY <2>1 DEF Request, UserFolder
    <3>2. folder' = folder \/ \E d \in Folders : folder' = [folder EXCEPT ![d] = new]
      BY <1>14 DEF create_folder
    <3> HIDE DEF new
    <3> QED BY <1>1, <3>1, <3>2 DEF FoldersTyped, get_folder
  <2> QED BY <1>1, <2>1, <2>2, SameTypes, ShapeNext
<1>15. CASE rename_folder(r)
  <2>1. Only(r) /\ UNCHANGED <<uploadVars, row, lock, leaked>> /\ reqs[r] \in Request
    BY <1>15, LastStep, ShapeFacts DEF rename_folder, NoStore, NoLock, NoLeak
  <2>2. FoldersTyped'
    BY <1>1, <1>15, <2>1 DEF rename_folder, FoldersTyped, UserFolder, get_folder, Request
  <2> QED BY <1>1, <2>1, <2>2, SameTypes, ShapeNext
<1>16. CASE move_folder(r)
  <2>1. Only(r) /\ UNCHANGED <<uploadVars, row, lock, leaked>> /\ reqs[r] \in Request
    BY <1>16, LastStep, ShapeFacts DEF move_folder, NoStore, NoLock, NoLeak
  <2>2. FoldersTyped'
    BY <1>1, <1>16, <2>1 DEF move_folder, FoldersTyped, UserFolder, get_folder, Request
  <2> QED BY <1>1, <2>1, <2>2, SameTypes, ShapeNext
<1>17. CASE delete_with_descendants(r)
  BY <1>1, <1>17, CollectRequest, OnlyRequestsShape DEF delete_with_descendants
<1>18. CASE DropFolders(r)
  <2>1. Only(r) /\ UNCHANGED <<uploadVars, lock>> /\ reqs[r] \in Request
    BY <1>18, DropRequest, ShapeFacts DEF DropFolders, NoStore, NoLock
  <2> DEFINE gone == Cascade(reqs[r].ids)
             files == IF reqs[r].keys = {} THEN {} ELSE FilesIn(reqs[r].ids)
  <2>2. /\ folder' = [d \in Folders |->
              IF d \in gone THEN [folder[d] EXCEPT !.state = "gone", !.parent = Root]
              ELSE folder[d]]
        /\ row' = [f \in Files |->
              IF f \in files THEN GoneFile
              ELSE IF row[f].folder \in gone THEN [row[f] EXCEPT !.folder = Root]
              ELSE row[f]]
        /\ leaked' = leaked \cup SymDiff({row[f].key : f \in files}, reqs[r].keys)
    BY <1>18 DEF DropFolders
  <2>3. LockTyped'
    <3>1. {row[f].key : f \in files} \subseteq Keys
      BY <1>1 DEF FilesIn, RowsTyped
    <3> HIDE DEF files
    <3> QED BY <1>1, <2>1, <2>2, <3>1 DEF LockTyped, SymDiff, Request
  <2> HIDE DEF gone, files
  <2>4. RowsTyped'
    <3>1. \A f \in Files : [row[f] EXCEPT !.folder = Root] \in UserFile
      BY <1>1 DEF RowsTyped, UserFile, Places
    <3>2. row' \in [Files -> UserFile]
      BY <1>1, <2>2, <3>1, GoneFacts DEF RowsTyped
    <3>3. ASSUME NEW f \in Files, row'[f].state = "live" PROVE row'[f].key \in Keys
      BY <1>1, <2>2, <3>3, GoneFacts DEF RowsTyped, UserFile, get_file
    <3> QED BY <3>2, <3>3 DEF RowsTyped, get_file
  <2>5. FoldersTyped'
    BY <1>1, <2>2 DEF FoldersTyped, get_folder, UserFolder, Places
  <2> QED BY <1>1, <2>1, <2>3, <2>4, <2>5, SameTypes, ShapeNext
<1> QED BY <1>2, <1>3, <1>4, <1>5, <1>6, <1>7, <1>8, <1>9, <1>10, <1>11, <1>12, <1>13, <1>14,
           <1>15, <1>16, <1>17, <1>18 DEF Serve, ServeFiles

LEMMA FailShape ==
    ASSUME Shape, NEW r \in Requests, Fail(r)
    PROVE  Shape'
<1>1. UNCHANGED jobVars /\ LockTyped /\ reqs[r] \in Request
  BY ShapeParts, ShapeFacts DEF Fail
<1>2. CASE RemoveFails(r)
  <2>1. Only(r) /\ UNCHANGED <<uploadVars, folder, row>>
    BY <1>2, RemoveFailsRequest DEF RemoveFails, NoStore, NoRows
  <2>2. LockTyped'
    <3>1. reqs[r].keys \subseteq Keys
      BY <1>1 DEF Request
    <3>2. leaked' \subseteq Keys
      BY <1>1, <1>2, <3>1, RemoveFailsRequest DEF LockTyped
    <3>3. lock' = lock \/ Released(r)
      BY <1>2, RemoveFailsRequest
    <3> QED BY <1>1, <3>2, <3>3 DEF LockTyped, Released
  <2> QED BY <1>1, <2>1, <2>2, QuietShape
<1>3. CASE RequestDies(r)
  <2>1. Only(r) /\ UNCHANGED <<uploadVars, folder, row>>
    BY <1>3, LastStep DEF RequestDies, NoStore, NoRows
  <2>2. LockTyped'
    BY <1>1, <1>3 DEF LockTyped, Released, RequestDies, Request
  <2> QED BY <1>1, <2>1, <2>2, QuietShape
<1> QED BY <1>2, <1>3 DEF Fail

JobRecord == [state : JobStates, guest : BOOLEAN, token : BOOLEAN, key : Keys \cup {NoKey}]

LEMMA PushTyped ==
    ASSUME job \in [Jobs -> JobRecord], NEW j, NEW k \in Keys, push_conversion_job(j, k)
    PROVE  job' \in [Jobs -> JobRecord]
BY DEF push_conversion_job, JobRecord, JobStates

LEMMA NewJobTyped ==
    ASSUME NEW st \in JobStates, NEW guest \in BOOLEAN, NEW key \in Keys \cup {NoKey}
    PROVE  NewJob(st, guest, key) \in JobRecord
BY DEF NewJob, JobRecord

LEMMA ServeJobShape ==
    ASSUME Shape, NEW r \in Requests, ServeJob(r)
    PROVE  Shape'
<1>1. LockTyped /\ JobsTyped /\ reqs[r] \in Request /\ RequestHas(reqs[r])
  BY ShapeParts, ShapeFacts
<1>2. CASE PointJob(r)
  <2>1. Only(r) /\ UNCHANGED <<uploadVars, folder, row, lock, leaked>> /\ reqs[r].key \in Keys
    BY <1>1, <1>2, LastStep DEF PointJob, NoStore, NoRows, NoLock, NoLeak, RequestHas
  <2>2. JobsTyped'
    <3>1. job' \in [Jobs -> JobRecord]
      BY <1>1, <1>2, <2>1, PushTyped DEF PointJob, JobsTyped, JobRecord
    <3> QED BY <1>1, <1>2, <3>1 DEF JobsTyped, JobRecord, PointJob, NoSweeping
  <2> QED BY <2>1, <2>2, SameTypes, ShapeNext
<1>3. CASE verify_guest_upload(r)
  <2>1. Only(r) /\ UNCHANGED <<uploadVars, folder, row, lock>> /\ reqs[r].key \in Keys
    BY <1>1, <1>3, LastStep DEF verify_guest_upload, NoStore, NoRows, NoLock, RequestHas
  <2>2. JobsTyped'
    <3>1. job' \in [Jobs -> JobRecord]
      BY <1>1, <1>3, <2>1, PushTyped DEF verify_guest_upload, JobsTyped, JobRecord
    <3> QED BY <1>1, <1>3, <3>1 DEF JobsTyped, JobRecord, verify_guest_upload, NoSweeping
  <2>3. LockTyped'
    BY <1>1, <1>3, <2>1 DEF verify_guest_upload, LockTyped, NoLeak
  <2> QED BY <2>1, <2>2, <2>3, SameTypes, ShapeNext
<1> QED BY <1>2, <1>3 DEF ServeJob

\* Steps that leave the files alone.
LEMMA JobsShape ==
    ASSUME Shape, UNCHANGED fileVars, JobsTyped'
    PROVE  Shape'
<1>1. TypeOKUploads' /\ RowsTyped' /\ FoldersTyped' /\ LockTyped'
  BY SameTypes DEF fileVars, libraryVars
<1>2. reqs' = reqs
  BY DEF fileVars, libraryVars
<1> QED BY <1>1, <1>2 DEF Shape, TypeOKJobs, TypeOKLibrary, RequestHas, JobsTyped, RowsTyped,
           FoldersTyped, LockTyped

LEMMA FavoriteShape ==
    ASSUME Shape, NEW f \in Files, Favorite(f)
    PROVE  Shape'
<1>1. RowsTyped /\ UNCHANGED <<uploadVars, folder, reqs, lock, leaked, jobVars>>
  BY ShapeParts DEF Favorite, set_file_favorite, NoStore
<1>2. RowsTyped'
  BY <1>1 DEF Favorite, set_file_favorite, RowsTyped, UserFile, get_file
<1>3. TypeOKUploads' /\ FoldersTyped' /\ LockTyped' /\ JobsTyped'
  BY <1>1, SameTypes
<1> QED BY <1>1, <1>2, <1>3 DEF Shape, TypeOKJobs, TypeOKLibrary, RequestHas, JobsTyped, RowsTyped,
           FoldersTyped, LockTyped

\* New jobs take free ids and one of the library's keys.
LEMMA StartJobsFacts ==
    ASSUME Shape, NEW files \in SUBSET {f \in Files : get_file(f)}, NEW n \in Nat, StartJobs(files, n)
    PROVE  /\ job' \in [Jobs -> JobRecord]
           /\ \A j \in Jobs : \/ job'[j] = job[j]
                              \/ j \in Free /\ \E f \in files : job'[j] = NewJob("active", FALSE, row[f].key)
<1>1. PICK js \in [files \X (1..n) -> Free] :
          job' = [j \in Jobs |->
              IF \E x \in DOMAIN js : js[x] = j
              THEN NewJob("active", FALSE, row[(CHOOSE x \in DOMAIN js : js[x] = j)[1]].key)
              ELSE job[j]]
  BY DEF StartJobs
<1>2. ASSUME NEW j \in Jobs
      PROVE  \/ job'[j] = job[j]
             \/ j \in Free /\ \E f \in files : job'[j] = NewJob("active", FALSE, row[f].key)
  <2>1. CASE \E x \in DOMAIN js : js[x] = j
    <3> DEFINE x == CHOOSE x \in DOMAIN js : js[x] = j
    <3>1. x \in files \X (1..n) /\ js[x] = j
      BY <1>1, <2>1
    <3> HIDE DEF x
    <3>2. x[1] \in files /\ j \in Free
      BY <1>1, <3>1
    <3>3. job'[j] = NewJob("active", FALSE, row[x[1]].key)
      BY <1>1, <2>1 DEF x
    <3> QED BY <3>2, <3>3
  <2>2. CASE ~\E x \in DOMAIN js : js[x] = j
    BY <1>1, <2>2
  <2> QED BY <2>1, <2>2
<1>3. \A f \in files : row[f].key \in Keys
  BY DEF Shape
<1>4. job \in [Jobs -> JobRecord]
  BY ShapeParts DEF JobsTyped, JobRecord
<1>5. \A j \in Jobs : job'[j] \in JobRecord
  BY <1>2, <1>3, <1>4, NewJobTyped DEF JobStates
<1>6. job' = [j \in Jobs |-> job'[j]]
  BY <1>1
<1>7. job' \in [Jobs -> JobRecord]
  BY <1>5, <1>6
<1> QED BY <1>2, <1>7

LEMMA JobRequestShape ==
    ASSUME Shape, JobRequest
    PROVE  Shape'
<1>1. JobsTyped /\ job \in [Jobs -> JobRecord]
  BY ShapeParts DEF JobsTyped, JobRecord
<1>2. CASE ConvertFiles
  <2>1. job' \in [Jobs -> JobRecord]
    <3>1. ASSUME NEW f \in Files, convert_library_file(f) PROVE job' \in [Jobs -> JobRecord]
      <4>1. {f} \in SUBSET {g \in Files : get_file(g)}
        BY <3>1 DEF convert_library_file
      <4> QED BY <3>1, <4>1, StartJobsFacts DEF convert_library_file
    <3>2. ASSUME NEW asked \in SUBSET Files, create_batch_conversion(asked)
          PROVE  job' \in [Jobs -> JobRecord]
      <4>1. get_owned_files(asked) \in SUBSET {g \in Files : get_file(g)}
        BY DEF get_owned_files
      <4> QED BY <3>2, <4>1, StartJobsFacts DEF create_batch_conversion
    <3>3. ASSUME NEW asked \in SUBSET Files, run_workflow(asked) PROVE job' \in [Jobs -> JobRecord]
      <4>1. PICK supported \in SUBSET get_owned_files(asked) : StartJobs(supported, workflow)
        BY <3>3 DEF run_workflow
      <4>2. supported \in SUBSET {g \in Files : get_file(g)} /\ workflow \in Nat
        BY <1>1, JobsAssumption DEF get_owned_files, JobsTyped
      <4> QED BY <4>1, <4>2, StartJobsFacts
    <3> QED BY <1>2, <3>1, <3>2, <3>3 DEF ConvertFiles
  <2>2. UNCHANGED <<output, workflow, sweep, released>> /\ UNCHANGED fileVars
    BY <1>2 DEF ConvertFiles, NoSweeping, NoFiles
  <2>3. JobsTyped'
    BY <1>1, <2>1, <2>2 DEF JobsTyped, JobRecord
  <2> QED BY <2>2, <2>3, JobsShape
<1>3. ASSUME NEW guest \in BOOLEAN, create_conversion_job(guest) PROVE Shape'
  <2>1. PICK j \in Free : job' = [job EXCEPT ![j] = NewJob("waiting", guest, NoKey)]
    BY <1>3 DEF create_conversion_job
  <2>2. job' \in [Jobs -> JobRecord]
    BY <1>1, <2>1, NewJobTyped DEF JobStates
  <2>3. UNCHANGED <<output, workflow, sweep, released>> /\ UNCHANGED fileVars
    BY <1>3 DEF create_conversion_job, NoSweeping, NoFiles
  <2>4. JobsTyped'
    BY <1>1, <2>2, <2>3 DEF JobsTyped, JobRecord
  <2> QED BY <2>3, <2>4, JobsShape
<1>4. CASE KeepWorkflow
  <2>1. workflow' \in 0..MaxTargets
    BY <1>1, <1>4, JobsAssumption
       DEF KeepWorkflow, create_workflow, update_workflow, delete_workflow
  <2>2. UNCHANGED <<job, output, sweep, released>> /\ UNCHANGED fileVars
    BY <1>4 DEF KeepWorkflow, NoSweeping, NoFiles
  <2>3. JobsTyped'
    BY <1>1, <2>1, <2>2 DEF JobsTyped
  <2> QED BY <2>2, <2>3, JobsShape
<1>5. ASSUME NEW j \in Jobs, retry_conversion_job(j) \/ delete_history_job(j) PROVE Shape'
  <2>1. NoConversion \in JobRecord
    BY DEF NoConversion, JobRecord, JobStates
  <2>2. [job[j] EXCEPT !.state = "active"] \in JobRecord
    BY <1>1 DEF JobRecord, JobStates
  <2>3. job' \in [Jobs -> JobRecord]
    BY <1>1, <1>5, <2>1, <2>2 DEF retry_conversion_job, delete_history_job
  <2>4. UNCHANGED <<output, workflow, sweep, released>> /\ UNCHANGED fileVars
    BY <1>5 DEF retry_conversion_job, delete_history_job, NoSweeping, NoFiles
  <2>5. JobsTyped'
    BY <1>1, <2>3, <2>4 DEF JobsTyped, JobRecord
  <2> QED BY <2>4, <2>5, JobsShape
<1>6. JobRequest => \/ ConvertFiles \/ KeepWorkflow \/ \E guest \in BOOLEAN : create_conversion_job(guest)
                    \/ \E j \in Jobs : retry_conversion_job(j) \/ delete_history_job(j)
  BY DEF JobRequest, guest_conversion_job
<1> QED BY <1>2, <1>3, <1>4, <1>5, <1>6

LEMMA JobStepShape ==
    ASSUME Shape, JobStep
    PROVE  Shape'
<1>1. JobsTyped /\ job \in [Jobs -> JobRecord]
  BY ShapeParts DEF JobsTyped, JobRecord
<1>2. PICK j \in Jobs : RunJob(j) \/ GuestTokenExpires(j)
  BY DEF JobStep
<1>3. /\ [job[j] EXCEPT !.state = "completed"] \in JobRecord
      /\ [job[j] EXCEPT !.state = "failed"] \in JobRecord
      /\ [job[j] EXCEPT !.token = FALSE] \in JobRecord
  BY <1>1 DEF JobRecord, JobStates
<1>4. job' \in [Jobs -> JobRecord]
  BY <1>1, <1>2, <1>3 DEF RunJob, GuestTokenExpires
<1>5. UNCHANGED <<workflow, sweep, released>> /\ UNCHANGED fileVars /\ output' \subseteq Jobs
  BY <1>1, <1>2 DEF RunJob, GuestTokenExpires, NoSweeping, NoFiles, JobsTyped
<1>6. JobsTyped'
  BY <1>1, <1>4, <1>5 DEF JobsTyped, JobRecord
<1> QED BY <1>5, <1>6, JobsShape

SweepRecord == [selected : SUBSET Jobs, todo : SUBSET Jobs, keys : [Jobs -> Keys \cup {NoKey}]]

LEMMA NoSweepTyped == NoSweep \in SweepRecord
BY DEF NoSweep, SweepRecord

LEMMA SelectTyped ==
    ASSUME JobsTyped, NEW chosen \in SUBSET Jobs, Select(chosen)
    PROVE  JobsTyped'
<1> DEFINE ks == [j \in Jobs |-> IF j \in chosen THEN input_object_key(j) ELSE NoKey]
<1>1. ks \in [Jobs -> Keys \cup {NoKey}]
  BY DEF input_object_key, JobsTyped
<1>2. sweep' = [selected |-> chosen, todo |-> chosen, keys |-> ks]
  BY DEF Select
<1> HIDE DEF ks
<1>3. UNCHANGED <<job, output, workflow, released>>
  BY DEF Select
<1> QED BY <1>1, <1>2, <1>3 DEF JobsTyped

LEMMA SweepShape ==
    ASSUME Shape, Sweep
    PROVE  Shape'
<1>1. JobsTyped /\ LockTyped /\ TypeOKUploads
  BY ShapeParts
<1>2. CASE cleanup_guest_jobs \/ archive_old_jobs
  <2>1. PICK chosen \in SUBSET Jobs : Select(chosen)
    BY <1>2 DEF cleanup_guest_jobs, archive_old_jobs
  <2>2. JobsTyped' /\ UNCHANGED fileVars
    BY <1>1, <2>1, SelectTyped DEF Select, NoFiles
  <2> QED BY <2>2, JobsShape
<1>3. ASSUME NEW j \in Jobs, delete_objects(j) \/ delete_objects_fails(j) PROVE Shape'
  <2>1. [sweep EXCEPT !.todo = sweep.todo \ {j}] \in SweepRecord
    BY <1>1 DEF JobsTyped, SweepRecord
  <2>2. sweep' \in SweepRecord /\ UNCHANGED <<job, workflow>> /\ output' \subseteq Jobs
    BY <1>1, <1>3, <2>1 DEF delete_objects, delete_objects_fails, JobsTyped
  <2>3. sweep.keys[j] \in Keys \cup {NoKey}
    BY <1>1 DEF JobsTyped
  <2>4. released' \subseteq Keys
    BY <1>1, <1>3, <2>3 DEF delete_objects, delete_objects_fails, JobsTyped
  <2>5. JobsTyped'
    BY <1>1, <2>2, <2>4 DEF JobsTyped, SweepRecord
  <2>6. UNCHANGED <<folder, row, reqs, lock, parts, session>>
    BY <1>3 DEF delete_objects, delete_objects_fails, libraryVars, NoStore, uploadVars
  <2>7. LockTyped'
    BY <1>1, <1>3, <2>3, <2>6 DEF delete_objects, delete_objects_fails, libraryVars, LockTyped
  <2>8. object' = object \/ object' = remove_object(sweep.keys[j])
    BY <1>3 DEF delete_objects, delete_objects_fails, NoStore, uploadVars
  <2>9. TypeOKUploads'
    <3>1. CASE object' = object
      BY <1>1, <2>6, <3>1 DEF TypeOKUploads
    <3>2. CASE object' = remove_object(sweep.keys[j])
      BY <1>1, <2>6, <3>2, RemovedTyped
    <3> QED BY <2>8, <3>1, <3>2
  <2> QED BY <2>5, <2>6, <2>7, <2>9
          DEF Shape, TypeOKJobs, TypeOKLibrary, RequestHas, JobsTyped, LockTyped, get_file, get_folder
<1>4. CASE SweepCommits \/ SweepDies
  <2>1. UNCHANGED fileVars /\ sweep' = NoSweep /\ UNCHANGED <<output, workflow, released>>
    BY <1>4 DEF SweepCommits, SweepDies, NoFiles
  <2>2. job' \in [Jobs -> JobRecord]
    <3>1. NoConversion \in JobRecord /\ job \in [Jobs -> JobRecord]
      BY <1>1 DEF NoConversion, JobRecord, JobStates, JobsTyped
    <3> QED BY <1>4, <3>1 DEF SweepCommits, SweepDies
  <2>3. JobsTyped'
    BY <1>1, <2>1, <2>2, NoSweepTyped DEF JobsTyped, JobRecord, SweepRecord
  <2> QED BY <2>1, <2>3, JobsShape
<1> QED BY <1>2, <1>3, <1>4 DEF Sweep

LEMMA ShapeStep ==
    ASSUME Shape, [Next]_vars
    PROVE  Shape'
<1>1. CASE UNCHANGED vars
  <2>1. UNCHANGED fileVars /\ JobsTyped'
    BY <1>1, SameTypes DEF vars
  <2> QED BY <2>1, JobsShape
<1>2. CASE Next
  BY <1>2, UploadShape, VerifyShape, ArriveShape, ServeShape, ServeJobShape, FailShape,
     FavoriteShape, JobRequestShape, JobStepShape, SweepShape DEF Next
<1> QED BY <1>1, <1>2

------------------------------------------------------------------------------
(* The first state: the folders and files of a scenario *)

Stored(s, k) == \E f \in s.files : f.key = k

StartsAs(s) ==
    /\ object = [k \in Keys |-> IF Stored(s, k) THEN 1 ELSE 0]
    /\ parts = [k \in Keys |-> NoParts]
    /\ session \in [Keys -> UploadSession]
    /\ \A k \in Keys : /\ session[k].completed = Stored(s, k)
                       /\ session[k].created = Stored(s, k)
                       /\ session[k].owner = "user" /\ session[k].live = FALSE
    /\ folder \in [Folders -> UserFolder]
    /\ \A d \in Folders :
          IF d \in DOMAIN s.tree THEN folder[d].state = "live" /\ folder[d].parent = s.tree[d]
          ELSE folder[d].state = "unused" /\ folder[d].parent = Root
    /\ row \in [Files -> UserFile]
    /\ \A f \in Files :
          \/ \E e \in s.files : /\ e.file = f /\ row[f].state = "live" /\ row[f].key = e.key
                                /\ row[f].folder = e.folder /\ row[f].size = 1 /\ row[f] \in UserFile
          \/ row[f] = NoUserFile /\ \A e \in s.files : e.file # f

LEMMA InitFacts ==
    ASSUME Init
    PROVE  \E s \in Scenarios : ScenarioSound(s) /\ StartsAs(s)
<1>1. PICK s \in Scenarios :
        /\ object = [k \in Keys |-> IF \E f \in s.files : f.key = k THEN 1 ELSE 0]
        /\ parts = [k \in Keys |-> NoParts]
        /\ session = [k \in Keys |->
              IF \E f \in s.files : f.key = k
              THEN [NoSession EXCEPT !.created = TRUE, !.completed = TRUE] ELSE NoSession]
        /\ folder = [d \in Folders |->
              IF d \in DOMAIN s.tree
              THEN [state |-> "live", parent |-> s.tree[d], name |-> CHOOSE n \in Names : TRUE]
              ELSE [state |-> "unused", parent |-> Root, name |-> CHOOSE n \in Names : TRUE]]
        /\ row = [f \in Files |->
              IF \E e \in s.files : e.file = f
              THEN LET e == CHOOSE e \in s.files : e.file = f
                   IN [state |-> "live", key |-> e.key, folder |-> e.folder, size |-> 1,
                       favorite |-> FALSE]
              ELSE NoUserFile]
  BY DEF Init
<1>2. ScenarioSound(s)
  BY JobsAssumption
<1>3. /\ session \in [Keys -> UploadSession]
      /\ \A k \in Keys : /\ session[k].completed = Stored(s, k)
                         /\ session[k].created = Stored(s, k)
                         /\ session[k].owner = "user" /\ session[k].live = FALSE
  <2> DEFINE kept == [NoSession EXCEPT !.created = TRUE, !.completed = TRUE]
  <2>1. /\ NoSession \in UploadSession /\ NoSession.owner = "user" /\ NoSession.live = FALSE
        /\ NoSession.completed = FALSE /\ NoSession.created = FALSE
    BY DEF NoSession, UploadSession
  <2>2. /\ kept \in UploadSession /\ kept.owner = "user" /\ kept.live = FALSE
        /\ kept.completed = TRUE /\ kept.created = TRUE
    BY <2>1 DEF UploadSession
  <2> HIDE DEF kept
  <2>3. session = [k \in Keys |-> IF Stored(s, k) THEN kept ELSE NoSession]
    BY <1>1 DEF Stored, kept
  <2>4. session \in [Keys -> UploadSession]
    BY <2>1, <2>2, <2>3
  <2>5. ASSUME NEW k \in Keys
        PROVE  /\ session[k].completed = Stored(s, k) /\ session[k].created = Stored(s, k)
               /\ session[k].owner = "user" /\ session[k].live = FALSE
    <3>1. CASE Stored(s, k)
      <4>1. session[k] = kept /\ Stored(s, k) = TRUE
        BY <2>3, <3>1 DEF Stored
      <4> QED BY <2>2, <4>1
    <3>2. CASE ~Stored(s, k)
      <4>1. session[k] = NoSession /\ Stored(s, k) = FALSE
        BY <2>3, <3>2 DEF Stored
      <4> QED BY <2>1, <4>1
    <3> QED BY <3>1, <3>2
  <2> QED BY <2>4, <2>5
<1>4. /\ folder \in [Folders -> UserFolder]
      /\ \A d \in Folders :
            IF d \in DOMAIN s.tree THEN folder[d].state = "live" /\ folder[d].parent = s.tree[d]
            ELSE folder[d].state = "unused" /\ folder[d].parent = Root
  <2>1. (CHOOSE n \in Names : TRUE) \in Names
    BY LibraryAssumption
  <2>2. \A d \in DOMAIN s.tree : s.tree[d] \in Places
    BY <1>2 DEF ScenarioSound, Places
  <2> QED BY <1>1, <2>1, <2>2 DEF UserFolder, Places
<1>5. \A f \in Files :
         \/ \E e \in s.files : /\ e.file = f /\ row[f].state = "live" /\ row[f].key = e.key
                               /\ row[f].folder = e.folder /\ row[f].size = 1 /\ row[f] \in UserFile
         \/ row[f] = NoUserFile /\ \A e \in s.files : e.file # f
  <2> SUFFICES ASSUME NEW f \in Files, \E e \in s.files : e.file = f
               PROVE  \E e \in s.files : /\ e.file = f /\ row[f].state = "live" /\ row[f].key = e.key
                                         /\ row[f].folder = e.folder /\ row[f].size = 1
                                         /\ row[f] \in UserFile
    BY <1>1
  <2> DEFINE e == CHOOSE e \in s.files : e.file = f
  <2>1. e \in s.files /\ e.file = f
    OBVIOUS
  <2>2. row[f] = [state |-> "live", key |-> e.key, folder |-> e.folder, size |-> 1, favorite |-> FALSE]
    BY <1>1
  <2> HIDE DEF e
  <2>3. e.key \in Keys /\ e.folder \in Places /\ 1 \in 0..MaxSize
    BY <1>2, <2>1, UploadAssumption DEF ScenarioSound, Places
  <2> QED BY <2>1, <2>2, <2>3 DEF UserFile
<1>6. row \in [Files -> UserFile]
  <2>1. NoUserFile \in UserFile
    BY UploadAssumption DEF NoUserFile, UserFile, Places
  <2>2. row = [f \in Files |-> row[f]]
    BY <1>1
  <2>3. \A f \in Files : row[f] \in UserFile
    BY <1>5, <2>1
  <2> QED BY <2>2, <2>3
<1>7. object = [k \in Keys |-> IF Stored(s, k) THEN 1 ELSE 0]
  BY <1>1 DEF Stored
<1>8. StartsAs(s)
  BY <1>1, <1>3, <1>4, <1>5, <1>6, <1>7 DEF StartsAs
<1> QED BY <1>2, <1>8

LEMMA InitIdle ==
    ASSUME Init
    PROVE  /\ reqs = [r \in Requests |-> Idle] /\ lock = NoRequest /\ leaked = {}
           /\ job = [j \in Jobs |-> NoConversion] /\ output = {} /\ workflow = 0
           /\ sweep = NoSweep /\ released = {}
BY DEF Init

LEMMA ShapeInit ==
    ASSUME Init
    PROVE  Shape
<1>1. PICK s \in Scenarios : ScenarioSound(s) /\ StartsAs(s)
  BY InitFacts
<1>2. TypeOKUploads
  BY <1>1, UploadAssumption DEF TypeOKUploads, NoParts, StartsAs
<1>3. RowsTyped
  <2>1. \A e \in s.files : e.key \in Keys
    BY <1>1 DEF ScenarioSound
  <2> QED BY <1>1, <2>1 DEF RowsTyped, get_file, NoUserFile, StartsAs
<1>4. FoldersTyped
  BY <1>1 DEF FoldersTyped, get_folder, StartsAs
<1>5. LockTyped
  BY InitIdle DEF LockTyped
<1>6. reqs \in [Requests -> Request] /\ \A r \in Requests : RequestHas(reqs[r])
  BY InitIdle, IdleFacts
<1>7. JobsTyped
  <2>1. NoConversion \in JobRecord
    BY DEF NoConversion, JobRecord, JobStates
  <2> QED BY <2>1, InitIdle, NoSweepTyped, JobsAssumption DEF JobsTyped, JobRecord, SweepRecord
<1> QED BY <1>2, <1>3, <1>4, <1>5, <1>6, <1>7, ShapeParts

------------------------------------------------------------------------------
(* The folder tree *)

\* The steps that change a row or a folder.
LEMMA RowChanges ==
    ASSUME [Next]_vars
    PROVE  \/ UNCHANGED <<folder, row>>
           \/ \E r \in Requests : \/ save_file(r) \/ move_file(r) \/ delete_file_row(r)
                                  \/ batch_delete(r) \/ create_folder(r) \/ rename_folder(r)
                                  \/ move_folder(r) \/ DropFolders(r)
           \/ \E f \in Files : set_file_favorite(f)
<1> DEFINE Goal == \/ UNCHANGED <<folder, row>>
                   \/ \E r \in Requests : \/ save_file(r) \/ move_file(r) \/ delete_file_row(r)
                                          \/ batch_delete(r) \/ create_folder(r) \/ rename_folder(r)
                                          \/ move_folder(r) \/ DropFolders(r)
                   \/ \E f \in Files : set_file_favorite(f)
<1>1. ASSUME UNCHANGED vars PROVE Goal
  BY <1>1 DEF vars, fileVars, libraryVars
<1>2. ASSUME NEW k \in Keys, Upload(k) PROVE Goal
  BY <1>2 DEF Upload, create_upload_session, guest_upload_session, discard_upload_session, libraryVars
<1>3. ASSUME NEW r \in Requests, NEW k \in Keys, Verify(r, k) PROVE Goal
  BY <1>3 DEF Verify, verify_upload_session, OnlyRequests, NoRows
<1>4. ASSUME NEW r \in Requests, Arrive(r) PROVE Goal
  BY <1>4 DEF Arrive, ArriveFiles, ArriveFolders, move_file_request, delete_file_request,
       create_folder_request, rename_folder_request, move_folder_request, delete_folder_request,
       OnlyRequests, NoRows
<1>5. ASSUME NEW r \in Requests, Serve(r) PROVE Goal
  BY <1>5 DEF Serve, ServeFiles, CompleteParts, CheckObject, CheckOwner, measure_upload,
       find_existing, lock_and_check, RemoveOne, RemoveDone, delete_file_object,
       delete_with_descendants, OnlyRequests, NoRows
<1>6. ASSUME NEW r \in Requests, ServeJob(r) \/ Fail(r) PROVE Goal
  BY <1>6 DEF ServeJob, Fail, PointJob, verify_guest_upload, RemoveFails, RequestDies, NoRows
<1>7. ASSUME NEW f \in Files, Favorite(f) PROVE Goal
  BY <1>7 DEF Favorite
<1>8. ASSUME JobRequest \/ JobStep PROVE Goal
  BY <1>8 DEF JobRequest, JobStep, ConvertFiles, create_conversion_job, guest_conversion_job,
       KeepWorkflow, retry_conversion_job, delete_history_job, RunJob, GuestTokenExpires,
       NoFiles, fileVars, libraryVars
<1>9. ASSUME Sweep PROVE Goal
  BY <1>9 DEF Sweep, cleanup_guest_jobs, archive_old_jobs, Select, delete_objects,
       delete_objects_fails, SweepCommits, SweepDies, NoFiles, fileVars, libraryVars
<1> HIDE DEF Goal
<1>10. Goal
  BY <1>1, <1>2, <1>3, <1>4, <1>5, <1>6, <1>7, <1>8, <1>9 DEF Next
<1> QED BY <1>10 DEF Goal

\* Dropping folders takes all live folders in them along.
LEMMA DropFacts ==
    ASSUME Shape, NEW r \in Requests, DropFolders(r)
    PROVE  LET gone == Cascade(reqs[r].ids)
               files == IF reqs[r].keys = {} THEN {} ELSE FilesIn(reqs[r].ids)
           IN /\ gone \in SUBSET Folders
              /\ \A e \in Folders : get_folder(e) /\ folder[e].parent \in gone => e \in gone
              /\ folder' = [d \in Folders |->
                    IF d \in gone THEN [folder[d] EXCEPT !.state = "gone", !.parent = Root]
                    ELSE folder[d]]
              /\ \A d \in Folders :
                    IF d \in gone THEN folder'[d].state = "gone" /\ folder'[d].parent = Root
                    ELSE folder'[d] = folder[d]
              /\ \A f \in Files :
                    IF f \in files THEN row'[f] = GoneFile
                    ELSE /\ row'[f].state = row[f].state /\ row'[f].key = row[f].key
                         /\ row'[f].size = row[f].size
                         /\ row'[f].folder = IF row[f].folder \in gone THEN Root ELSE row[f].folder
<1> DEFINE gone == Cascade(reqs[r].ids)
           files == IF reqs[r].keys = {} THEN {} ELSE FilesIn(reqs[r].ids)
<1>1. reqs[r].ids \in SUBSET Folders
  BY ShapeFacts DEF Request
<1>2. gone \in SUBSET Folders
  BY <1>1, SubtreeClosed DEF Cascade
<1>3. ASSUME NEW e \in Folders, get_folder(e), folder[e].parent \in gone PROVE e \in gone
  <2>1. PICK d \in reqs[r].ids : folder[e].parent \in list_subtree_ids(d)
    BY <1>3 DEF Cascade
  <2>2. e \in list_subtree_ids(d)
    BY <1>1, <1>3, <2>1, SubtreeClosed
  <2> QED BY <2>2 DEF Cascade
<1>4. /\ folder' = [d \in Folders |->
            IF d \in gone THEN [folder[d] EXCEPT !.state = "gone", !.parent = Root]
            ELSE folder[d]]
      /\ row' = [f \in Files |->
            IF f \in files THEN GoneFile
            ELSE IF row[f].folder \in gone THEN [row[f] EXCEPT !.folder = Root]
            ELSE row[f]]
  BY DEF DropFolders
<1> HIDE DEF gone, files
<1>5. \A d \in Folders :
         IF d \in gone THEN folder'[d].state = "gone" /\ folder'[d].parent = Root
         ELSE folder'[d] = folder[d]
  BY <1>4, ShapeFacts DEF UserFolder
<1>6. \A f \in Files :
         IF f \in files THEN row'[f] = GoneFile
         ELSE /\ row'[f].state = row[f].state /\ row'[f].key = row[f].key
              /\ row'[f].size = row[f].size
              /\ row'[f].folder = IF row[f].folder \in gone THEN Root ELSE row[f].folder
  BY <1>4, ShapeFacts DEF UserFile
<1>7. /\ gone \in SUBSET Folders
      /\ \A e \in Folders : get_folder(e) /\ folder[e].parent \in gone => e \in gone
  BY <1>2, <1>3
<1> QED BY <1>4, <1>5, <1>6, <1>7 DEF gone, files

LEMMA InFolderStep ==
    ASSUME Shape, NothingInGoneFolder, [Next]_vars
    PROVE  NothingInGoneFolder'
<1>1. CASE UNCHANGED <<folder, row>>
  BY <1>1 DEF NothingInGoneFolder, get_file, get_folder, FolderThere
<1>2. ASSUME NEW r \in Requests, save_file(r) PROVE NothingInGoneFolder'
  <2>1. UNCHANGED folder /\ reqs[r] \in Request /\ row \in [Files -> UserFile]
    BY <1>2, ShapeFacts DEF save_file
  <2>2. \/ row' = row
        \/ /\ FolderThere(reqs[r].loaded.folder)
           /\ \E f \in Files : row' = [row EXCEPT ![f] =
                 [state |-> "live", key |-> reqs[r].key, folder |-> reqs[r].loaded.folder,
                  size |-> reqs[r].size, favorite |-> FALSE]]
    BY <1>2 DEF save_file
  <2> QED BY <2>1, <2>2 DEF NothingInGoneFolder, get_file, get_folder, FolderThere
<1>3. ASSUME NEW r \in Requests, move_file(r) PROVE NothingInGoneFolder'
  <2>1. UNCHANGED folder /\ row \in [Files -> UserFile]
    BY <1>3, ShapeFacts DEF move_file
  <2>2. \A f \in Files : \/ row'[f] = row[f]
                         \/ /\ row'[f].folder = reqs[r].place /\ FolderThere(reqs[r].place)
    BY <1>3, <2>1 DEF move_file, UserFile
  <2>3. \A f \in Files : row'[f].state = row[f].state
    BY <1>3, <2>1 DEF move_file, UserFile
  <2> QED BY <2>1, <2>2, <2>3 DEF NothingInGoneFolder, get_file, get_folder, FolderThere
<1>4. ASSUME NEW r \in Requests, delete_file_row(r) \/ batch_delete(r) PROVE NothingInGoneFolder'
  <2>1. UNCHANGED folder /\ row \in [Files -> UserFile]
    BY <1>4, ShapeFacts DEF delete_file_row, batch_delete
  <2>2. \A f \in Files : row'[f] = row[f] \/ row'[f] = GoneFile
    BY <1>4, <2>1, BatchArrives DEF delete_file_row
  <2> QED BY <2>1, <2>2, GoneFacts DEF NothingInGoneFolder, get_file, get_folder, FolderThere
<1>5. ASSUME NEW r \in Requests, create_folder(r) PROVE NothingInGoneFolder'
  <2>1. UNCHANGED row /\ folder \in [Folders -> UserFolder]
    BY <1>5, ShapeFacts DEF create_folder
  <2>2. PICK d \in Folders :
          /\ folder[d].state = "unused"
          /\ \/ folder' = folder
             \/ /\ FolderThere(reqs[r].place)
                /\ folder' = [folder EXCEPT ![d] = [state |-> "live", parent |-> reqs[r].place,
                                                    name |-> reqs[r].name]]
    BY <1>5 DEF create_folder
  <2>3. \A e \in Places : FolderThere(e) => FolderThere(e)'
    BY <2>1, <2>2 DEF FolderThere, get_folder, Places
  <2>4. \A f \in Files : row[f].folder \in Places
    BY ShapeFacts DEF UserFile
  <2>5. \A e \in Folders : get_folder(e)' =>
            \/ folder'[e].parent = folder[e].parent /\ get_folder(e)
            \/ folder'[e].parent = reqs[r].place /\ FolderThere(reqs[r].place)
    BY <2>1, <2>2 DEF get_folder
  <2>6. reqs[r].place \in Places /\ \A e \in Folders : folder[e].parent \in Places
    BY <2>1, ShapeFacts DEF Request, UserFolder
  <2>7. \A f \in Files : get_file(f)' => FolderThere(row[f].folder)'
    BY <2>1, <2>3, <2>4 DEF NothingInGoneFolder, get_file
  <2>8. \A e \in Folders : get_folder(e)' => FolderThere(folder[e].parent)'
    <3> SUFFICES ASSUME NEW e \in Folders, get_folder(e)', NEW p, p = folder'[e].parent
                 PROVE  p # Root => folder'[p].state = "live"
      BY DEF FolderThere, get_folder
    <3>1. p \in Places /\ FolderThere(p)
      BY <2>5, <2>6 DEF NothingInGoneFolder
    <3> QED BY <2>3, <3>1 DEF FolderThere, get_folder
  <2> QED BY <2>7, <2>8 DEF NothingInGoneFolder
<1>6. ASSUME NEW r \in Requests, rename_folder(r) PROVE NothingInGoneFolder'
  <2>1. UNCHANGED row /\ folder \in [Folders -> UserFolder]
    BY <1>6, ShapeFacts DEF rename_folder
  <2>2. \A d \in Folders : folder'[d].state = folder[d].state /\ folder'[d].parent = folder[d].parent
    BY <1>6, <2>1 DEF rename_folder, UserFolder
  <2>3. \A f \in Files : row[f].folder \in Places
    BY ShapeFacts DEF UserFile
  <2>4. \A d \in Folders : folder[d].parent \in Places
    BY <2>1 DEF UserFolder
  <2> QED BY <2>1, <2>2, <2>3, <2>4 DEF NothingInGoneFolder, get_file, get_folder, FolderThere, Places
<1>7. ASSUME NEW r \in Requests, move_folder(r) PROVE NothingInGoneFolder'
  <2>1. UNCHANGED row /\ folder \in [Folders -> UserFolder] /\ reqs[r].place \in Places
    BY <1>7, ShapeFacts DEF move_folder, Request
  <2>2. \A d \in Folders :
           /\ folder'[d].state = folder[d].state
           /\ \/ folder'[d].parent = folder[d].parent
              \/ folder'[d].parent = reqs[r].place /\ FolderThere(reqs[r].place)
    BY <1>7, <2>1 DEF move_folder, UserFolder
  <2>3. \A f \in Files : row[f].folder \in Places
    BY ShapeFacts DEF UserFile
  <2>4. \A d \in Folders : folder[d].parent \in Places
    BY <2>1 DEF UserFolder
  <2> QED BY <2>1, <2>2, <2>3, <2>4 DEF NothingInGoneFolder, get_file, get_folder, FolderThere, Places
<1>8. ASSUME NEW r \in Requests, DropFolders(r) PROVE NothingInGoneFolder'
  <2> DEFINE gone == Cascade(reqs[r].ids)
             files == IF reqs[r].keys = {} THEN {} ELSE FilesIn(reqs[r].ids)
  <2>1. /\ gone \in SUBSET Folders
        /\ \A e \in Folders : get_folder(e) /\ folder[e].parent \in gone => e \in gone
        /\ \A d \in Folders :
              IF d \in gone THEN folder'[d].state = "gone" /\ folder'[d].parent = Root
              ELSE folder'[d] = folder[d]
        /\ \A f \in Files :
              IF f \in files THEN row'[f] = GoneFile
              ELSE /\ row'[f].state = row[f].state
                   /\ row'[f].folder = IF row[f].folder \in gone THEN Root ELSE row[f].folder
    BY <1>8, DropFacts
  <2> HIDE DEF gone, files
  <2>2. \A f \in Files : row[f].folder \in Places
    BY ShapeFacts DEF UserFile
  <2>3. \A d \in Folders : folder[d].parent \in Places
    BY ShapeFacts DEF UserFolder
  <2>4. ASSUME NEW f \in Files, row'[f].state = "live", row'[f].folder # Root
        PROVE  folder'[row'[f].folder].state = "live"
    <3>1. f \notin files /\ row[f].state = "live" /\ row[f].folder \notin gone /\ row'[f].folder = row[f].folder
      BY <2>1, <2>4, GoneFacts
    <3> QED BY <2>1, <2>2, <2>4, <3>1 DEF NothingInGoneFolder, get_file, get_folder, FolderThere, Places
  <2>5. ASSUME NEW d \in Folders, folder'[d].state = "live", folder'[d].parent # Root
        PROVE  folder'[folder'[d].parent].state = "live"
    <3>1. d \notin gone /\ folder'[d] = folder[d]
      BY <2>1, <2>5
    <3>2. folder[d].parent \notin gone
      BY <2>1, <2>5, <3>1 DEF get_folder
    <3> QED BY <2>1, <2>3, <2>5, <3>1, <3>2 DEF NothingInGoneFolder, get_folder, FolderThere, Places
  <2> QED BY <2>4, <2>5 DEF NothingInGoneFolder, get_file, get_folder, FolderThere
<1>9. ASSUME NEW f \in Files, set_file_favorite(f) PROVE NothingInGoneFolder'
  <2>1. UNCHANGED folder /\ row \in [Files -> UserFile]
    BY <1>9, ShapeFacts DEF set_file_favorite
  <2>2. \A g \in Files : row'[g].state = row[g].state /\ row'[g].folder = row[g].folder
    BY <1>9, <2>1 DEF set_file_favorite, UserFile
  <2> QED BY <2>1, <2>2 DEF NothingInGoneFolder, get_file, get_folder, FolderThere
<1> QED BY <1>1, <1>2, <1>3, <1>4, <1>5, <1>6, <1>7, <1>8, <1>9, RowChanges

LEMMA InFolderInit ==
    ASSUME Init
    PROVE  NothingInGoneFolder
<1>1. PICK s \in Scenarios : ScenarioSound(s) /\ StartsAs(s)
  BY InitFacts
<1>2. /\ \A e \in s.files : e.folder \in DOMAIN s.tree \cup {Root}
      /\ DOMAIN s.tree \subseteq Folders
      /\ \A d \in DOMAIN s.tree : s.tree[d] \in DOMAIN s.tree \cup {Root}
  BY <1>1 DEF ScenarioSound
<1> QED BY <1>1, <1>2 DEF StartsAs, NothingInGoneFolder, get_file, get_folder, FolderThere, NoUserFile

\* A step of a request changes no other.
LEMMA OthersStay ==
    ASSUME Shape, NEW r \in Requests,
           \/ \E k \in Keys : Verify(r, k)
           \/ Arrive(r) \/ Serve(r) \/ ServeJob(r) \/ Fail(r)
    PROVE  Only(r)
<1>1. ASSUME NEW k \in Keys, Verify(r, k) PROVE Only(r)
  <2>1. PICK j \in Jobs \cup {NoJob} :
            verify_upload_session(r, k, j) /\ (session[k].owner = "guest" => j \in Jobs)
    BY <1>1 DEF Verify
  <2> QED BY <2>1, VerifyRequest
<1>2. CASE Arrive(r)
  BY <1>2, MoveFileArrives, DeleteFileArrives, BatchArrives, CreateFolderArrives,
     RenameFolderArrives, MoveFolderArrives, DeleteFolderArrives
     DEF Arrive, ArriveFiles, ArriveFolders
<1>3. CASE Serve(r)
  <2>1. ASSUME RemoveOne(r) PROVE Only(r)
    <3>1. reqs[r].op \in RemoveOps /\ \E k \in reqs[r].keys : reqs' = [reqs EXCEPT ![r].keys = @ \ {k}]
      BY <2>1 DEF RemoveOne
    <3> QED BY <3>1, RemoveOneRequest
  <2> QED BY <1>3, <2>1, CompletePartsRequest, CheckObjectRequest, CheckOwnerRequest, MeasureRequest,
        FindRequest, LockRequest, SaveRequest, RemoveDoneRequest, UnlinkRequest, CollectRequest,
        DropRequest, LastStep DEF Serve, ServeFiles
<1>4. CASE ServeJob(r) \/ Fail(r)
  BY <1>4, RemoveFailsRequest, LastStep DEF ServeJob, Fail
<1> QED BY <1>1, <1>2, <1>3, <1>4

\* Who changes a request.
LEMMA RequestSteps ==
    ASSUME [Next]_vars
    PROVE  \/ UNCHANGED reqs
           \/ \E r \in Requests : \/ \E k \in Keys : Verify(r, k)
                                  \/ Arrive(r) \/ Serve(r) \/ ServeJob(r) \/ Fail(r)
<1>1. CASE UNCHANGED vars
  BY <1>1 DEF vars, fileVars, libraryVars
<1>2. ASSUME NEW k \in Keys, Upload(k) PROVE UNCHANGED reqs
  BY <1>2 DEF Upload, create_upload_session, guest_upload_session, discard_upload_session, libraryVars
<1>3. ASSUME NEW f \in Files, Favorite(f) PROVE UNCHANGED reqs
  BY <1>3 DEF Favorite, set_file_favorite
<1>4. ASSUME JobRequest \/ JobStep PROVE UNCHANGED reqs
  BY <1>4 DEF JobRequest, JobStep, ConvertFiles, create_conversion_job, guest_conversion_job,
       KeepWorkflow, retry_conversion_job, delete_history_job, RunJob, GuestTokenExpires,
       NoFiles, fileVars, libraryVars
<1>5. ASSUME Sweep PROVE UNCHANGED reqs
  BY <1>5 DEF Sweep, cleanup_guest_jobs, archive_old_jobs, Select, delete_objects,
       delete_objects_fails, SweepCommits, SweepDies, NoFiles, fileVars, libraryVars
<1> QED BY <1>1, <1>2, <1>3, <1>4, <1>5 DEF Next

\* Every step notes which requests overlap.
LEMMA OverlapStep ==
    ASSUME [Next]_vars
    PROVE  Overlaps \/ UNCHANGED <<reqs, doubled, crossed>>
<1>1. CASE UNCHANGED vars
  BY <1>1 DEF vars, fileVars, libraryVars
<1>2. ASSUME \/ \E k \in Keys : Upload(k)
             \/ \E r \in Requests, k \in Keys : Verify(r, k)
      PROVE  Overlaps
  BY <1>2 DEF Upload, Verify, Spend, Quiet
<1>3. ASSUME \/ \E r \in Requests : Arrive(r) \/ Serve(r) \/ ServeJob(r) \/ Fail(r)
             \/ \E f \in Files : Favorite(f)
      PROVE  Overlaps
  BY <1>3 DEF Arrive, Serve, ServeJob, Fail, Favorite, Spend, Quiet
<1>4. CASE JobRequest \/ JobStep \/ Sweep
  BY <1>4 DEF JobRequest, JobStep, Sweep, Spend, Quiet
<1> QED BY <1>1, <1>2, <1>3, <1>4 DEF Next

\* What overlapped stays noted.
LEMMA OverlapStays ==
    ASSUME [Next]_vars
    PROVE  /\ doubled \subseteq doubled' /\ (crossed => crossed')
           /\ doubled \subseteq Keys /\ crossed \in BOOLEAN
              => doubled' \subseteq Keys /\ crossed' \in BOOLEAN
<1>1. CASE Overlaps
  BY <1>1 DEF Overlaps
<1>2. CASE UNCHANGED <<reqs, doubled, crossed>>
  BY <1>2
<1> QED BY <1>1, <1>2, OverlapStep

\* A request goes on to move a folder only when it arrives.
LEMMA MoveArrives ==
    ASSUME Shape, [Next]_vars, NEW r \in Requests, reqs'[r].op = "move"
    PROVE  \/ reqs'[r] = reqs[r]
           \/ \E d \in Folders, p \in Places : move_folder_request(r, d, p)
<1>1. ASSUME NEW q \in Requests, NEW k \in Keys, Verify(q, k), q = r PROVE FALSE
  <2>1. PICK j \in Jobs \cup {NoJob} :
            verify_upload_session(r, k, j) /\ (session[k].owner = "guest" => j \in Jobs)
    BY <1>1 DEF Verify
  <2> QED BY <2>1, VerifyRequest
<1>2. ASSUME Arrive(r) PROVE \E d \in Folders, p \in Places : move_folder_request(r, d, p)
  <2>1. ASSUME NEW f \in Files, NEW d \in Places, move_file_request(r, f, d) PROVE FALSE
    BY <2>1, MoveFileArrives
  <2>2. ASSUME NEW f \in Files, delete_file_request(r, f) PROVE FALSE
    BY <2>2, DeleteFileArrives
  <2>3. ASSUME batch_delete(r) PROVE FALSE
    BY <2>3, BatchArrives
  <2>4. ASSUME NEW p \in Places, NEW n \in Names, create_folder_request(r, p, n) PROVE FALSE
    BY <2>4, CreateFolderArrives
  <2>5. ASSUME NEW d \in Folders, NEW n \in Names, rename_folder_request(r, d, n) PROVE FALSE
    BY <2>5, RenameFolderArrives
  <2>6. ASSUME NEW d \in Folders, delete_folder_request(r, d) PROVE FALSE
    BY <2>6, DeleteFolderArrives
  <2> QED BY <1>2, <2>1, <2>2, <2>3, <2>4, <2>5, <2>6 DEF Arrive, ArriveFiles, ArriveFolders
<1>3. reqs[r] \in Request /\ Idle.op = "idle"
  BY ShapeFacts, IdleFacts
<1>4. ASSUME Serve(r) PROVE FALSE
  <2>1. CASE \/ CompleteParts(r) \/ CheckObject(r) \/ CheckOwner(r) \/ find_existing(r)
             \/ save_file(r) \/ delete_file_object(r) \/ DropFolders(r)
    BY <1>3, <2>1, CompletePartsRequest, CheckObjectRequest, CheckOwnerRequest, FindRequest,
       SaveRequest, UnlinkRequest, DropRequest DEF Request
  <2>2. CASE measure_upload(r) \/ lock_and_check(r)
    BY <1>3, <2>2, MeasureRequest, LockRequest DEF Request
  <2>3. CASE RemoveOne(r)
    <3>1. reqs[r].op \in RemoveOps /\ \E k \in reqs[r].keys : reqs' = [reqs EXCEPT ![r].keys = @ \ {k}]
      BY <2>3 DEF RemoveOne
    <3> QED BY <1>3, <3>1, RemoveOneRequest DEF Request
  <2>4. CASE RemoveDone(r) \/ delete_with_descendants(r)
    BY <1>3, <2>4, RemoveDoneRequest, CollectRequest
  <2>5. CASE \/ move_file(r) \/ delete_file_row(r) \/ create_folder(r) \/ rename_folder(r)
             \/ move_folder(r)
    BY <1>3, <2>5, LastStep
  <2> QED BY <1>4, <2>1, <2>2, <2>3, <2>4, <2>5 DEF Serve, ServeFiles
<1>5. ASSUME ServeJob(r) \/ Fail(r) PROVE FALSE
  <2>1. CASE PointJob(r) \/ verify_guest_upload(r) \/ RequestDies(r)
    BY <1>3, <2>1, LastStep
  <2>2. CASE RemoveFails(r)
    BY <1>3, <2>2, RemoveFailsRequest DEF Request
  <2> QED BY <1>5, <2>1, <2>2 DEF ServeJob, Fail
<1>6. ASSUME NEW q \in Requests, q # r,
             \/ \E k \in Keys : Verify(q, k)
             \/ Arrive(q) \/ Serve(q) \/ ServeJob(q) \/ Fail(q)
      PROVE  reqs'[r] = reqs[r]
  <2>1. Only(q)
    BY <1>6, OthersStay
  <2> QED BY <1>6, <2>1 DEF Only
<1> QED BY <1>1, <1>2, <1>4, <1>5, <1>6, RequestSteps

\* A set of places that has, with a folder, its parent.
Closed(U) == \A e \in U \ {Root} : folder[e].parent \in U

\* No set of folders has all its parents in itself: there is no cycle.
Rooted == \A C \in (SUBSET Folders) \ {{}} : \E e \in C : folder[e].parent \notin C

\* The chain a move was checked against is still above its target, and the
\* folder to be moved is not on it.
MovePending(q) ==
    q.op = "move" =>
        \E U \in SUBSET Places :
            /\ Root \in U /\ q.place \in U /\ q.self \notin U
            /\ \A e \in U \ {Root} : folder[e].state # "unused"
            /\ Closed(U)

Tree == /\ Rooted
        /\ \A r \in Requests : MovePending(reqs[r])
        /\ \A q, r \in Requests : reqs[q].op = "move" /\ reqs[r].op = "move" => q = r

\* Without a cycle every chain of folders ends at the root.
LEMMA RootedAbove ==
    ASSUME Shape, Rooted, NEW d \in Folders
    PROVE  Root \in Ancestors(d)
<1>1. \A e \in Folders : folder[e].parent \in Places
  BY ShapeFacts DEF UserFolder
<1>2. /\ Ancestors(d) \in SUBSET Places
      /\ folder[d].parent \in Ancestors(d)
      /\ \A e \in Ancestors(d) \ {Root} : folder[e].parent \in Ancestors(d)
  BY <1>1, AncestorsClosed
<1> QED BY <1>2 DEF Rooted, Places

LEMMA TreeInit ==
    ASSUME Init
    PROVE  Tree
<1>1. PICK s \in Scenarios : ScenarioSound(s) /\ StartsAs(s)
  BY InitFacts
<1>2. ASSUME NEW C \in SUBSET Folders, C # {} PROVE \E e \in C : folder[e].parent \notin C
  <2>1. CASE C \subseteq DOMAIN s.tree
    <3>1. \E e \in C : s.tree[e] \notin C
      BY <1>1, <1>2, <2>1 DEF ScenarioSound
    <3> QED BY <1>1, <2>1, <3>1 DEF StartsAs
  <2>2. CASE ~(C \subseteq DOMAIN s.tree)
    <3>1. PICK e \in C : e \notin DOMAIN s.tree
      BY <2>2
    <3>2. folder[e].parent = Root
      BY <1>1, <3>1 DEF StartsAs
    <3> QED BY <3>1, <3>2, UploadAssumption
  <2> QED BY <2>1, <2>2
<1>3. \A r \in Requests : reqs[r].op = "idle"
  BY InitIdle, IdleFacts
<1> QED BY <1>2, <1>3 DEF Tree, Rooted, MovePending

\* A pending move survives a step that changes parents only to the root, to
\* their old value, or of folders that were not in use.
LEMMA PendingStays ==
    ASSUME Shape, NEW q, MovePending(q),
           \A d \in Folders : /\ folder[d].state # "unused" => folder'[d].state # "unused"
                              /\ \/ folder'[d].parent = folder[d].parent \/ folder'[d].parent = Root
                                 \/ folder[d].state = "unused"
    PROVE  q.op = "move" =>
              \E U \in SUBSET Places :
                  /\ Root \in U /\ q.place \in U /\ q.self \notin U
                  /\ \A e \in U \ {Root} : folder'[e].state # "unused"
                  /\ \A e \in U \ {Root} : folder'[e].parent \in U
<1> SUFFICES ASSUME q.op = "move" PROVE \E U \in SUBSET Places :
                  /\ Root \in U /\ q.place \in U /\ q.self \notin U
                  /\ \A e \in U \ {Root} : folder'[e].state # "unused"
                  /\ \A e \in U \ {Root} : folder'[e].parent \in U
  OBVIOUS
<1>1. PICK U \in SUBSET Places :
            /\ Root \in U /\ q.place \in U /\ q.self \notin U
            /\ \A e \in U \ {Root} : folder[e].state # "unused"
            /\ Closed(U)
  BY DEF MovePending
<1>2. \A e \in U \ {Root} : e \in Folders
  BY DEF Places
<1>3. \A e \in U \ {Root} : folder'[e].state # "unused" /\ folder'[e].parent \in U
  BY <1>1, <1>2 DEF Closed
<1> QED BY <1>1, <1>3

\* The check that a folder is not moved below itself.
LEMMA MoveChecked ==
    ASSUME Shape, NothingInGoneFolder, Rooted, NEW r \in Requests, NEW d \in Folders,
           NEW p \in Places, move_folder_request(r, d, p)
    PROVE  \E U \in SUBSET Places :
              /\ Root \in U /\ p \in U /\ d \notin U
              /\ \A e \in U \ {Root} : folder[e].state # "unused"
              /\ Closed(U)
<1>1. FolderThere(p) /\ (p # Root => p # d /\ ~is_descendant(p, d))
  BY DEF move_folder_request
<1>2. CASE p = Root
  <2>1. {Root} \in SUBSET Places /\ Closed({Root}) /\ d \notin {Root}
    BY UploadAssumption DEF Closed, Places
  <2> QED BY <1>2, <2>1
<1>3. CASE p # Root
  <2>1. p \in Folders /\ get_folder(p) /\ \A e \in Folders : folder[e].parent \in Places
    BY <1>1, <1>3, ShapeFacts DEF Places, FolderThere, UserFolder
  <2>2. /\ Ancestors(p) \in SUBSET Places
        /\ folder[p].parent \in Ancestors(p)
        /\ \A e \in Ancestors(p) \ {Root} : folder[e].parent \in Ancestors(p)
    BY <2>1, AncestorsClosed
  <2>3. Root \in Ancestors(p) /\ d \notin Ancestors(p) /\ p # d
    BY <1>1, <1>3 DEF is_descendant
  <2> DEFINE U == {e \in Ancestors(p) \cup {p} : e = Root \/ folder[e].state = "live"}
  <2>4. U \in SUBSET Places /\ Root \in U /\ p \in U /\ d \notin U
    BY <2>1, <2>2, <2>3 DEF get_folder
  <2>5. ASSUME NEW e \in U \ {Root} PROVE folder[e].parent \in U
    <3>1. e \in Folders /\ get_folder(e)
      BY <2>4, <2>5 DEF Places, get_folder
    <3>2. FolderThere(folder[e].parent)
      BY <3>1 DEF NothingInGoneFolder
    <3>3. folder[e].parent \in Ancestors(p)
      BY <2>2, <2>5
    <3> QED BY <3>2, <3>3 DEF FolderThere, get_folder
  <2>6. \A e \in U \ {Root} : folder[e].state # "unused"
    OBVIOUS
  <2> HIDE DEF U
  <2>7. Closed(U)
    BY <2>5 DEF Closed
  <2> QED BY <2>4, <2>6, <2>7
<1> QED BY <1>2, <1>3

\* How the folders may change but by a move.
FoldersStay ==
    \A d \in Folders : /\ folder[d].state # "unused" => folder'[d].state # "unused"
                       /\ \/ folder'[d].parent = folder[d].parent \/ folder'[d].parent = Root
                          \/ folder[d].state = "unused"

LEMMA FoldersChange ==
    ASSUME Shape, NothingInGoneFolder, Rooted, [Next]_vars,
           ~\E r \in Requests : move_folder(r)
    PROVE  FoldersStay /\ Rooted'
<1>0. folder \in [Folders -> UserFolder] /\ \A d \in Folders : folder[d].parent \in Places
  BY ShapeFacts DEF UserFolder
<1>1. ASSUME \A d \in Folders : /\ folder'[d].state = folder[d].state
                                /\ folder'[d].parent = folder[d].parent
      PROVE  FoldersStay /\ Rooted'
  BY <1>1 DEF FoldersStay, Rooted
<1>2. ASSUME UNCHANGED folder PROVE FoldersStay /\ Rooted'
  BY <1>1, <1>2
<1>3. ASSUME NEW r \in Requests, \/ save_file(r) \/ move_file(r) \/ delete_file_row(r) \/ batch_delete(r)
      PROVE  FoldersStay /\ Rooted'
  BY <1>2, <1>3 DEF save_file, move_file, delete_file_row, batch_delete
<1>4. ASSUME NEW f \in Files, set_file_favorite(f) PROVE FoldersStay /\ Rooted'
  BY <1>2, <1>4 DEF set_file_favorite
<1>5. ASSUME NEW r \in Requests, rename_folder(r) PROVE FoldersStay /\ Rooted'
  <2>1. \A d \in Folders : folder'[d].state = folder[d].state /\ folder'[d].parent = folder[d].parent
    BY <1>0, <1>5 DEF rename_folder, UserFolder
  <2> QED BY <1>1, <2>1
<1>6. ASSUME NEW r \in Requests, create_folder(r) PROVE FoldersStay /\ Rooted'
  <2>1. PICK d \in Folders :
          /\ folder[d].state = "unused"
          /\ \/ folder' = folder
             \/ /\ FolderThere(reqs[r].place)
                /\ folder' = [folder EXCEPT ![d] = [state |-> "live", parent |-> reqs[r].place,
                                                    name |-> reqs[r].name]]
    BY <1>6 DEF create_folder
  <2>2. CASE folder' = folder
    BY <1>2, <2>2
  <2>3. CASE folder' # folder
    <3>1. /\ \A e \in Folders \ {d} : folder'[e] = folder[e]
          /\ folder'[d].parent = reqs[r].place /\ folder'[d].state = "live"
          /\ FolderThere(reqs[r].place)
      BY <1>0, <2>1, <2>3
    <3>2. FoldersStay
      BY <2>1, <3>1 DEF FoldersStay
    <3>3. \A e \in Folders : folder[e].parent # d
      <4> SUFFICES ASSUME NEW e \in Folders, folder[e].parent = d PROVE FALSE
        OBVIOUS
      <4>1. d # Root
        BY UploadAssumption
      <4>2. get_folder(e)
        BY <4>1 DEF Shape
      <4>3. FolderThere(d)
        BY <4>2 DEF NothingInGoneFolder
      <4> QED BY <2>1, <4>1, <4>3 DEF FolderThere, get_folder
    <3>4. reqs[r].place # d
      BY <2>1, <3>1, UploadAssumption DEF FolderThere, get_folder
    <3>5. ASSUME NEW C \in SUBSET Folders, C # {} PROVE \E e \in C : folder'[e].parent \notin C
      <4>1. CASE C \ {d} = {}
        <5>1. C = {d}
          BY <3>5, <4>1
        <5> QED BY <3>1, <3>4, <5>1
      <4>2. CASE C \ {d} # {}
        <5>1. PICK e \in C \ {d} : folder[e].parent \notin C \ {d}
          BY <4>2 DEF Rooted
        <5>2. folder[e].parent \notin C
          BY <3>3, <5>1
        <5> QED BY <3>1, <5>1, <5>2
      <4> QED BY <4>1, <4>2
    <3> QED BY <3>2, <3>5 DEF Rooted
  <2> QED BY <2>2, <2>3
<1>7. ASSUME NEW r \in Requests, DropFolders(r) PROVE FoldersStay /\ Rooted'
  <2> DEFINE gone == Cascade(reqs[r].ids)
  <2>1. \A d \in Folders :
           IF d \in gone THEN folder'[d].state = "gone" /\ folder'[d].parent = Root
           ELSE folder'[d] = folder[d]
    BY <1>7, DropFacts
  <2> HIDE DEF gone
  <2>2. FoldersStay
    BY <2>1 DEF FoldersStay
  <2>3. ASSUME NEW C \in SUBSET Folders, C # {} PROVE \E e \in C : folder'[e].parent \notin C
    <3>1. PICK e \in C : folder[e].parent \notin C
      BY <2>3 DEF Rooted
    <3> QED BY <2>1, <3>1, UploadAssumption
  <2> QED BY <2>2, <2>3 DEF Rooted
<1> QED BY <1>2, <1>3, <1>4, <1>5, <1>6, <1>7, RowChanges

LEMMA TreeStep ==
    ASSUME Shape, NothingInGoneFolder, Tree, [Next]_vars, ~crossed'
    PROVE  Tree'
<1>1. Rooted /\ folder \in [Folders -> UserFolder] /\ \A d \in Folders : folder[d].parent \in Places
  BY ShapeFacts DEF UserFolder, Tree
<1>2. CASE \E r \in Requests : move_folder(r)
  <2>1. PICK r \in Requests : move_folder(r)
    BY <1>2
  <2>2. reqs[r].op = "move" /\ reqs[r].self \in Folders /\ reqs[r].place \in Places
    BY <2>1, ShapeFacts DEF move_folder, Request, RequestHas
  <2>3. Only(r) /\ reqs'[r] = Idle
    BY <2>1, LastStep
  <2>4. \A q \in Requests : reqs'[q].op # "move"
    BY <2>2, <2>3, IdleFacts DEF Only, Tree
  <2>5. Rooted'
    <3>1. \/ folder' = folder
          \/ /\ folder'[reqs[r].self].parent = reqs[r].place
             /\ \A e \in Folders \ {reqs[r].self} : folder'[e] = folder[e]
      BY <1>1, <2>1, <2>2 DEF move_folder, UserFolder
    <3>2. PICK U \in SUBSET Places :
              /\ Root \in U /\ reqs[r].place \in U /\ reqs[r].self \notin U
              /\ Closed(U)
      BY <2>2 DEF Tree, MovePending
    <3>3. ASSUME NEW C \in SUBSET Folders, C # {},
                 folder'[reqs[r].self].parent = reqs[r].place,
                 \A e \in Folders \ {reqs[r].self} : folder'[e] = folder[e]
          PROVE  \E e \in C : folder'[e].parent \notin C
      <4> SUFFICES ASSUME \A e \in C : folder'[e].parent \in C PROVE FALSE
        OBVIOUS
      <4>1. CASE reqs[r].self \notin C
        <5>1. \A e \in C : folder[e].parent \in C
          BY <3>3, <4>1
        <5> QED BY <1>1, <3>3, <5>1 DEF Rooted
      <4>2. CASE reqs[r].self \in C
        <5> DEFINE D == C \cap U
        <5>1. reqs[r].place \in D
          BY <3>2, <3>3, <4>2
        <5>2. ASSUME NEW e \in D PROVE folder[e].parent \in D
          <6>1. e # Root /\ e # reqs[r].self /\ e \in Folders
            BY <3>2, UploadAssumption
          <6> QED BY <3>2, <3>3, <6>1 DEF Closed
        <5>3. D \in SUBSET Folders /\ D # {}
          BY <5>1
        <5> HIDE DEF D
        <5> QED BY <1>1, <5>2, <5>3 DEF Rooted
      <4> QED BY <4>1, <4>2
    <3>4. CASE folder' = folder
      BY <1>1, <3>4 DEF Rooted
    <3>5. CASE folder' # folder
      BY <3>1, <3>3, <3>5 DEF Rooted
    <3> QED BY <3>4, <3>5
  <2> QED BY <2>4, <2>5 DEF Tree, MovePending
<1>3. CASE ~\E r \in Requests : move_folder(r)
  <2>1. FoldersStay /\ Rooted'
    BY <1>1, <1>3, FoldersChange
  <2>2. ASSUME NEW r \in Requests, reqs'[r].op = "move"
        PROVE  \E U \in SUBSET Places :
                  /\ Root \in U /\ reqs'[r].place \in U /\ reqs'[r].self \notin U
                  /\ \A e \in U \ {Root} : folder'[e].state # "unused"
                  /\ \A e \in U \ {Root} : folder'[e].parent \in U
    <3>1. CASE reqs'[r] = reqs[r]
      <4>1. MovePending(reqs[r])
        BY DEF Tree
      <4> QED BY <2>1, <2>2, <3>1, <4>1, PendingStays DEF FoldersStay
    <3>2. ASSUME NEW d \in Folders, NEW p \in Places, move_folder_request(r, d, p)
          PROVE  \E U \in SUBSET Places :
                    /\ Root \in U /\ reqs'[r].place \in U /\ reqs'[r].self \notin U
                    /\ \A e \in U \ {Root} : folder'[e].state # "unused"
                    /\ \A e \in U \ {Root} : folder'[e].parent \in U
      <4>1. reqs'[r].self = d /\ reqs'[r].place = p /\ UNCHANGED folder
        BY <3>2, MoveFolderArrives DEF move_folder_request, OnlyRequests, NoRows
      <4> QED BY <1>1, <3>2, <4>1, MoveChecked DEF Closed
    <3> QED BY <2>2, <3>1, <3>2, MoveArrives
  <2>3. ASSUME NEW q \in Requests, NEW r \in Requests, reqs'[q].op = "move", reqs'[r].op = "move"
        PROVE  q = r
    <3>1. CASE Overlaps
      BY <2>3, <3>1 DEF Overlaps
    <3>2. CASE UNCHANGED reqs
      BY <2>3, <3>2 DEF Tree
    <3> QED BY <3>1, <3>2, OverlapStep
  <2> QED BY <2>1, <2>2, <2>3 DEF Tree, MovePending, Closed
<1> QED BY <1>2, <1>3

\* Nothing is in a folder that is gone, every variable has its type, and
\* every folder is reached from the root until two moves run at once: a move
\* is checked (_is_descendant) before it is written, and no creation, rename
\* or cascading deletion in between makes the check wrong (move_folder,
\* delete_with_descendants).
THEOREM TreeSoundTheorem == Spec => []TreeSound
<1> DEFINE Inv == /\ Shape /\ NothingInGoneFolder /\ (crossed \/ Tree)
                  /\ doubled \subseteq Keys /\ crossed \in BOOLEAN
<1>1. Init => Inv
  <2>1. Init => doubled = {} /\ crossed = FALSE
    BY DEF Init
  <2> QED BY <2>1, ShapeInit, InFolderInit, TreeInit
<1>2. Inv /\ [Next]_vars => Inv'
  <2>1. ASSUME Inv, [Next]_vars PROVE Shape' /\ NothingInGoneFolder'
    BY <2>1, ShapeStep, InFolderStep
  <2>2. ASSUME Inv, [Next]_vars, ~crossed' PROVE Tree'
    <3>1. ~crossed
      BY <2>2, OverlapStays
    <3> QED BY <2>2, <3>1, TreeStep
  <2>3. ASSUME Inv, [Next]_vars PROVE doubled' \subseteq Keys /\ crossed' \in BOOLEAN
    BY <2>3, OverlapStays
  <2> QED BY <2>1, <2>2, <2>3
<1>3. Inv => TreeSound
  <2>1. ASSUME Shape, Tree PROVE TreeRooted
    BY <2>1, RootedAbove DEF Tree, TreeRooted
  <2> QED BY <2>1 DEF TreeSound, TypeOK, Shape
<1> QED BY <1>1, <1>2, <1>3, PTL DEF Spec

------------------------------------------------------------------------------
(* The storage quota *)

\* A request comes to insert its row only from the lock.
LEMMA SaveArrives ==
    ASSUME Shape, [Next]_vars, NEW r \in Requests, reqs'[r].op = "save"
    PROVE  \/ reqs'[r] = reqs[r]
           \/ lock_and_check(r)
<1>1. ASSUME NEW q \in Requests, NEW k \in Keys, Verify(q, k), q = r PROVE FALSE
  <2>1. PICK j \in Jobs \cup {NoJob} :
            verify_upload_session(r, k, j) /\ (session[k].owner = "guest" => j \in Jobs)
    BY <1>1 DEF Verify
  <2> QED BY <2>1, VerifyRequest
<1>2. ASSUME Arrive(r) PROVE FALSE
  <2>1. ASSUME NEW f \in Files, NEW d \in Places, move_file_request(r, f, d) PROVE FALSE
    BY <2>1, MoveFileArrives
  <2>2. ASSUME NEW f \in Files, delete_file_request(r, f) PROVE FALSE
    BY <2>2, DeleteFileArrives
  <2>3. ASSUME batch_delete(r) PROVE FALSE
    BY <2>3, BatchArrives
  <2>4. ASSUME NEW p \in Places, NEW n \in Names, create_folder_request(r, p, n) PROVE FALSE
    BY <2>4, CreateFolderArrives
  <2>5. ASSUME NEW d \in Folders, NEW n \in Names, rename_folder_request(r, d, n) PROVE FALSE
    BY <2>5, RenameFolderArrives
  <2>6. ASSUME NEW d \in Folders, delete_folder_request(r, d) PROVE FALSE
    BY <2>6, DeleteFolderArrives
  <2>7. ASSUME NEW d \in Folders, NEW p \in Places, move_folder_request(r, d, p) PROVE FALSE
    BY <2>7, MoveFolderArrives
  <2> QED BY <1>2, <2>1, <2>2, <2>3, <2>4, <2>5, <2>6, <2>7 DEF Arrive, ArriveFiles, ArriveFolders
<1>3. reqs[r] \in Request /\ Idle.op = "idle"
  BY ShapeFacts, IdleFacts
<1>4. ASSUME Serve(r), ~lock_and_check(r) PROVE FALSE
  <2>1. CASE \/ CompleteParts(r) \/ CheckObject(r) \/ CheckOwner(r) \/ find_existing(r)
             \/ save_file(r) \/ delete_file_object(r) \/ DropFolders(r)
    BY <1>3, <2>1, CompletePartsRequest, CheckObjectRequest, CheckOwnerRequest, FindRequest,
       SaveRequest, UnlinkRequest, DropRequest DEF Request
  <2>2. CASE measure_upload(r)
    BY <1>3, <2>2, MeasureRequest DEF Request
  <2>3. CASE RemoveOne(r)
    <3>1. reqs[r].op \in RemoveOps /\ \E k \in reqs[r].keys : reqs' = [reqs EXCEPT ![r].keys = @ \ {k}]
      BY <2>3 DEF RemoveOne
    <3> QED BY <1>3, <3>1, RemoveOneRequest DEF Request
  <2>4. CASE RemoveDone(r) \/ delete_with_descendants(r)
    BY <1>3, <2>4, RemoveDoneRequest, CollectRequest
  <2>5. CASE \/ move_file(r) \/ delete_file_row(r) \/ create_folder(r) \/ rename_folder(r)
             \/ move_folder(r)
    BY <1>3, <2>5, LastStep
  <2> QED BY <1>4, <2>1, <2>2, <2>3, <2>4, <2>5 DEF Serve, ServeFiles
<1>5. ASSUME ServeJob(r) \/ Fail(r) PROVE FALSE
  <2>1. CASE PointJob(r) \/ verify_guest_upload(r) \/ RequestDies(r)
    BY <1>3, <2>1, LastStep
  <2>2. CASE RemoveFails(r)
    BY <1>3, <2>2, RemoveFailsRequest DEF Request
  <2> QED BY <1>5, <2>1, <2>2 DEF ServeJob, Fail
<1>6. ASSUME NEW q \in Requests, q # r,
             \/ \E k \in Keys : Verify(q, k)
             \/ Arrive(q) \/ Serve(q) \/ ServeJob(q) \/ Fail(q)
      PROVE  reqs'[r] = reqs[r]
  <2>1. Only(q)
    BY <1>6, OthersStay
  <2> QED BY <1>6, <2>1 DEF Only
<1> QED BY <1>1, <1>2, <1>4, <1>5, <1>6, RequestSteps

\* Who takes and who gives back the lock on the user's row.
LEMMA LockChanges ==
    ASSUME [Next]_vars
    PROVE  \/ UNCHANGED lock
           \/ \E r \in Requests : \/ lock_and_check(r)
                                  \/ /\ Released(r)
                                     /\ save_file(r) \/ RemoveFails(r) \/ RemoveDone(r) \/ RequestDies(r)
<1> DEFINE Goal == \/ UNCHANGED lock
                   \/ \E r \in Requests :
                         \/ lock_and_check(r)
                         \/ /\ Released(r)
                            /\ save_file(r) \/ RemoveFails(r) \/ RemoveDone(r) \/ RequestDies(r)
<1>1. ASSUME UNCHANGED vars PROVE Goal
  BY <1>1 DEF vars, fileVars, libraryVars
<1>2. ASSUME NEW k \in Keys, Upload(k) PROVE Goal
  BY <1>2 DEF Upload, create_upload_session, guest_upload_session, discard_upload_session, libraryVars
<1>3. ASSUME NEW r \in Requests, NEW k \in Keys, Verify(r, k) PROVE Goal
  BY <1>3 DEF Verify, verify_upload_session, OnlyRequests, NoLock
<1>4. ASSUME NEW r \in Requests, Arrive(r) PROVE Goal
  BY <1>4 DEF Arrive, ArriveFiles, ArriveFolders, move_file_request, delete_file_request, batch_delete,
       create_folder_request, rename_folder_request, move_folder_request, delete_folder_request,
       OnlyRequests, NoLock
<1>5. ASSUME NEW r \in Requests, Serve(r) PROVE Goal
  <2>1. CASE save_file(r)
    BY <2>1 DEF save_file
  <2>2. CASE RemoveDone(r)
    BY <2>2 DEF RemoveDone
  <2>3. CASE ~save_file(r) /\ ~RemoveDone(r)
    BY <1>5, <2>3 DEF Serve, ServeFiles, CompleteParts, CheckObject, CheckOwner, measure_upload,
       find_existing, RemoveOne, delete_file_object, move_file, delete_file_row, create_folder,
       rename_folder, move_folder, delete_with_descendants, DropFolders, OnlyRequests, NoLock
  <2> QED BY <2>1, <2>2, <2>3
<1>6. ASSUME NEW r \in Requests, ServeJob(r) PROVE Goal
  BY <1>6 DEF ServeJob, PointJob, verify_guest_upload, NoLock
<1>7. ASSUME NEW r \in Requests, Fail(r) PROVE Goal
  BY <1>7 DEF Fail, RemoveFails, RequestDies, NoLock
<1>8. ASSUME NEW f \in Files, Favorite(f) PROVE Goal
  BY <1>8 DEF Favorite, set_file_favorite
<1>9. ASSUME JobRequest \/ JobStep PROVE Goal
  BY <1>9 DEF JobRequest, JobStep, ConvertFiles, create_conversion_job, guest_conversion_job,
       KeepWorkflow, retry_conversion_job, delete_history_job, RunJob, GuestTokenExpires,
       NoFiles, fileVars, libraryVars
<1>10. ASSUME Sweep PROVE Goal
  BY <1>10 DEF Sweep, cleanup_guest_jobs, archive_old_jobs, Select, delete_objects,
       delete_objects_fails, SweepCommits, SweepDies, NoFiles, fileVars, libraryVars
<1> HIDE DEF Goal
<1>11. Goal
  BY <1>1, <1>2, <1>3, <1>4, <1>5, <1>6, <1>7, <1>8, <1>9, <1>10 DEF Next
<1> QED BY <1>11 DEF Goal

Live == {f \in Files : get_file(f)}

LEMMA UsedIs ==
    ASSUME Shape
    PROVE  /\ get_user_storage_used = Total(row, Live) /\ Total(row, Live) \in Nat
           /\ IsFiniteSet(Live) /\ \A f \in Files : row[f].size \in Nat
<1>1. get_user_storage_used = Total(row, Live)
  BY DEF get_user_storage_used, Total, SizeOf, Live
<1>2. IsFiniteSet(Live)
  BY LibraryAssumption, FS_Subset DEF Live
<1>3. \A f \in Files : row[f].size \in Nat
  BY ShapeFacts, UploadAssumption DEF UserFile
<1>4. Total(row, Live) \in Nat
  BY <1>2, <1>3, TotalNat DEF Live
<1> QED BY <1>1, <1>2, <1>3, <1>4

LEMMA UsedNext ==
    ASSUME Shape'
    PROVE  /\ (get_user_storage_used)' = Total(row', {f \in Files : row'[f].state = "live"})
           /\ Total(row', {f \in Files : row'[f].state = "live"}) \in Nat
           /\ IsFiniteSet({f \in Files : row'[f].state = "live"})
           /\ \A f \in Files : row'[f].size \in Nat
<1> DEFINE L == {f \in Files : row'[f].state = "live"}
<1>1. (get_user_storage_used)' = Total(row', L)
  BY DEF get_user_storage_used, Total, SizeOf, MapThenSumSet, MapThenFoldSet, get_file
<1>2. IsFiniteSet(L)
  BY LibraryAssumption, FS_Subset
<1>3. \A f \in Files : row'[f].size \in Nat
  BY UploadAssumption DEF UserFile, Shape, TypeOKJobs, TypeOKLibrary
<1>4. Total(row', L) \in Nat
  BY <1>2, <1>3, TotalNat
<1> QED BY <1>1, <1>2, <1>3, <1>4

\* Rows that only go, and keep their size, use no more.
LEMMA UsedNoMore ==
    ASSUME Shape, Shape',
           \A f \in Files : row'[f].state = "live" => row[f].state = "live" /\ row'[f].size = row[f].size
    PROVE  (get_user_storage_used)' <= get_user_storage_used
<1> DEFINE L == {f \in Files : row'[f].state = "live"}
<1>1. L \subseteq Live
  BY DEF Live, get_file
<1>2. Total(row, L) = Total(row', L)
  BY UsedNext, TotalSame
<1>3. Total(row, L) <= Total(row, Live)
  <2>1. \A f \in Live : row[f].size \in Nat
    BY UsedIs DEF Live
  <2> HIDE DEF L
  <2> QED BY <1>1, <2>1, UsedIs, TotalPart
<1> QED BY <1>2, <1>3, UsedIs, UsedNext

\* A new row adds its size.
LEMMA UsedMore ==
    ASSUME Shape, Shape', NEW f \in Files, row[f].state # "live", row'[f].state = "live",
           \A g \in Files \ {f} : row'[g] = row[g]
    PROVE  (get_user_storage_used)' = get_user_storage_used + row'[f].size
<1> DEFINE L == {g \in Files : row'[g].state = "live"}
<1>1. L \ {f} = Live /\ f \in L
  BY DEF Live, get_file
<1>2. Total(row', L) = row'[f].size + Total(row', L \ {f})
  <2>1. IsFiniteSet(L) /\ \A g \in L : row'[g].size \in Nat
    BY UsedNext
  <2> QED BY <1>1, <2>1, TotalSplit
<1>3. Total(row', Live) = Total(row, Live)
  <2>1. \A g \in Live : row'[g].size = row[g].size
    BY DEF Live, get_file
  <2> QED BY <2>1, UsedIs, TotalSame
<1>4. row'[f].size \in Nat
  BY UsedNext
<1>5. (get_user_storage_used)' = Total(row', L)
  BY UsedNext
<1> HIDE DEF L
<1>6. Total(row', L \ {f}) = Total(row, Live)
  BY <1>1, <1>3
<1>7. Total(row, Live) = get_user_storage_used /\ get_user_storage_used \in Nat
  BY UsedIs
<1> HIDE DEF Live
<1> QED BY <1>2, <1>4, <1>5, <1>6, <1>7

\* A request about to insert its row holds the lock, and its size fits.
Metered == /\ get_user_storage_used <= Quota
           /\ \A r \in Requests : reqs[r].op = "save" =>
                  lock = r /\ get_user_storage_used + reqs[r].size <= Quota

LEMMA MeteredInit ==
    ASSUME Init
    PROVE  Metered
<1>1. PICK s \in Scenarios : ScenarioSound(s) /\ StartsAs(s)
  BY InitFacts
<1>2. Shape
  BY ShapeInit
<1>3. \A f \in Live : row[f].size = 1 /\ \E e \in s.files : e.file = f
  BY <1>1 DEF StartsAs, Live, get_file, NoUserFile
<1>4. Total(row, Live) = Cardinality(Live)
  BY <1>2, <1>3, UsedIs, TotalCount
<1>5. Cardinality(Live) <= Quota
  <2> DEFINE g == [f \in Live |-> CHOOSE e \in s.files : e.file = f]
  <2>1. \A f \in Live : g[f] \in s.files /\ g[f].file = f
    BY <1>3
  <2> HIDE DEF g
  <2>2. IsFiniteSet(s.files) /\ Cardinality(s.files) <= Quota
    BY <1>1 DEF ScenarioSound
  <2>3. g \in Injection(Live, s.files)
    <3>1. g \in [Live -> s.files]
      BY <2>1 DEF g
    <3> QED BY <2>1, <3>1 DEF Injection, IsInjective
  <2>4. IsFiniteSet(Live) /\ Cardinality(Live) \in Nat /\ Cardinality(s.files) \in Nat
    BY <1>2, <2>2, UsedIs, FS_CardinalityType
  <2>5. Cardinality(Live) <= Cardinality(s.files)
    BY <2>2, <2>3, <2>4, FS_Injection DEF ExistsInjection
  <2> QED BY <2>2, <2>4, <2>5, LibraryAssumption
<1>6. \A r \in Requests : reqs[r].op # "save"
  BY InitIdle, IdleFacts
<1> QED BY <1>2, <1>4, <1>5, <1>6, UsedIs DEF Metered

\* Usage only grows by a request that holds the lock.
LEMMA UsageStep ==
    ASSUME Shape, Shape', [Next]_vars
    PROVE  \/ (get_user_storage_used)' <= get_user_storage_used
           \/ \E r \in Requests : /\ reqs[r].op = "save" /\ reqs'[r].op # "save" /\ Only(r)
                                  /\ (get_user_storage_used)' = get_user_storage_used + reqs[r].size
<1>0. row \in [Files -> UserFile]
  BY ShapeFacts
<1>1. ASSUME UNCHANGED row PROVE (get_user_storage_used)' <= get_user_storage_used
  BY <1>1, UsedNoMore
<1>2. ASSUME NEW r \in Requests, create_folder(r) \/ rename_folder(r) \/ move_folder(r)
      PROVE  (get_user_storage_used)' <= get_user_storage_used
  BY <1>1, <1>2 DEF create_folder, rename_folder, move_folder
<1>3. ASSUME NEW r \in Requests, move_file(r) PROVE (get_user_storage_used)' <= get_user_storage_used
  <2>1. \A f \in Files : row'[f].state = row[f].state /\ row'[f].size = row[f].size
    BY <1>0, <1>3 DEF move_file, UserFile
  <2> QED BY <2>1, UsedNoMore
<1>4. ASSUME NEW f \in Files, set_file_favorite(f)
      PROVE  (get_user_storage_used)' <= get_user_storage_used
  <2>1. \A g \in Files : row'[g].state = row[g].state /\ row'[g].size = row[g].size
    BY <1>0, <1>4 DEF set_file_favorite, UserFile
  <2> QED BY <2>1, UsedNoMore
<1>5. ASSUME NEW r \in Requests, delete_file_row(r) \/ batch_delete(r)
      PROVE  (get_user_storage_used)' <= get_user_storage_used
  <2>1. \A f \in Files : row'[f] = row[f] \/ row'[f] = GoneFile
    BY <1>0, <1>5, BatchArrives DEF delete_file_row
  <2> QED BY <2>1, UsedNoMore, GoneFacts
<1>6. ASSUME NEW r \in Requests, DropFolders(r) PROVE (get_user_storage_used)' <= get_user_storage_used
  <2>1. \A f \in Files : \/ row'[f] = GoneFile
                         \/ row'[f].state = row[f].state /\ row'[f].size = row[f].size
    BY <1>6, DropFacts
  <2> QED BY <2>1, UsedNoMore, GoneFacts
<1>7. ASSUME NEW r \in Requests, save_file(r), row' # row
      PROVE  /\ reqs[r].op = "save" /\ reqs'[r].op # "save" /\ Only(r)
             /\ (get_user_storage_used)' = get_user_storage_used + reqs[r].size
  <2>1. PICK f \in Files : /\ row[f].state = "unused"
                           /\ row' = [row EXCEPT ![f] =
                                [state |-> "live", key |-> reqs[r].key, folder |-> reqs[r].loaded.folder,
                                 size |-> reqs[r].size, favorite |-> FALSE]]
    BY <1>7 DEF save_file
  <2>2. /\ row'[f].state = "live" /\ row'[f].size = reqs[r].size
        /\ \A g \in Files \ {f} : row'[g] = row[g]
    BY <1>0, <2>1
  <2>3. (get_user_storage_used)' = get_user_storage_used + reqs[r].size
    BY <2>1, <2>2, UsedMore
  <2>4. reqs[r].op = "save" /\ reqs'[r].op # "save" /\ Only(r)
    <3>1. reqs[r] \in Request /\ Idle.op = "idle"
      BY ShapeFacts, IdleFacts
    <3> QED BY <1>7, <3>1, SaveRequest DEF Request
  <2> QED BY <2>3, <2>4
<1> QED BY <1>1, <1>2, <1>3, <1>4, <1>5, <1>6, <1>7, RowChanges

LEMMA MeteredStep ==
    ASSUME Shape, Shape', Metered, [Next]_vars
    PROVE  Metered'
<1>1. /\ get_user_storage_used \in Nat /\ (get_user_storage_used)' \in Nat /\ Quota \in Nat
      /\ \A r \in Requests : reqs[r].size \in Nat /\ reqs'[r].size \in Nat
  <2>1. get_user_storage_used \in Nat /\ (get_user_storage_used)' \in Nat
    BY UsedIs, UsedNext
  <2>2. \A r \in Requests : reqs[r].size \in Nat
    BY ShapeFacts, UploadAssumption DEF Request
  <2>3. \A r \in Requests : reqs'[r].size \in Nat
    BY UploadAssumption DEF Shape, TypeOKJobs, TypeOKLibrary
  <2> QED BY <2>1, <2>2, <2>3, LibraryAssumption
<1>2. (get_user_storage_used)' <= Quota
  BY <1>1, UsageStep DEF Metered
<1>3. ASSUME NEW r \in Requests, reqs'[r].op = "save"
      PROVE  lock' = r /\ (get_user_storage_used)' + reqs'[r].size <= Quota
  <2>1. CASE lock_and_check(r)
    <3>1. /\ lock' = r /\ UNCHANGED row
          /\ evaluate_storage_quota(get_user_storage_used, reqs[r].size)
          /\ reqs'[r].size = reqs[r].size
      <4>1. reqs[r] \in Request
        BY ShapeFacts
      <4> QED BY <1>3, <2>1, <4>1, LockRequest DEF lock_and_check, NoRows, Request
    <3>2. (get_user_storage_used)' <= get_user_storage_used
      BY <3>1, UsedNoMore
    <3>3. reqs[r].size <= Quota - get_user_storage_used
      <4> DEFINE n == Quota - get_user_storage_used
      <4>1. n \in Nat
        BY <1>1 DEF Metered
      <4>2. Max({0, n}) = n
        <5>1. n \in {0, n} /\ \A y \in {0, n} : n >= y
          BY <4>1
        <5>2. ASSUME NEW x \in {0, n}, \A y \in {0, n} : x >= y PROVE x = n
          BY <4>1, <5>2
        <5> HIDE DEF n
        <5> QED BY <5>1, <5>2 DEF Max
      <4> QED BY <3>1, <4>2 DEF evaluate_storage_quota
    <3> QED BY <1>1, <3>1, <3>2, <3>3
  <2>2. CASE reqs'[r] = reqs[r]
    <3>1. lock = r /\ get_user_storage_used + reqs[r].size <= Quota
      BY <1>3, <2>2 DEF Metered
    <3>2. lock' = r
      <4>1. \A q \in Requests : lock_and_check(q) => lock = NoRequest
        BY DEF lock_and_check
      <4>2. ASSUME NEW q \in Requests, Released(q),
                   save_file(q) \/ RemoveFails(q) \/ RemoveDone(q) \/ RequestDies(q), q = r
            PROVE  FALSE
        <5>1. reqs[r].op = "save" /\ Idle.op = "idle" /\ reqs[r] \in Request
          BY <1>3, <2>2, IdleFacts, ShapeFacts
        <5>2. CASE save_file(r)
          BY <1>3, <5>1, <5>2, SaveRequest DEF Request
        <5>3. CASE RemoveFails(r) \/ RemoveDone(r)
          BY <5>1, <5>3 DEF RemoveFails, RemoveDone
        <5>4. CASE RequestDies(r)
          BY <1>3, <5>1, <5>4, LastStep
        <5> QED BY <4>2, <5>2, <5>3, <5>4
      <4> QED BY <3>1, <4>1, <4>2, LockChanges, LibraryAssumption DEF Released
    <3>3. CASE (get_user_storage_used)' <= get_user_storage_used
      BY <1>1, <2>2, <3>1, <3>2, <3>3
    <3>4. ASSUME NEW q \in Requests, reqs[q].op = "save", reqs'[q].op # "save" PROVE FALSE
      BY <1>3, <3>1, <3>4 DEF Metered
    <3> QED BY <3>3, <3>4, UsageStep
  <2> QED BY <1>3, <2>1, <2>2, SaveArrives
<1> QED BY <1>2, <1>3 DEF Metered

\* The rows of an account never add up to more than its plan's storage quota:
\* the usage is summed under the lock on the user's row, and no other request
\* adds a row before it is released (complete_upload, lock_user_for_update),
\* whatever requests overlap.
THEOREM QuotaHeldTheorem == Spec => []QuotaHeld
<1>1. Init => Shape /\ Metered
  BY ShapeInit, MeteredInit
<1>2. Shape /\ Metered /\ [Next]_vars => Shape' /\ Metered'
  BY ShapeStep, MeteredStep
<1>3. Metered => QuotaHeld
  BY DEF Metered, QuotaHeld
<1> QED BY <1>1, <1>2, <1>3, PTL DEF Spec

------------------------------------------------------------------------------
(* How a request goes on *)

Kept(r) == /\ reqs'[r].key = reqs[r].key /\ reqs'[r].loaded = reqs[r].loaded
           /\ reqs'[r].job = reqs[r].job /\ reqs'[r].file = reqs[r].file

Goes(r, from, to) == reqs[r].op = from /\ reqs'[r].op = to

\* A request that has just arrived and concerns no single upload.
Fresh(r) == /\ reqs[r] = Idle
            /\ reqs'[r].key = NoKey /\ reqs'[r].job = NoJob /\ reqs'[r].loaded = NoSession
            /\ \/ reqs'[r].op \in {"move_file", "create", "rename", "move", "collect"} /\ reqs'[r].keys = {}
               \/ reqs'[r].op = "gather" /\ batch_delete(r)

Verifies(r, k, j) == /\ Verify(r, k) /\ verify_upload_session(r, k, j)
                     /\ IF session[k].owner = "guest"
                        THEN /\ j \in Jobs /\ require_guest_token(j) /\ job[j].key \in {NoKey, k}
                             /\ \A q \in Requests : reqs[q].job = j => reqs[q].key = k
                        ELSE j \in Jobs => job[j].state # "none" /\ ~job[j].guest

Onward(r) ==
    \/ Goes(r, "complete", "exists") /\ CompleteParts(r)
    \/ Goes(r, "exists", "owner") /\ CheckObject(r) /\ object_exists(reqs[r].key)
    \/ Goes(r, "owner", "measure") /\ CheckOwner(r)
    \/ Goes(r, "measure", "find") /\ measure_upload(r)
    \/ Goes(r, "measure", "remove") /\ measure_upload(r) /\ reqs'[r].keys = {reqs[r].key}
    \/ Goes(r, "find", "lock") /\ find_existing(r) /\ find_by_key(reqs[r].key) = {}
    \/ Goes(r, "find", "job") /\ find_existing(r) /\ find_by_key(reqs[r].key) # {}
    \/ Goes(r, "lock", "save") /\ lock_and_check(r)
    \/ Goes(r, "lock", "remove") /\ lock_and_check(r) /\ reqs'[r].keys = {reqs[r].key}
    \/ Goes(r, "save", "job") /\ save_file(r)
    \/ Goes(r, "unlink", "unlink_row") /\ delete_file_object(r)
    \/ Goes(r, "drop", "remove") /\ DropFolders(r) /\ reqs'[r].keys = reqs[r].keys
    \/ Goes(r, "collect", "drop")
    \/ /\ reqs[r].op \in RemoveOps
       /\ \/ reqs[r].keys = {} /\ reqs'[r].keys = {} /\ reqs'[r].op \in {"collect", "remove"}
          \/ RemoveOne(r) /\ reqs'[r].op = reqs[r].op
             /\ \E k \in reqs[r].keys : reqs'[r].keys = reqs[r].keys \ {k} /\ object' = remove_object(k)
          \/ RemoveFails(r) /\ reqs'[r].op = reqs[r].op
             /\ \E k \in reqs[r].keys : reqs'[r].keys = reqs[r].keys \ {k} /\ leaked' = leaked \cup {k}

\* The steps at which a request ends.
Ends(r) ==
    /\ reqs'[r] = Idle
    /\ \/ Serve(r) /\ reqs[r].op \in {"complete", "exists", "move_file", "create", "rename", "move"}
       \/ find_existing(r) /\ find_by_key(reqs[r].key) # {} /\ reqs[r].op = "find"
       \/ save_file(r) /\ reqs[r].op = "save"
       \/ RemoveDone(r) /\ reqs[r].op \in RemoveOps /\ reqs[r].keys = {}
       \/ RemoveFails(r) /\ reqs[r].op \in RemoveOps /\ leaked' = leaked \cup reqs[r].keys
       \/ delete_file_row(r) /\ reqs[r].op = "unlink_row"
       \/ RequestDies(r)
       \/ PointJob(r) /\ reqs[r].op = "job"
       \/ verify_guest_upload(r) /\ reqs[r].op = "owner"

Progress(r) ==
    \/ reqs'[r] = reqs[r]
    \/ Ends(r)
    \/ \E k \in Keys, j \in Jobs \cup {NoJob} : Verifies(r, k, j)
    \/ \E f \in Files : delete_file_request(r, f)
    \/ Fresh(r)
    \/ Kept(r) /\ Onward(r)

LEMMA Edited ==
    ASSUME Shape, NEW r \in Requests, NEW op, NEW ks, NEW n, reqs'[r] = [reqs[r] EXCEPT !.op = op]
    PROVE  Kept(r) /\ reqs'[r].op = op /\ reqs'[r].keys = reqs[r].keys
BY ShapeFacts DEF Request, Kept

LEMMA EditedKeys ==
    ASSUME Shape, NEW r \in Requests, NEW op, NEW ks, NEW n, reqs'[r] = [reqs[r] EXCEPT !.op = op, !.keys = ks]
    PROVE  Kept(r) /\ reqs'[r].op = op /\ reqs'[r].keys = ks
BY ShapeFacts DEF Request, Kept

LEMMA EditedSize ==
    ASSUME Shape, NEW r \in Requests, NEW op, NEW ks, NEW n, reqs'[r] = [reqs[r] EXCEPT !.op = op, !.size = n]
    PROVE  Kept(r) /\ reqs'[r].op = op /\ reqs'[r].keys = reqs[r].keys
BY ShapeFacts DEF Request, Kept

LEMMA EditedRest ==
    ASSUME Shape, NEW r \in Requests, NEW op, NEW ks, NEW n, reqs'[r] = [reqs[r] EXCEPT !.keys = ks, !.todo = {}]
    PROVE  Kept(r) /\ reqs'[r].op = reqs[r].op /\ reqs'[r].keys = ks
BY ShapeFacts DEF Request, Kept

LEMMA VerifyProgress ==
    ASSUME Shape, NEW r \in Requests, NEW k \in Keys, Verify(r, k)
    PROVE  \E j \in Jobs \cup {NoJob} : Verifies(r, k, j)
<1>1. session[k].owner \in {"user", "guest"}
  BY ShapeFacts DEF UploadSession
<1>2. CASE session[k].owner = "user"
  <2>1. PICK j \in {i \in Jobs : job[i].state # "none" /\ ~job[i].guest} \cup {NoJob} :
            verify_upload_session(r, k, j)
    BY <1>2 DEF Verify
  <2> QED BY <1>2, <2>1, LibraryAssumption DEF Verifies
<1>3. CASE session[k].owner = "guest"
  <2>1. PICK j \in Jobs : /\ require_guest_token(j) /\ job[j].key \in {NoKey, k}
                          /\ \A q \in Requests : reqs[q].job = j => reqs[q].key = k
                          /\ verify_upload_session(r, k, j)
    BY <1>3 DEF Verify
  <2> QED BY <1>3, <2>1 DEF Verifies
<1> QED BY <1>1, <1>2, <1>3

LEMMA ArriveProgress ==
    ASSUME Shape, NEW r \in Requests, Arrive(r)
    PROVE  Fresh(r) \/ \E f \in Files : delete_file_request(r, f)
BY MoveFileArrives, BatchArrives, CreateFolderArrives, RenameFolderArrives, MoveFolderArrives,
   DeleteFolderArrives DEF Arrive, ArriveFiles, ArriveFolders, Fresh

LEMMA ServeProgress ==
    ASSUME Shape, NEW r \in Requests, Serve(r)
    PROVE  Ends(r) \/ (Kept(r) /\ Onward(r))
<1>1. reqs[r] \in Request
  BY ShapeFacts
<1>2. CASE CompleteParts(r)
  BY <1>1, <1>2, CompletePartsRequest DEF Request, Ends, Kept, Onward, Goes
<1>3. CASE CheckObject(r)
  BY <1>1, <1>3, CheckObjectRequest DEF Request, Ends, Kept, Onward, Goes
<1>4. CASE CheckOwner(r)
  BY <1>1, <1>4, CheckOwnerRequest DEF Request, Kept, Onward, Goes
<1>5. CASE measure_upload(r)
  <2>1. CASE reqs'[r] = [reqs[r] EXCEPT !.op = "remove", !.keys = {reqs[r].key}]
    <3>1. Kept(r) /\ reqs'[r].op = "remove" /\ reqs'[r].keys = {reqs[r].key}
      BY <2>1, EditedKeys
    <3> QED BY <1>5, <3>1, MeasureRequest DEF Onward, Goes
  <2>2. CASE reqs'[r] = [reqs[r] EXCEPT !.op = "find", !.size = stat_object(reqs[r].key)]
    <3>1. Kept(r) /\ reqs'[r].op = "find"
      BY <2>2, EditedSize
    <3> QED BY <1>5, <3>1, MeasureRequest DEF Onward, Goes
  <2> QED BY <1>5, <2>1, <2>2, MeasureRequest
<1>6. CASE find_existing(r)
  <2>1. CASE reqs'[r] = [reqs[r] EXCEPT !.op = "lock"] /\ find_by_key(reqs[r].key) = {}
    BY <1>6, <2>1, FindRequest, Edited DEF Onward, Goes
  <2>2. CASE reqs'[r] = [reqs[r] EXCEPT !.op = "job"] /\ find_by_key(reqs[r].key) # {}
    BY <1>6, <2>2, FindRequest, Edited DEF Onward, Goes
  <2>3. CASE reqs'[r] = Idle /\ find_by_key(reqs[r].key) # {}
    BY <1>6, <2>3, FindRequest DEF Ends
  <2> QED BY <1>6, <2>1, <2>2, <2>3, FindRequest
<1>7. CASE lock_and_check(r)
  <2>1. CASE reqs'[r] = [reqs[r] EXCEPT !.op = "save"]
    BY <1>7, <2>1, LockRequest, Edited DEF Onward, Goes
  <2>2. CASE reqs'[r] = [reqs[r] EXCEPT !.op = "remove", !.keys = {reqs[r].key}]
    <3>1. Kept(r) /\ reqs'[r].op = "remove" /\ reqs'[r].keys = {reqs[r].key}
      BY <2>2, EditedKeys
    <3> QED BY <1>7, <3>1, LockRequest DEF Onward, Goes
  <2> QED BY <1>7, <2>1, <2>2, LockRequest
<1>8. CASE save_file(r)
  <2>1. CASE reqs'[r] = [reqs[r] EXCEPT !.op = "job"]
    BY <1>8, <2>1, SaveRequest, Edited DEF Onward, Goes
  <2>2. CASE reqs'[r] = Idle
    BY <1>8, <2>2, SaveRequest DEF Ends
  <2> QED BY <1>8, <2>1, <2>2, SaveRequest
<1>9. CASE RemoveOne(r)
  <2>1. PICK k \in reqs[r].keys :
           /\ reqs[r].op \in RemoveOps /\ reqs' = [reqs EXCEPT ![r].keys = @ \ {k}]
           /\ object' = remove_object(k)
    BY <1>9 DEF RemoveOne
  <2>2. reqs'[r] = [reqs[r] EXCEPT !.keys = reqs[r].keys \ {k}]
    BY <2>1, RemoveOneRequest
  <2> QED BY <1>1, <1>9, <2>1, <2>2 DEF Request, Kept, Onward
<1>10. CASE RemoveDone(r)
  BY <1>10, RemoveDoneRequest DEF Kept, Onward, Ends
<1>11. CASE delete_file_object(r)
  BY <1>1, <1>11, UnlinkRequest DEF Request, Kept, Onward, Goes
<1>12. CASE delete_with_descendants(r)
  BY <1>12, CollectRequest DEF Kept, Onward, Goes
<1>13. CASE DropFolders(r)
  BY <1>1, <1>13, DropRequest DEF Request, Kept, Onward, Goes
<1>14. CASE delete_file_row(r)
  BY <1>14, LastStep DEF Ends, delete_file_row
<1>15. CASE move_file(r) \/ create_folder(r) \/ rename_folder(r) \/ move_folder(r)
  BY <1>15, LastStep DEF Ends, move_file, create_folder, rename_folder, move_folder
<1> QED BY <1>2, <1>3, <1>4, <1>5, <1>6, <1>7, <1>8, <1>9, <1>10, <1>11, <1>12, <1>13, <1>14,
           <1>15 DEF Serve, ServeFiles

LEMMA FailProgress ==
    ASSUME Shape, NEW r \in Requests, ServeJob(r) \/ Fail(r)
    PROVE  Ends(r) \/ (Kept(r) /\ Onward(r))
<1>1. reqs[r] \in Request
  BY ShapeFacts
<1>2. CASE PointJob(r) \/ verify_guest_upload(r) \/ RequestDies(r)
  BY <1>2, LastStep DEF Ends, PointJob, verify_guest_upload
<1>3. CASE RemoveFails(r)
  <2>1. ASSUME NEW k \in reqs[r].keys, leaked' = leaked \cup {k},
               reqs'[r] = [reqs[r] EXCEPT !.keys = reqs[r].keys \ {k}, !.todo = {}]
        PROVE  Kept(r) /\ Onward(r)
    <3>1. Kept(r) /\ reqs'[r].op = reqs[r].op /\ reqs'[r].keys = reqs[r].keys \ {k}
      BY <2>1, EditedRest
    <3> QED BY <1>3, <2>1, <3>1, RemoveFailsRequest DEF Onward
  <2>2. CASE reqs'[r] = Idle /\ leaked' = leaked \cup reqs[r].keys
    BY <1>3, <2>2, RemoveFailsRequest DEF Ends
  <2> QED BY <1>3, <2>1, <2>2, RemoveFailsRequest
<1> QED BY <1>2, <1>3 DEF ServeJob, Fail

LEMMA ProgressStep ==
    ASSUME Shape, [Next]_vars, NEW r \in Requests
    PROVE  Progress(r)
<1>1. ASSUME NEW q \in Requests, q # r,
             \/ \E k \in Keys : Verify(q, k)
             \/ Arrive(q) \/ Serve(q) \/ ServeJob(q) \/ Fail(q)
      PROVE  reqs'[r] = reqs[r]
  <2>1. Only(q)
    BY <1>1, OthersStay
  <2> QED BY <1>1, <2>1 DEF Only
<1>2. ASSUME NEW k \in Keys, Verify(r, k) PROVE Progress(r)
  BY <1>2, VerifyProgress DEF Progress
<1>3. ASSUME \/ Arrive(r) \/ Serve(r) \/ ServeJob(r) \/ Fail(r) PROVE Progress(r)
  BY <1>3, ArriveProgress, ServeProgress, FailProgress DEF Progress
<1>4. ASSUME reqs'[r] = reqs[r] PROVE Progress(r)
  BY <1>4 DEF Progress
<1> QED BY <1>1, <1>2, <1>3, <1>4, RequestSteps

------------------------------------------------------------------------------
(* Sessions, objects and the verifications under way *)

\* The steps that change the store or a session.
StoreStep ==
    \/ UNCHANGED uploadVars
    \/ \E k \in Keys : Upload(k)
    \/ \E r \in Requests : CompleteParts(r) \/ CheckObject(r) \/ RemoveOne(r) \/ delete_file_object(r)
    \/ \E j \in Jobs : delete_objects(j)

LEMMA StoreChanges ==
    ASSUME [Next]_vars
    PROVE  StoreStep
<1>1. ASSUME UNCHANGED vars PROVE StoreStep
  BY <1>1 DEF vars, fileVars, StoreStep
<1>2. ASSUME NEW r \in Requests, NEW k \in Keys, Verify(r, k) PROVE StoreStep
  BY <1>2 DEF Verify, verify_upload_session, OnlyRequests, NoStore, StoreStep
<1>3. ASSUME NEW r \in Requests, Arrive(r) PROVE StoreStep
  BY <1>3 DEF Arrive, ArriveFiles, ArriveFolders, move_file_request, delete_file_request, batch_delete,
       create_folder_request, rename_folder_request, move_folder_request, delete_folder_request,
       OnlyRequests, NoStore, StoreStep
<1>4. ASSUME NEW r \in Requests, Serve(r) PROVE StoreStep
  BY <1>4 DEF Serve, ServeFiles, CheckOwner, measure_upload, find_existing, lock_and_check, save_file,
       RemoveDone, move_file, delete_file_row, create_folder, rename_folder, move_folder,
       delete_with_descendants, DropFolders, OnlyRequests, NoStore, StoreStep
<1>5. ASSUME NEW r \in Requests, ServeJob(r) \/ Fail(r) PROVE StoreStep
  BY <1>5 DEF ServeJob, Fail, PointJob, verify_guest_upload, RemoveFails, RequestDies, NoStore, StoreStep
<1>6. ASSUME NEW f \in Files, Favorite(f) PROVE StoreStep
  BY <1>6 DEF Favorite, set_file_favorite, NoStore, StoreStep
<1>7. ASSUME JobRequest \/ JobStep PROVE StoreStep
  BY <1>7 DEF JobRequest, JobStep, ConvertFiles, create_conversion_job, guest_conversion_job,
       KeepWorkflow, retry_conversion_job, delete_history_job, RunJob, GuestTokenExpires,
       NoFiles, fileVars, StoreStep
<1>8. ASSUME Sweep PROVE StoreStep
  BY <1>8 DEF Sweep, cleanup_guest_jobs, archive_old_jobs, Select, delete_objects_fails, SweepCommits,
       SweepDies, NoFiles, NoStore, fileVars, StoreStep
<1>9. ASSUME NEW k \in Keys, Upload(k) PROVE StoreStep
  BY <1>9 DEF StoreStep
<1> QED BY <1>1, <1>2, <1>3, <1>4, <1>5, <1>6, <1>7, <1>8, <1>9 DEF Next

\* What a session and its parts say of each other and of the object.
SessionSound(k) ==
    /\ session[k].live \/ session[k].completed => session[k].created
    /\ ~session[k].created => object[k] = 0
    /\ parts[k].state \in {"open", "sent"} =>
          session[k].created /\ session[k].multipart /\ ~session[k].completed /\ object[k] = 0

\* The copy a verification loaded agrees with the session.
SameSession(q) ==
    /\ q.op \in VerifyOps => /\ session[q.key].created /\ q.loaded.created
                             /\ session[q.key].owner = q.loaded.owner
                             /\ session[q.key].multipart = q.loaded.multipart
    /\ q.op \in SeenOps \cup {"job", "unlink", "unlink_row"} => session[q.key].completed

Sessions == /\ \A k \in Keys : SessionSound(k)
            /\ \A r \in Requests : SameSession(reqs[r])
            /\ \A f \in Files : get_file(f) => session[row[f].key].completed

\* What happens to the session of k: once created it keeps its owner and its
\* form, and once completed it stays so.
SessionKept(k) ==
    /\ session[k].created => /\ session'[k].created /\ session'[k].owner = session[k].owner
                             /\ session'[k].multipart = session[k].multipart
    /\ session[k].completed => session'[k].completed

\* What a client's step does to its upload.
Uploaded(k) ==
    \/ /\ ~session[k].created /\ session'[k].created /\ ~session'[k].completed /\ object'[k] = object[k]
       /\ parts'[k] = parts[k] \/ (parts'[k].state = "open" /\ session'[k].multipart)
    \/ /\ session[k].live /\ session'[k] = [session[k] EXCEPT !.live = FALSE] /\ object'[k] = object[k]
       /\ parts'[k] = parts[k] \/ parts'[k].state = "aborted"
    \/ /\ session'[k] = session[k] /\ parts'[k] = parts[k]
       /\ session[k].live /\ ~session[k].multipart /\ ~session[k].completed
    \/ /\ session'[k] = session[k] /\ object'[k] = object[k]
       /\ parts[k].state = "open" /\ parts'[k].state = "sent"

LEMMA UploadFacts ==
    ASSUME Shape, NEW k \in Keys, Upload(k)
    PROVE  /\ \A i \in Keys \ {k} : /\ object'[i] = object[i] /\ parts'[i] = parts[i]
                                    /\ session'[i] = session[i]
           /\ Uploaded(k)
           /\ UNCHANGED <<libraryVars, jobVars>>
<1>1. /\ object \in [Keys -> 0..MaxSize]
      /\ parts \in [Keys -> [state : {"none", "open", "sent", "assembled", "aborted"}, size : 0..MaxSize]]
      /\ session \in [Keys -> UploadSession]
  BY DEF Shape, TypeOKJobs, TypeOKLibrary, TypeOKUploads
<1>2. UNCHANGED <<libraryVars, jobVars>>
  BY DEF Upload, create_upload_session, guest_upload_session, discard_upload_session
<1>3. ASSUME NEW owner, NEW d, NEW n, create_upload(k, owner, d, n)
      PROVE  /\ \A i \in Keys \ {k} : /\ object'[i] = object[i] /\ parts'[i] = parts[i]
                                      /\ session'[i] = session[i]
             /\ Uploaded(k)
  BY <1>1, <1>3 DEF create_upload, create_multipart_upload, Uploaded
<1>4. CASE discard_upload_session(k) \/ SessionExpires(k)
  <2>1. /\ session[k].live /\ session' = [session EXCEPT ![k].live = FALSE] /\ object' = object
        /\ parts' = parts \/ parts' = [parts EXCEPT ![k] = [state |-> "aborted", size |-> 0]]
    BY <1>4 DEF discard_upload_session, delete_upload_session, SessionExpires, get_upload_session,
         abort_multipart_upload
  <2>2. session'[k] = [session[k] EXCEPT !.live = FALSE] /\ \A i \in Keys \ {k} : session'[i] = session[i]
    BY <1>1, <2>1
  <2>3. \A i \in Keys \ {k} : parts'[i] = parts[i]
    BY <1>1, <2>1
  <2>4. parts'[k] = parts[k] \/ parts'[k].state = "aborted"
    BY <1>1, <2>1
  <2> QED BY <1>2, <2>1, <2>2, <2>3, <2>4 DEF Uploaded
<1>5. CASE ClientPut(k)
  BY <1>1, <1>2, <1>5 DEF ClientPut, Uploaded
<1>6. CASE ClientSendsParts(k)
  BY <1>1, <1>2, <1>6 DEF ClientSendsParts, Uploaded
<1> QED BY <1>2, <1>3, <1>4, <1>5, <1>6 DEF Upload, create_upload_session, guest_upload_session

LEMMA RemovedFacts ==
    ASSUME Shape, NEW i \in Keys \cup {NoKey}, object' = remove_object(i)
    PROVE  \A k \in Keys : object'[k] = IF k = i THEN 0 ELSE object[k]
BY ShapeFacts DEF remove_object

\* The steps that remove an object, and whose.
Removes(k) ==
    /\ object' = remove_object(k) /\ UNCHANGED <<parts, session>>
    /\ \/ \E r \in Requests : /\ RemoveOne(r) /\ k \in reqs[r].keys
                              /\ leaked' = IF \E q \in Requests : reqs[q].op \in SeenOps /\ reqs[q].key = k
                                           THEN leaked \cup {k} ELSE leaked
       \/ \E r \in Requests : delete_file_object(r) /\ k = reqs[r].key
       \/ \E j \in Jobs : delete_objects(j) /\ k = sweep.keys[j] /\ released' = released \cup {k}

LEMMA StoreCases ==
    ASSUME Shape, [Next]_vars
    PROVE  \/ UNCHANGED uploadVars
           \/ \E k \in Keys : Upload(k)
           \/ \E r \in Requests : CompleteParts(r) \/ CheckObject(r)
           \/ \E k \in Keys : Removes(k)
<1>1. ASSUME NEW r \in Requests, RemoveOne(r) PROVE \E k \in Keys : Removes(k)
  <2>1. PICK k \in reqs[r].keys :
           /\ object' = remove_object(k)
           /\ leaked' = IF \E q \in Requests : reqs[q].op \in SeenOps /\ reqs[q].key = k
                        THEN leaked \cup {k} ELSE leaked
    BY <1>1 DEF RemoveOne
  <2>2. k \in Keys
    BY ShapeFacts DEF Request
  <2>3. UNCHANGED <<parts, session>>
    BY <1>1 DEF RemoveOne
  <2> QED BY <1>1, <2>1, <2>2, <2>3 DEF Removes
<1>2. ASSUME NEW r \in Requests, delete_file_object(r) PROVE \E k \in Keys : Removes(k)
  BY <1>2, UnlinkRequest DEF delete_file_object, Removes
<1>3. ASSUME NEW j \in Jobs, delete_objects(j) PROVE UNCHANGED uploadVars \/ \E k \in Keys : Removes(k)
  <2>1. sweep.keys[j] \in Keys \cup {NoKey}
    BY DEF Shape, TypeOKJobs
  <2>2. CASE sweep.keys[j] = NoKey
    BY <1>3, <2>2 DEF delete_objects, uploadVars
  <2>3. CASE sweep.keys[j] \in Keys
    BY <1>3, <2>3, UploadAssumption DEF delete_objects, Removes
  <2> QED BY <2>1, <2>2, <2>3
<1> QED BY <1>1, <1>2, <1>3, StoreChanges DEF StoreStep

LEMMA CompletedFacts ==
    ASSUME Shape, NEW r \in Requests, CompleteParts(r)
    PROVE  /\ session' = session
           /\ \A k \in Keys : \/ object'[k] = object[k] /\ parts'[k] = parts[k]
                              \/ /\ k = reqs[r].key /\ parts[k].state = "sent"
                                 /\ parts'[k].state = "assembled"
<1>1. /\ object \in [Keys -> 0..MaxSize]
      /\ parts \in [Keys -> [state : {"none", "open", "sent", "assembled", "aborted"}, size : 0..MaxSize]]
  BY DEF Shape, TypeOKJobs, TypeOKLibrary, TypeOKUploads
<1> QED BY <1>1 DEF CompleteParts, CanComplete, complete_multipart_upload

LEMMA CheckedFacts ==
    ASSUME Shape, NEW r \in Requests, CheckObject(r)
    PROVE  /\ UNCHANGED <<object, parts>>
           /\ \A k \in Keys :
                 \/ session'[k] = session[k]
                 \/ /\ k = reqs[r].key /\ object[k] # 0 /\ reqs[r].op = "exists"
                    /\ session'[k].created = reqs[r].loaded.created
                    /\ session'[k].owner = reqs[r].loaded.owner
                    /\ session'[k].multipart = reqs[r].loaded.multipart
                    /\ session'[k].completed
<1>1. reqs[r].loaded \in UploadSession /\ session \in [Keys -> UploadSession]
  BY ShapeFacts DEF Request
<1>2. reqs[r].op = "exists" /\ UNCHANGED <<object, parts>>
  BY DEF CheckObject
<1>3. CASE object_exists(reqs[r].key)
  <2> DEFINE s == [reqs[r].loaded EXCEPT !.live = TRUE, !.completed = TRUE, !.upload = FALSE]
  <2>1. /\ s.created = reqs[r].loaded.created /\ s.owner = reqs[r].loaded.owner
        /\ s.multipart = reqs[r].loaded.multipart /\ s.completed
    BY <1>1 DEF UploadSession
  <2>2. session' = [session EXCEPT ![reqs[r].key] = s]
    BY <1>3 DEF CheckObject, SaveVerified
  <2> HIDE DEF s
  <2> QED BY <1>1, <1>2, <1>3, <2>1, <2>2 DEF object_exists
<1>4. CASE ~object_exists(reqs[r].key)
  BY <1>2, <1>4 DEF CheckObject
<1> QED BY <1>3, <1>4

LEMMA SessionStep ==
    ASSUME Shape, Sessions, [Next]_vars, NEW k \in Keys
    PROVE  SessionKept(k) /\ SessionSound(k)'
<1>1. SessionSound(k) /\ session[k] \in UploadSession /\ object[k] \in 0..MaxSize
  BY ShapeFacts DEF Sessions
<1>2. CASE UNCHANGED uploadVars
  BY <1>1, <1>2 DEF uploadVars, SessionSound, SessionKept
<1>3. ASSUME NEW i \in Keys, Upload(i) PROVE SessionKept(k) /\ SessionSound(k)'
  <2>1. CASE i # k
    BY <1>1, <1>3, <2>1, UploadFacts DEF SessionSound, SessionKept
  <2>2. CASE i = k
    <3>1. Uploaded(k)
      BY <1>3, <2>2, UploadFacts
    <3> QED BY <1>1, <3>1 DEF Uploaded, SessionSound, SessionKept, UploadSession
  <2> QED BY <2>1, <2>2
<1>4. ASSUME NEW r \in Requests, CompleteParts(r) PROVE SessionKept(k) /\ SessionSound(k)'
  BY <1>1, <1>4, CompletedFacts DEF SessionSound, SessionKept
<1>5. ASSUME NEW r \in Requests, CheckObject(r) PROVE SessionKept(k) /\ SessionSound(k)'
  <2>1. SameSession(reqs[r])
    BY DEF Sessions
  <2> QED BY <1>1, <1>5, <2>1, CheckedFacts DEF SessionSound, SessionKept, SameSession
<1>6. ASSUME NEW i \in Keys, Removes(i) PROVE SessionKept(k) /\ SessionSound(k)'
  <2>1. object'[k] \in {0, object[k]} /\ UNCHANGED <<parts, session>>
    BY <1>6, RemovedFacts DEF Removes
  <2> QED BY <1>1, <2>1 DEF SessionSound, SessionKept
<1> QED BY <1>2, <1>3, <1>4, <1>5, <1>6, StoreCases

\* What may happen to the row of f: nothing that matters here, an insert, or
\* a deletion by a request that takes over its key.
RowStays(f) == row'[f].state = row[f].state /\ row'[f].key = row[f].key

Saved(r, f) == /\ save_file(r) /\ reqs[r].op = "save" /\ row[f].state = "unused"
               /\ row'[f].state = "live" /\ row'[f].key = reqs[r].key
               /\ \A g \in Files \ {f} : row'[g] = row[g]

Deleted(r, f) ==
    /\ row'[f].state = "gone" /\ row'[f].key = NoKey
    /\ \/ delete_file_row(r) /\ reqs[r].op = "unlink_row" /\ reqs[r].file = f
       \/ /\ get_file(f) /\ batch_delete(r) /\ reqs'[r].op = "gather"
          /\ row[f].key \in reqs'[r].keys
       \/ /\ get_file(f) /\ DropFolders(r) /\ reqs'[r].op = "remove"
          /\ row[f].key \in reqs'[r].keys \cup leaked'

\* What dropping folders does to the rows.
Dropped(r) == IF reqs[r].keys = {} THEN {} ELSE FilesIn(reqs[r].ids)

LEMMA DropRows ==
    ASSUME Shape, NEW r \in Requests, DropFolders(r)
    PROVE  /\ \A f \in Files :
                 IF f \in Dropped(r) THEN row'[f] = GoneFile
                 ELSE row'[f].state = row[f].state /\ row'[f].key = row[f].key
           /\ leaked' = leaked \cup SymDiff({row[f].key : f \in Dropped(r)}, reqs[r].keys)
           /\ Dropped(r) \subseteq {f \in Files : get_file(f)}
<1>1. \A f \in Files :
         IF f \in Dropped(r) THEN row'[f] = GoneFile
         ELSE row'[f].state = row[f].state /\ row'[f].key = row[f].key
  BY DropFacts, Zenon DEF Dropped
<1>2. leaked' = leaked \cup SymDiff({row[f].key : f \in Dropped(r)}, reqs[r].keys)
  BY Zenon DEF DropFolders, Dropped
<1>3. Dropped(r) \subseteq {f \in Files : get_file(f)}
  BY DEF Dropped, FilesIn
<1> QED BY <1>1, <1>2, <1>3

LEMMA RowCases ==
    ASSUME Shape, [Next]_vars, NEW f \in Files
    PROVE  RowStays(f) \/ \E r \in Requests : Saved(r, f) \/ Deleted(r, f)
<1>1. row \in [Files -> UserFile] /\ row[f] \in UserFile
  BY ShapeFacts
<1>2. CASE UNCHANGED <<folder, row>>
  BY <1>2 DEF RowStays
<1>3. ASSUME NEW g \in Files, set_file_favorite(g) PROVE RowStays(f)
  BY <1>1, <1>3 DEF set_file_favorite, RowStays, UserFile
<1>4. ASSUME NEW r \in Requests, create_folder(r) \/ rename_folder(r) \/ move_folder(r) PROVE RowStays(f)
  BY <1>4 DEF create_folder, rename_folder, move_folder, RowStays
<1>5. ASSUME NEW r \in Requests, move_file(r) PROVE RowStays(f)
  BY <1>1, <1>5 DEF move_file, RowStays, UserFile
<1>6. ASSUME NEW r \in Requests, save_file(r) PROVE RowStays(f) \/ Saved(r, f)
  <2>1. reqs[r].op = "save"
    BY <1>6 DEF save_file
  <2>2. CASE FolderThere(reqs[r].loaded.folder)
    <3>1. PICK g \in Files :
             /\ row[g].state = "unused"
             /\ row' = [row EXCEPT ![g] =
                   [state |-> "live", key |-> reqs[r].key, folder |-> reqs[r].loaded.folder,
                    size |-> reqs[r].size, favorite |-> FALSE]]
      BY <1>6, <2>2 DEF save_file
    <3>2. CASE g = f
      BY <1>1, <1>6, <2>1, <3>1, <3>2 DEF Saved
    <3>3. CASE g # f
      BY <1>1, <3>1, <3>3 DEF RowStays
    <3> QED BY <3>2, <3>3
  <2>3. CASE ~FolderThere(reqs[r].loaded.folder)
    BY <1>6, <2>3 DEF save_file, RowStays
  <2> QED BY <2>2, <2>3
<1>7. ASSUME NEW r \in Requests, delete_file_row(r) PROVE RowStays(f) \/ Deleted(r, f)
  BY <1>1, <1>7, GoneFacts DEF delete_file_row, RowStays, Deleted
<1>8. ASSUME NEW r \in Requests, batch_delete(r) PROVE RowStays(f) \/ Deleted(r, f)
  <2>1. reqs'[r].op = "gather"
    BY <1>8, BatchArrives
  <2>2. PICK found \in SUBSET {g \in Files : get_file(g)} :
           /\ row' = [g \in Files |-> IF g \in found THEN GoneFile ELSE row[g]]
           /\ reqs'[r].keys = {row[g].key : g \in found}
    BY <1>8, BatchArrives
  <2>3. CASE f \in found
    <3>1. get_file(f) /\ row'[f] = GoneFile /\ row[f].key \in reqs'[r].keys
      BY <2>2, <2>3
    <3> QED BY <1>8, <2>1, <3>1, GoneFacts DEF Deleted
  <2>4. CASE f \notin found
    BY <2>2, <2>4 DEF RowStays
  <2> QED BY <2>3, <2>4
<1>9. ASSUME NEW r \in Requests, DropFolders(r) PROVE RowStays(f) \/ Deleted(r, f)
  <2> DEFINE files == Dropped(r)
  <2>1. IF f \in files THEN row'[f] = GoneFile
        ELSE row'[f].state = row[f].state /\ row'[f].key = row[f].key
    BY <1>9, DropRows
  <2>2. /\ reqs'[r].op = "remove" /\ reqs'[r].keys = reqs[r].keys
    BY <1>9, DropRequest, ShapeFacts DEF Request
  <2>3. leaked' = leaked \cup SymDiff({row[g].key : g \in files}, reqs[r].keys)
    BY <1>9, DropRows
  <2>4. f \in files => get_file(f)
    BY <1>9, DropRows
  <2> HIDE DEF files
  <2>5. CASE f \in files
    <3>1. row[f].key \in {row[g].key : g \in files}
      BY <2>5
    <3>2. row[f].key \in reqs'[r].keys \cup leaked'
      BY <2>2, <2>3, <3>1 DEF SymDiff
    <3> QED BY <1>9, <2>1, <2>2, <2>4, <2>5, <3>2, GoneFacts DEF Deleted
  <2>6. CASE f \notin files
    BY <2>1, <2>6 DEF RowStays
  <2> QED BY <2>5, <2>6
<1> QED BY <1>2, <1>3, <1>4, <1>5, <1>6, <1>7, <1>8, <1>9, RowChanges

LEMMA SameSessionStep ==
    ASSUME Shape, Sessions, [Next]_vars, NEW r \in Requests
    PROVE  SameSession(reqs[r])'
<1> DEFINE q == reqs'[r]
<1>1. SUFFICES
        /\ q.op \in VerifyOps => /\ session'[q.key].created /\ q.loaded.created
                                 /\ session'[q.key].owner = q.loaded.owner
                                 /\ session'[q.key].multipart = q.loaded.multipart
        /\ q.op \in SeenOps \cup {"job", "unlink", "unlink_row"} => session'[q.key].completed
  BY DEF SameSession
<1> HIDE DEF q
<1>2. RequestHas(reqs[r]) /\ SameSession(reqs[r]) /\ \A k \in Keys : SessionKept(k)
  BY ShapeFacts, SessionStep DEF Sessions
<1>3. CASE q = reqs[r]
  BY <1>2, <1>3 DEF RequestHas, SameSession, SessionKept
<1>4. CASE Ends(r)
  BY <1>4, IdleFacts DEF Ends, q
<1>5. ASSUME NEW k \in Keys, NEW j \in Jobs \cup {NoJob}, Verifies(r, k, j) PROVE <1>1!1
  <2>1. q.op \in {"complete", "exists"} /\ q.key = k /\ q.loaded = session[k]
    BY <1>5, VerifyRequest DEF Verifies, q
  <2>2. session[k].live /\ UNCHANGED session
    BY <1>5 DEF Verifies, verify_upload_session, get_upload_session, OnlyRequests, NoStore, uploadVars
  <2> QED BY <2>1, <2>2 DEF Sessions, SessionSound
<1>6. ASSUME NEW f \in Files, delete_file_request(r, f) PROVE <1>1!1
  <2>1. q.op = "unlink" /\ q.key = row[f].key /\ row[f].key \in Keys
    BY <1>6, DeleteFileArrives DEF q
  <2>2. session[row[f].key].completed
    BY <1>6 DEF delete_file_request, Sessions
  <2> QED BY <1>2, <2>1, <2>2 DEF SessionKept
<1>7. CASE Fresh(r)
  BY <1>7 DEF Fresh, q
<1>8. CASE Kept(r) /\ Onward(r)
  <2>1. /\ q.key = reqs[r].key /\ q.loaded = reqs[r].loaded
        /\ q.op \in VerifyOps => reqs[r].op \in VerifyOps
        /\ q.op \in SeenOps \cup {"job", "unlink", "unlink_row"} =>
               \/ reqs[r].op \in SeenOps \cup {"job", "unlink", "unlink_row"}
               \/ reqs[r].op = "exists" /\ CheckObject(r) /\ object_exists(reqs[r].key)
    BY <1>8 DEF Kept, Onward, Goes, q
  <2>2. q.op \in VerifyOps \cup {"unlink", "unlink_row"} => q.key \in Keys
    <3>1. Shape'
      BY ShapeStep
    <3>2. RequestHas(reqs'[r])
      BY <3>1 DEF Shape, RequestHas, Idle
    <3> QED BY <3>2 DEF q, RequestHas
  <2>3. ASSUME q.op \in SeenOps \cup {"job", "unlink", "unlink_row"} PROVE session'[q.key].completed
    <3>1. ASSUME CheckObject(r), object_exists(reqs[r].key) PROVE session'[q.key].completed
      <4>1. reqs[r].loaded \in UploadSession
        BY ShapeFacts DEF Request
      <4>2. session' = [session EXCEPT ![q.key] =
               [reqs[r].loaded EXCEPT !.live = TRUE, !.completed = TRUE, !.upload = FALSE]]
        BY <2>1, <3>1 DEF CheckObject, SaveVerified
      <4> QED BY <2>2, <2>3, <4>1, <4>2, ShapeFacts DEF UploadSession
    <3> QED BY <1>2, <2>1, <2>2, <2>3, <3>1 DEF SameSession, SessionKept
  <2>4. ASSUME q.op \in VerifyOps
        PROVE  /\ session'[q.key].created /\ q.loaded.created
               /\ session'[q.key].owner = q.loaded.owner
               /\ session'[q.key].multipart = q.loaded.multipart
    BY <1>2, <2>1, <2>2, <2>4 DEF SameSession, SessionKept
  <2> QED BY <2>3, <2>4
<1> QED BY <1>3, <1>4, <1>5, <1>6, <1>7, <1>8, ProgressStep DEF Progress, q

LEMMA SessionsStep ==
    ASSUME Shape, Sessions, [Next]_vars
    PROVE  Sessions'
<1>1. \A k \in Keys : SessionSound(k)'
  BY SessionStep
<1>2. \A r \in Requests : SameSession(reqs[r])'
  BY SameSessionStep
<1>3. ASSUME NEW f \in Files, get_file(f)' PROVE session'[row'[f].key].completed
  <2>1. \A k \in Keys : SessionKept(k)
    BY SessionStep
  <2>2. CASE RowStays(f)
    <3>1. get_file(f) /\ row[f].key \in Keys
      BY <1>3, <2>2 DEF RowStays, get_file, Shape
    <3> QED BY <2>1, <2>2, <3>1 DEF RowStays, Sessions, SessionKept
  <2>3. ASSUME NEW r \in Requests, Saved(r, f) PROVE session'[row'[f].key].completed
    <3>1. reqs[r].op = "save" /\ row'[f].key = reqs[r].key /\ reqs[r].key \in Keys
      BY <2>3, ShapeFacts DEF Saved, RequestHas
    <3> QED BY <2>1, <3>1 DEF Sessions, SameSession, SessionKept
  <2>4. ASSUME NEW r \in Requests, Deleted(r, f) PROVE FALSE
    BY <1>3, <2>4 DEF Deleted, get_file
  <2> QED BY <2>2, <2>3, <2>4, RowCases
<1> QED BY <1>1, <1>2, <1>3 DEF Sessions

LEMMA SessionsInit ==
    ASSUME Init
    PROVE  Sessions
<1>1. PICK s \in Scenarios : ScenarioSound(s) /\ StartsAs(s)
  BY InitFacts
<1>2. \A k \in Keys : SessionSound(k)
  BY <1>1 DEF StartsAs, SessionSound, NoParts
<1>3. \A r \in Requests : SameSession(reqs[r])
  BY InitIdle, IdleFacts DEF SameSession
<1>4. ASSUME NEW f \in Files, get_file(f) PROVE session[row[f].key].completed
  <2>1. PICK e \in s.files : e.file = f /\ row[f].key = e.key
    BY <1>1, <1>4 DEF StartsAs, get_file, NoUserFile
  <2>2. e.key \in Keys /\ Stored(s, e.key)
    BY <1>1, <2>1 DEF ScenarioSound, Stored
  <2> QED BY <1>1, <2>1, <2>2 DEF StartsAs
<1> QED BY <1>2, <1>3, <1>4 DEF Sessions

------------------------------------------------------------------------------
(* Nothing a user uploaded stays in the store unless something leads to it *)

\* Only a request that is idle arrives.
LEMMA Busy ==
    ASSUME Shape, [Next]_vars, NEW r \in Requests, reqs[r].op # "idle"
    PROVE  reqs'[r] = reqs[r] \/ Ends(r) \/ (Kept(r) /\ Onward(r))
<1>1. ASSUME NEW k \in Keys, NEW j \in Jobs \cup {NoJob}, Verifies(r, k, j) PROVE FALSE
  BY <1>1, VerifyRequest DEF Verifies
<1>2. ASSUME NEW f \in Files, delete_file_request(r, f) PROVE FALSE
  BY <1>2, DeleteFileArrives, IdleFacts
<1>3. CASE Fresh(r)
  BY <1>3, IdleFacts DEF Fresh
<1> QED BY <1>1, <1>2, <1>3, ProgressStep DEF Progress

\* What has leaked stays recorded.
LEMMA LeakedStays ==
    ASSUME [Next]_vars
    PROVE  leaked \subseteq leaked'
<1>1. ASSUME UNCHANGED vars PROVE leaked \subseteq leaked'
  BY <1>1 DEF vars, fileVars, libraryVars
<1>2. ASSUME NEW k \in Keys, Upload(k) PROVE leaked \subseteq leaked'
  BY <1>2 DEF Upload, create_upload_session, guest_upload_session, discard_upload_session, libraryVars
<1>3. ASSUME NEW r \in Requests, NEW k \in Keys, Verify(r, k) PROVE UNCHANGED leaked
  BY <1>3 DEF Verify, verify_upload_session, OnlyRequests, NoLeak
<1>4. ASSUME NEW r \in Requests, Arrive(r) PROVE UNCHANGED leaked
  BY <1>4 DEF Arrive, ArriveFiles, ArriveFolders, move_file_request, delete_file_request, batch_delete,
       create_folder_request, rename_folder_request, move_folder_request, delete_folder_request,
       OnlyRequests, NoLeak
<1>5. ASSUME NEW r \in Requests, Serve(r) PROVE leaked \subseteq leaked'
  <2>1. ASSUME NEW a, NEW b, leaked' = (IF a THEN leaked \cup b ELSE leaked) PROVE leaked \subseteq leaked'
    BY <2>1
  <2>2. CASE measure_upload(r)
    BY <2>1, <2>2 DEF measure_upload
  <2>3. CASE save_file(r)
    BY <2>1, <2>3 DEF save_file
  <2>4. CASE RemoveOne(r)
    BY <2>1, <2>4 DEF RemoveOne
  <2>5. CASE DropFolders(r)
    <3>1. \E b : leaked' = leaked \cup b
      BY <2>5, Zenon DEF DropFolders
    <3> QED BY <3>1
  <2>6. CASE \/ CompleteParts(r) \/ CheckObject(r) \/ CheckOwner(r) \/ find_existing(r) \/ lock_and_check(r)
             \/ RemoveDone(r) \/ move_file(r) \/ delete_file_object(r) \/ delete_file_row(r)
             \/ create_folder(r) \/ rename_folder(r) \/ move_folder(r) \/ delete_with_descendants(r)
    <3>1. UNCHANGED leaked
      BY <2>6 DEF CompleteParts, CheckObject, CheckOwner, find_existing, lock_and_check, RemoveDone,
           move_file, delete_file_object, delete_file_row, create_folder, rename_folder, move_folder,
           delete_with_descendants, OnlyRequests, NoLeak
    <3> QED BY <3>1
  <2> QED BY <1>5, <2>2, <2>3, <2>4, <2>5, <2>6 DEF Serve, ServeFiles
<1>6. ASSUME NEW r \in Requests, ServeJob(r) \/ Fail(r) PROVE leaked \subseteq leaked'
  BY <1>6 DEF ServeJob, Fail, PointJob, verify_guest_upload, RemoveFails, RequestDies, NoLeak
<1>7. ASSUME NEW f \in Files, Favorite(f) PROVE leaked \subseteq leaked'
  BY <1>7 DEF Favorite, set_file_favorite
<1>8. ASSUME JobRequest \/ JobStep PROVE leaked \subseteq leaked'
  BY <1>8 DEF JobRequest, JobStep, ConvertFiles, create_conversion_job, guest_conversion_job,
       KeepWorkflow, retry_conversion_job, delete_history_job, RunJob, GuestTokenExpires,
       NoFiles, fileVars, libraryVars
<1>9. ASSUME Sweep PROVE leaked \subseteq leaked'
  BY <1>9 DEF Sweep, cleanup_guest_jobs, archive_old_jobs, Select, delete_objects, delete_objects_fails,
       SweepCommits, SweepDies, NoFiles, fileVars, libraryVars
<1> QED BY <1>1, <1>2, <1>3, <1>4, <1>5, <1>6, <1>7, <1>8, <1>9 DEF Next

\* No object comes back once its upload is completed.
LEMMA ObjectStays ==
    ASSUME Shape, Sessions, [Next]_vars, NEW k \in Keys, session[k].completed
    PROVE  object'[k] \in {0, object[k]}
<1>1. SessionSound(k) /\ session[k] \in UploadSession
  BY ShapeFacts DEF Sessions
<1>2. ASSUME NEW i \in Keys, Upload(i) PROVE object'[k] = object[k]
  BY <1>1, <1>2, UploadFacts DEF Uploaded, SessionSound
<1>3. ASSUME NEW r \in Requests, CompleteParts(r) \/ CheckObject(r) PROVE object'[k] = object[k]
  BY <1>1, <1>3, CompletedFacts, CheckedFacts DEF SessionSound
<1>4. ASSUME NEW i \in Keys, Removes(i) PROVE object'[k] \in {0, object[k]}
  BY <1>4, RemovedFacts DEF Removes
<1> QED BY <1>2, <1>3, <1>4, StoreCases DEF uploadVars

\* What leads to the object of k: a row, a request that has seen it or will
\* remove it.
Removing(r, k) == reqs[r].op \in RemoveOps /\ k \in reqs[r].keys
Seeing(r, k) == reqs[r].op \in SeenOps /\ reqs[r].key = k

Covered(k) == \/ object[k] = 0 \/ find_by_key(k) # {} \/ k \in leaked
              \/ \E r \in Requests : Removing(r, k) \/ Seeing(r, k)

\* A file being deleted is one the request found.
FoundFirst(q) ==
    /\ q.op \in {"unlink", "unlink_row"} =>
          row[q.file].state # "unused" /\ (get_file(q.file) => row[q.file].key = q.key)
    /\ q.op = "unlink_row" => object[q.key] = 0

NoOrphan == /\ \A k \in Keys : session[k].owner = "user" /\ session[k].completed => Covered(k)
            /\ \A r \in Requests : FoundFirst(reqs[r])

LEMMA FoundFirstStep ==
    ASSUME Shape, Sessions, NoOrphan, [Next]_vars, NEW r \in Requests
    PROVE  FoundFirst(reqs[r])'
<1> DEFINE q == reqs'[r]
<1>1. SUFFICES
        /\ q.op \in {"unlink", "unlink_row"} =>
              row'[q.file].state # "unused" /\ (row'[q.file].state = "live" => row'[q.file].key = q.key)
        /\ q.op = "unlink_row" => object'[q.key] = 0
  BY DEF FoundFirst, get_file
<1> HIDE DEF q
<1>2. RequestHas(reqs[r]) /\ FoundFirst(reqs[r]) /\ SameSession(reqs[r])
  BY ShapeFacts DEF Sessions, NoOrphan
<1>3. ASSUME q.op \in {"unlink", "unlink_row"}, reqs[r].op \in {"unlink", "unlink_row"},
             q.key = reqs[r].key, q.file = reqs[r].file
      PROVE  /\ row'[q.file].state # "unused" /\ (row'[q.file].state = "live" => row'[q.file].key = q.key)
             /\ reqs[r].op = "unlink_row" => object'[q.key] = 0
  <2>1. /\ q.file \in Files /\ q.key \in Keys /\ row[q.file].state # "unused"
        /\ row[q.file].state = "live" => row[q.file].key = q.key
        /\ reqs[r].op = "unlink_row" => object[q.key] = 0
        /\ session[q.key].completed
    BY <1>2, <1>3 DEF RequestHas, FoundFirst, get_file, SameSession
  <2>2. object'[q.key] \in {0, object[q.key]}
    BY <2>1, ObjectStays
  <2> QED BY <2>1, <2>2, RowCases DEF RowStays, Saved, Deleted
<1>4. CASE q = reqs[r]
  BY <1>3, <1>4
<1>5. CASE Ends(r)
  BY <1>5, IdleFacts DEF Ends, q
<1>6. ASSUME NEW k \in Keys, NEW j \in Jobs \cup {NoJob}, Verifies(r, k, j) PROVE <1>1!1
  BY <1>6, VerifyRequest DEF Verifies, q
<1>7. ASSUME NEW f \in Files, delete_file_request(r, f) PROVE <1>1!1
  <2>1. q.op = "unlink" /\ q.key = row[f].key /\ q.file = f
    BY <1>7, DeleteFileArrives DEF q
  <2>2. get_file(f) /\ UNCHANGED row
    BY <1>7 DEF delete_file_request, OnlyRequests, NoRows
  <2> QED BY <2>1, <2>2 DEF get_file
<1>8. CASE Fresh(r)
  BY <1>8 DEF Fresh, q
<1>9. CASE Kept(r) /\ Onward(r)
  <2>1. /\ q.key = reqs[r].key /\ q.file = reqs[r].file
        /\ q.op \in {"unlink", "unlink_row"} =>
              reqs[r].op = "unlink" /\ q.op = "unlink_row" /\ delete_file_object(r)
    BY <1>9 DEF Kept, Onward, Goes, q
  <2>2. delete_file_object(r) => object'[q.key] = 0
    BY <2>1, UnlinkRequest, RemovedFacts DEF delete_file_object
  <2> QED BY <1>3, <2>1, <2>2
<1> QED BY <1>4, <1>5, <1>6, <1>7, <1>8, <1>9, ProgressStep DEF Progress, q

LEMMA CoveredNext ==
    ASSUME NEW k \in Keys,
           \/ object'[k] = 0 \/ k \in leaked'
           \/ \E f \in Files : row'[f].state = "live" /\ row'[f].key = k
           \/ \E r \in Requests : reqs'[r].op \in RemoveOps /\ k \in reqs'[r].keys
           \/ \E r \in Requests : reqs'[r].op \in SeenOps /\ reqs'[r].key = k
    PROVE  Covered(k)'
BY DEF Covered, find_by_key, get_file, Removing, Seeing

LEMMA RowCovers ==
    ASSUME Shape, Sessions, NoOrphan, [Next]_vars, NEW k \in Keys, session[k].completed,
           NEW f \in Files, get_file(f), row[f].key = k
    PROVE  Covered(k)'
<1>1. CASE RowStays(f)
  BY <1>1, CoveredNext DEF RowStays, get_file
<1>2. ASSUME NEW r \in Requests, Saved(r, f) PROVE FALSE
  BY <1>2 DEF Saved, get_file
<1>3. ASSUME NEW r \in Requests, Deleted(r, f) PROVE Covered(k)'
  <2>1. CASE reqs[r].op = "unlink_row" /\ reqs[r].file = f
    <3>1. object[k] = 0
      BY <2>1 DEF NoOrphan, FoundFirst
    <3> QED BY <3>1, ObjectStays, CoveredNext
  <2>2. CASE reqs'[r].op \in RemoveOps /\ k \in reqs'[r].keys \cup leaked'
    BY <2>2, CoveredNext
  <2> QED BY <1>3, <2>1, <2>2 DEF Deleted
<1> QED BY <1>1, <1>2, <1>3, RowCases

LEMMA RemovingCovers ==
    ASSUME Shape, [Next]_vars, NEW k \in Keys, NEW r \in Requests, Removing(r, k)
    PROVE  Covered(k)'
<1>1. reqs[r].op \in RemoveOps /\ k \in reqs[r].keys
  BY DEF Removing
<1>2. CASE reqs'[r] = reqs[r]
  BY <1>1, <1>2, CoveredNext
<1>3. CASE Ends(r)
  <2>1. k \in leaked'
    BY <1>1, <1>3 DEF Ends, RequestDies
  <2> QED BY <2>1, CoveredNext
<1>4. CASE Onward(r)
  <2>1. PICK i \in reqs[r].keys :
           /\ reqs'[r].op = reqs[r].op /\ reqs'[r].keys = reqs[r].keys \ {i}
           /\ object' = remove_object(i) \/ leaked' = leaked \cup {i}
    BY <1>1, <1>4 DEF Onward, Goes
  <2>2. i \in Keys
    BY ShapeFacts DEF Request
  <2>3. CASE i = k
    <3>1. object'[k] = 0 \/ k \in leaked'
      BY <2>1, <2>2, <2>3, RemovedFacts
    <3> QED BY <3>1, CoveredNext
  <2>4. CASE i # k
    <3>1. reqs'[r].op \in RemoveOps /\ k \in reqs'[r].keys
      BY <1>1, <2>1, <2>4
    <3> QED BY <3>1, CoveredNext
  <2> QED BY <2>3, <2>4
<1> QED BY <1>1, <1>2, <1>3, <1>4, Busy

\* An upload that is saved has its row then, or has leaked.
LEMMA SavedRow ==
    ASSUME Shape, NEW r \in Requests, save_file(r)
    PROVE  \/ \E f \in Files : Saved(r, f)
           \/ /\ ~FolderThere(reqs[r].loaded.folder) /\ reqs[r].key \in leaked' /\ UNCHANGED row
              /\ reqs'[r] = Idle
<1>1. reqs[r].op = "save" /\ row \in [Files -> UserFile]
  BY ShapeFacts DEF save_file
<1>2. CASE FolderThere(reqs[r].loaded.folder)
  <2>1. PICK f \in Files :
           /\ row[f].state = "unused"
           /\ row' = [row EXCEPT ![f] =
                 [state |-> "live", key |-> reqs[r].key, folder |-> reqs[r].loaded.folder,
                  size |-> reqs[r].size, favorite |-> FALSE]]
    BY <1>2 DEF save_file
  <2> QED BY <1>1, <2>1 DEF Saved
<1>3. CASE ~FolderThere(reqs[r].loaded.folder)
  <2>1. reqs[r].key \in leaked' /\ UNCHANGED row /\ Answer(r)
    BY <1>3 DEF save_file
  <2> QED BY <1>3, <2>1, ShapeFacts, AnswerFacts
<1> QED BY <1>2, <1>3

LEMMA SeeingCovers ==
    ASSUME Shape, Sessions, [Next]_vars, NEW k \in Keys, NEW r \in Requests, Seeing(r, k),
           session[k].owner = "user"
    PROVE  Covered(k)'
<1>1. reqs[r].op \in SeenOps /\ reqs[r].key = k /\ reqs[r].loaded.owner = "user"
  BY DEF Seeing, Sessions, SameSession
<1>2. CASE reqs'[r] = reqs[r]
  BY <1>1, <1>2, CoveredNext
<1>3. ASSUME find_existing(r), find_by_key(k) # {} PROVE Covered(k)'
  <2>1. PICK f \in Files : row'[f].state = "live" /\ row'[f].key = k
    BY <1>3 DEF find_existing, OnlyRequests, NoRows, find_by_key, get_file
  <2> QED BY <2>1, CoveredNext
<1>4. ASSUME save_file(r) PROVE Covered(k)'
  BY <1>1, <1>4, SavedRow, CoveredNext DEF Saved
<1>5. CASE Ends(r)
  <2>1. CASE RequestDies(r)
    <3>1. k \in leaked'
      BY <1>1, <2>1, UploadAssumption DEF RequestDies
    <3> QED BY <3>1, CoveredNext
  <2>2. CASE verify_guest_upload(r)
    BY <1>1, <2>2 DEF verify_guest_upload
  <2> QED BY <1>1, <1>3, <1>4, <1>5, <2>1, <2>2 DEF Ends
<1>6. CASE Kept(r) /\ Onward(r)
  <2>1. \/ reqs'[r].op \in SeenOps /\ reqs'[r].key = k
        \/ reqs'[r].op \in RemoveOps /\ reqs'[r].keys = {k}
        \/ find_existing(r) /\ find_by_key(k) # {}
        \/ save_file(r)
    BY <1>1, <1>6 DEF Kept, Onward, Goes
  <2> QED BY <1>3, <1>4, <2>1, CoveredNext
<1> QED BY <1>1, <1>2, <1>5, <1>6, Busy

\* How a session comes to be completed.
LEMMA CompletedArrives ==
    ASSUME Shape, Sessions, [Next]_vars, NEW k \in Keys, session'[k].completed, ~session[k].completed
    PROVE  \E r \in Requests : /\ CheckObject(r) /\ reqs[r].key = k /\ reqs'[r].op = "owner"
                               /\ reqs'[r].key = k
<1>1. session[k] \in UploadSession
  BY ShapeFacts
<1>2. ASSUME NEW i \in Keys, Upload(i) PROVE FALSE
  BY <1>1, <1>2, UploadFacts DEF Uploaded, UploadSession
<1>3. ASSUME NEW r \in Requests, CompleteParts(r) PROVE FALSE
  BY <1>3, CompletedFacts
<1>4. ASSUME NEW r \in Requests, CheckObject(r)
      PROVE  reqs[r].key = k /\ reqs'[r].op = "owner" /\ reqs'[r].key = k
  <2>1. reqs[r].key = k /\ object[k] # 0 /\ reqs[r] \in Request
    BY <1>4, CheckedFacts, ShapeFacts
  <2>2. reqs'[r] = [reqs[r] EXCEPT !.op = "owner"]
    BY <1>4, <2>1, CheckObjectRequest DEF object_exists
  <2> QED BY <2>1, <2>2 DEF Request
<1>5. ASSUME NEW i \in Keys, Removes(i) PROVE FALSE
  BY <1>5 DEF Removes
<1> QED BY <1>2, <1>3, <1>4, <1>5, StoreCases DEF uploadVars

LEMMA NoOrphanStep ==
    ASSUME Shape, Sessions, NoOrphan, [Next]_vars
    PROVE  NoOrphan'
<1>1. ASSUME NEW k \in Keys, session'[k].owner = "user", session'[k].completed PROVE Covered(k)'
  <2>1. CASE ~session[k].completed
    BY <1>1, <2>1, CompletedArrives, CoveredNext
  <2>2. CASE session[k].completed
    <3>1. session[k].owner = "user"
      BY <1>1, <2>2, SessionStep DEF Sessions, SessionSound, SessionKept
    <3>2. Covered(k)
      BY <2>2, <3>1 DEF NoOrphan
    <3>3. CASE object[k] = 0
      BY <2>2, <3>3, ObjectStays, CoveredNext
    <3>4. CASE k \in leaked
      BY <3>4, LeakedStays, CoveredNext
    <3>5. CASE find_by_key(k) # {}
      <4>1. PICK f \in Files : get_file(f) /\ row[f].key = k
        BY <3>5 DEF find_by_key
      <4> QED BY <2>2, <4>1, RowCovers
    <3> QED BY <3>1, <3>2, <3>3, <3>4, <3>5, RemovingCovers, SeeingCovers DEF Covered
  <2> QED BY <2>1, <2>2
<1>2. \A r \in Requests : FoundFirst(reqs[r])'
  BY FoundFirstStep
<1> QED BY <1>1, <1>2 DEF NoOrphan

LEMMA NoOrphanInit ==
    ASSUME Init
    PROVE  NoOrphan
<1>1. PICK s \in Scenarios : ScenarioSound(s) /\ StartsAs(s)
  BY InitFacts
<1>2. ASSUME NEW k \in Keys, session[k].completed PROVE find_by_key(k) # {}
  <2>1. PICK e \in s.files : e.key = k
    BY <1>1, <1>2 DEF StartsAs, Stored
  <2>2. e.file \in Files /\ \A d \in s.files : d.file = e.file => d = e
    BY <1>1, <2>1 DEF ScenarioSound
  <2>3. row[e.file].state = "live" /\ row[e.file].key = k
    BY <1>1, <2>1, <2>2 DEF StartsAs
  <2> QED BY <2>2, <2>3 DEF find_by_key, get_file
<1>3. \A r \in Requests : FoundFirst(reqs[r])
  BY InitIdle, IdleFacts DEF FoundFirst
<1> QED BY <1>2, <1>3 DEF NoOrphan, Covered

------------------------------------------------------------------------------
(* What becomes of a job, and of the cleanup worker's selection *)

\* A verified upload becomes the input of the job.
Pushes(r, j) ==
    /\ reqs[r].job = j /\ job[j].state # "none"
    /\ \/ PointJob(r) /\ reqs[r].op = "job" /\ ~job[j].guest
       \/ verify_guest_upload(r) /\ reqs[r].op = "owner" /\ reqs[r].loaded.owner = "guest"
    /\ job'[j].key = reqs[r].key /\ job'[j].guest = job[j].guest /\ job'[j].token = job[j].token
    /\ job'[j].state = IF job[j].state = "waiting" THEN "active" ELSE job[j].state

JobMove(j) ==
    \/ job'[j] = job[j]
    \/ /\ j \in Free
       /\ \/ \E guest \in BOOLEAN : job'[j] = NewJob("waiting", guest, NoKey)
          \/ \E f \in Files : get_file(f) /\ job'[j] = NewJob("active", FALSE, row[f].key)
    \/ \E r \in Requests : Pushes(r, j)
    \/ /\ job'[j].state = job[j].state /\ job'[j].guest = job[j].guest /\ job'[j].key = job[j].key
       /\ ~job'[j].token /\ \A r \in Requests : reqs[r].job # j
    \/ /\ job[j].state = "active" /\ job'[j].state \in {"completed", "failed"}
       /\ job'[j].guest = job[j].guest /\ job'[j].key = job[j].key /\ job'[j].token = job[j].token
    \/ /\ job[j].state = "failed" /\ ~job[j].guest /\ job'[j].state = "active"
       /\ job'[j].guest = job[j].guest /\ job'[j].key = job[j].key /\ job'[j].token = job[j].token
    \/ ~job[j].guest /\ job'[j] = NoConversion
    \/ j \in sweep.selected /\ sweep.todo = {} /\ job'[j] = NoConversion /\ UNCHANGED fileVars

OutputMove(j) == \/ j \notin output'
                 \/ j \in output
                 \/ job[j].state = "active" /\ job'[j].state = "completed"

SweepMove ==
    \/ UNCHANGED sweep
    \/ sweep' = NoSweep
    \/ \E chosen \in SUBSET Jobs :
          /\ Select(chosen)
          /\ \A j \in chosen : ~job[j].token \/ job[j].state \in {"completed", "failed"}
    \/ \E j \in Jobs : delete_objects(j) \/ delete_objects_fails(j)

Moves == (\A j \in Jobs : JobMove(j) /\ OutputMove(j)) /\ SweepMove

LEMMA SameMoves ==
    ASSUME UNCHANGED <<job, output, sweep>>
    PROVE  Moves
BY DEF Moves, JobMove, OutputMove, SweepMove

LEMMA JobsAre ==
    ASSUME Shape
    PROVE  /\ job \in [Jobs -> JobRecord] /\ output \subseteq Jobs /\ sweep \in SweepRecord
           /\ \A j \in Jobs : job[j] \in JobRecord
BY DEF Shape, TypeOKJobs, JobRecord, SweepRecord

LEMMA PushMoves ==
    ASSUME Shape, NEW r \in Requests, PointJob(r) \/ verify_guest_upload(r)
    PROVE  Moves
<1>1. job \in [Jobs -> JobRecord] /\ RequestHas(reqs[r]) /\ UNCHANGED <<output, sweep>>
  BY JobsAre, ShapeFacts DEF PointJob, verify_guest_upload, NoSweeping
<1>2. ASSUME NEW j \in Jobs, reqs[r].job = j, push_conversion_job(j, reqs[r].key), job[j].state # "none",
             \/ PointJob(r) /\ reqs[r].op = "job" /\ ~job[j].guest
             \/ verify_guest_upload(r) /\ reqs[r].op = "owner" /\ reqs[r].loaded.owner = "guest"
      PROVE  Moves
  <2>1. /\ job'[j].key = reqs[r].key /\ job'[j].guest = job[j].guest /\ job'[j].token = job[j].token
        /\ job'[j].state = IF job[j].state = "waiting" THEN "active" ELSE job[j].state
        /\ \A i \in Jobs \ {j} : job'[i] = job[i]
    BY <1>1, <1>2 DEF push_conversion_job, JobRecord
  <2>2. \A i \in Jobs : JobMove(i)
    BY <1>2, <2>1 DEF JobMove, Pushes
  <2> QED BY <1>1, <2>2 DEF Moves, OutputMove, SweepMove
<1>3. CASE PointJob(r)
  <2>1. reqs[r].op = "job" /\ reqs[r].job \in Jobs
    BY <1>1, <1>3 DEF PointJob, RequestHas
  <2>2. CASE job[reqs[r].job].state # "none" /\ ~job[reqs[r].job].guest
    BY <1>2, <1>3, <2>1, <2>2 DEF PointJob
  <2>3. CASE ~(job[reqs[r].job].state # "none" /\ ~job[reqs[r].job].guest)
    BY <1>1, <1>3, <2>3, SameMoves DEF PointJob
  <2> QED BY <2>2, <2>3
<1>4. CASE verify_guest_upload(r)
  <2>1. reqs[r].op = "owner" /\ reqs[r].job \in Jobs /\ reqs[r].loaded.owner = "guest"
    BY <1>1, <1>4 DEF verify_guest_upload, RequestHas
  <2>2. CASE stat_object(reqs[r].key) > GuestMax \/ job[reqs[r].job].state = "none"
    BY <1>1, <1>4, <2>2, SameMoves DEF verify_guest_upload
  <2>3. CASE ~(stat_object(reqs[r].key) > GuestMax \/ job[reqs[r].job].state = "none")
    BY <1>2, <1>4, <2>1, <2>3 DEF verify_guest_upload
  <2> QED BY <2>2, <2>3
<1> QED BY <1>3, <1>4

LEMMA RequestMoves ==
    ASSUME Shape, JobRequest
    PROVE  Moves
<1>1. job \in [Jobs -> JobRecord]
  BY JobsAre
<1>2. CASE ConvertFiles
  <2>1. UNCHANGED <<output, sweep>>
    BY <1>2 DEF ConvertFiles, NoSweeping
  <2>2. ASSUME NEW files \in SUBSET {f \in Files : get_file(f)}, NEW n \in Nat, StartJobs(files, n)
        PROVE  \A j \in Jobs : JobMove(j)
    BY <2>2, StartJobsFacts DEF JobMove
  <2>3. \A j \in Jobs : JobMove(j)
    <3>1. ASSUME NEW f \in Files, convert_library_file(f) PROVE \A j \in Jobs : JobMove(j)
      <4>1. {f} \in SUBSET {g \in Files : get_file(g)} /\ StartJobs({f}, 1) /\ 1 \in Nat
        BY <3>1 DEF convert_library_file
      <4> QED BY <2>2, <4>1
    <3>2. ASSUME NEW asked \in (SUBSET Files) \ {{}}, create_batch_conversion(asked)
          PROVE  \A j \in Jobs : JobMove(j)
      <4>1. /\ get_owned_files(asked) \in SUBSET {g \in Files : get_file(g)}
            /\ StartJobs(get_owned_files(asked), 1) /\ 1 \in Nat
        BY <3>2 DEF create_batch_conversion, get_owned_files
      <4> QED BY <2>2, <4>1
    <3>3. ASSUME NEW asked \in (SUBSET Files) \ {{}}, run_workflow(asked) PROVE \A j \in Jobs : JobMove(j)
      <4>1. workflow \in Nat
        BY JobsAssumption DEF Shape, TypeOKJobs
      <4>2. PICK supported \in SUBSET get_owned_files(asked) : StartJobs(supported, workflow)
        BY <3>3 DEF run_workflow
      <4>3. supported \in SUBSET {g \in Files : get_file(g)}
        BY DEF get_owned_files
      <4> QED BY <2>2, <4>1, <4>2, <4>3
    <3> QED BY <1>2, <3>1, <3>2, <3>3 DEF ConvertFiles
  <2> QED BY <2>1, <2>3 DEF Moves, OutputMove, SweepMove
<1>3. ASSUME NEW guest \in BOOLEAN, create_conversion_job(guest) PROVE Moves
  <2>1. UNCHANGED <<output, sweep>>
    BY <1>3 DEF create_conversion_job, NoSweeping
  <2>2. PICK j \in Free : job' = [job EXCEPT ![j] = NewJob("waiting", guest, NoKey)]
    BY <1>3 DEF create_conversion_job
  <2>3. \A i \in Jobs : job'[i] = job[i] \/ (i \in Free /\ job'[i] = NewJob("waiting", guest, NoKey))
    BY <1>1, <2>2
  <2>4. \A i \in Jobs : JobMove(i)
    BY <2>3 DEF JobMove
  <2> QED BY <2>1, <2>4 DEF Moves, OutputMove, SweepMove
<1>4. CASE KeepWorkflow
  BY <1>4, SameMoves DEF KeepWorkflow, NoSweeping
<1>5. ASSUME NEW j \in Jobs, retry_conversion_job(j) PROVE Moves
  <2>1. /\ UNCHANGED <<output, sweep>>
        /\ job[j].state = "failed" /\ ~job[j].guest /\ job'[j].state = "active"
        /\ job'[j].guest = job[j].guest /\ job'[j].key = job[j].key /\ job'[j].token = job[j].token
        /\ \A i \in Jobs \ {j} : job'[i] = job[i]
    BY <1>1, <1>5 DEF retry_conversion_job, NoSweeping, JobRecord
  <2>2. \A i \in Jobs : JobMove(i)
    BY <2>1 DEF JobMove
  <2> QED BY <2>1, <2>2 DEF Moves, OutputMove, SweepMove
<1>6. ASSUME NEW j \in Jobs, delete_history_job(j) PROVE Moves
  <2>1. /\ UNCHANGED <<output, sweep>> /\ ~job[j].guest /\ job'[j] = NoConversion
        /\ \A i \in Jobs \ {j} : job'[i] = job[i]
    BY <1>1, <1>6 DEF delete_history_job, NoSweeping
  <2>2. \A i \in Jobs : JobMove(i)
    BY <2>1 DEF JobMove
  <2> QED BY <2>1, <2>2 DEF Moves, OutputMove, SweepMove
<1> QED BY <1>2, <1>3, <1>4, <1>5, <1>6 DEF JobRequest, guest_conversion_job

LEMMA StepMoves ==
    ASSUME Shape, JobStep
    PROVE  Moves
<1>1. job \in [Jobs -> JobRecord] /\ output \subseteq Jobs
  BY JobsAre
<1>2. ASSUME NEW j \in Jobs, RunJob(j) PROVE Moves
  <2>1. /\ UNCHANGED sweep /\ job[j].state = "active"
        /\ job'[j].guest = job[j].guest /\ job'[j].key = job[j].key /\ job'[j].token = job[j].token
        /\ \A i \in Jobs \ {j} : job'[i] = job[i]
        /\ \/ job'[j].state = "completed" /\ output' = output \cup {j}
           \/ job'[j].state = "failed" /\ UNCHANGED output
    BY <1>1, <1>2 DEF RunJob, NoSweeping, JobRecord
  <2>2. \A i \in Jobs : JobMove(i)
    BY <2>1 DEF JobMove
  <2>3. \A i \in Jobs : OutputMove(i)
    BY <2>1 DEF OutputMove
  <2> QED BY <2>1, <2>2, <2>3 DEF Moves, SweepMove
<1>3. ASSUME NEW j \in Jobs, GuestTokenExpires(j) PROVE Moves
  <2>1. /\ UNCHANGED <<output, sweep>> /\ \A r \in Requests : reqs[r].job # j
        /\ job'[j].state = job[j].state /\ job'[j].guest = job[j].guest /\ job'[j].key = job[j].key
        /\ ~job'[j].token /\ \A i \in Jobs \ {j} : job'[i] = job[i]
    BY <1>1, <1>3 DEF GuestTokenExpires, NoSweeping, JobRecord
  <2>2. \A i \in Jobs : JobMove(i)
    BY <2>1 DEF JobMove
  <2> QED BY <2>1, <2>2 DEF Moves, OutputMove, SweepMove
<1> QED BY <1>2, <1>3 DEF JobStep

LEMMA SweepMoves ==
    ASSUME Shape, Sweep
    PROVE  Moves
<1>1. job \in [Jobs -> JobRecord] /\ output \subseteq Jobs
  BY JobsAre
<1>2. ASSUME UNCHANGED job, output' \subseteq output PROVE \A j \in Jobs : JobMove(j) /\ OutputMove(j)
  BY <1>2 DEF JobMove, OutputMove
<1>3. ASSUME NEW chosen \in SUBSET Jobs, Select(chosen),
             \A j \in chosen : ~job[j].token \/ job[j].state \in {"completed", "failed"}
      PROVE  Moves
  <2>1. UNCHANGED <<job, output>>
    BY <1>3 DEF Select
  <2> QED BY <1>2, <1>3, <2>1 DEF Moves, SweepMove
<1>4. CASE cleanup_guest_jobs
  BY <1>3, <1>4 DEF cleanup_guest_jobs
<1>5. CASE archive_old_jobs
  <2>1. PICK old \in SUBSET {j \in Jobs : job[j].state \in {"completed", "failed"}} : Select(old)
    BY <1>5 DEF archive_old_jobs
  <2> QED BY <1>3, <2>1
<1>6. ASSUME NEW j \in Jobs, delete_objects(j) \/ delete_objects_fails(j) PROVE Moves
  <2>1. UNCHANGED job /\ output' \subseteq output
    BY <1>6 DEF delete_objects, delete_objects_fails
  <2> QED BY <1>2, <1>6, <2>1 DEF Moves, SweepMove
<1>7. CASE SweepCommits
  <2>1. /\ sweep' = NoSweep /\ sweep.todo = {} /\ UNCHANGED <<output, fileVars>>
        /\ job' = [j \in Jobs |-> IF j \in sweep.selected THEN NoConversion ELSE job[j]]
    BY <1>7 DEF SweepCommits, NoFiles
  <2>2. \A j \in Jobs : job'[j] = job[j] \/ (j \in sweep.selected /\ job'[j] = NoConversion)
    BY <2>1
  <2>3. \A j \in Jobs : JobMove(j)
    BY <2>1, <2>2 DEF JobMove
  <2> QED BY <2>1, <2>3 DEF Moves, OutputMove, SweepMove
<1>8. CASE SweepDies
  <2>1. UNCHANGED <<job, output>> /\ sweep' = NoSweep
    BY <1>8 DEF SweepDies
  <2> QED BY <1>2, <2>1 DEF Moves, SweepMove
<1> QED BY <1>4, <1>5, <1>6, <1>7, <1>8 DEF Sweep

LEMMA MovesStep ==
    ASSUME Shape, [Next]_vars
    PROVE  Moves
<1>1. ASSUME UNCHANGED jobVars PROVE Moves
  BY <1>1, SameMoves DEF jobVars
<1>2. ASSUME UNCHANGED vars PROVE Moves
  BY <1>1, <1>2 DEF vars
<1>3. ASSUME NEW k \in Keys, Upload(k) PROVE Moves
  BY <1>1, <1>3 DEF Upload
<1>4. ASSUME NEW r \in Requests, NEW k \in Keys, Verify(r, k) PROVE Moves
  BY <1>1, <1>4 DEF Verify
<1>5. ASSUME NEW r \in Requests, Arrive(r) \/ Serve(r) \/ Fail(r) PROVE Moves
  BY <1>1, <1>5 DEF Arrive, Serve, Fail
<1>6. ASSUME NEW r \in Requests, ServeJob(r) PROVE Moves
  BY <1>6, PushMoves DEF ServeJob
<1>7. ASSUME NEW f \in Files, Favorite(f) PROVE Moves
  BY <1>1, <1>7 DEF Favorite
<1> QED BY <1>2, <1>3, <1>4, <1>5, <1>6, <1>7, RequestMoves, StepMoves, SweepMoves DEF Next

------------------------------------------------------------------------------
(* Nothing a guest uploaded stays in the store unless the guest's job or a *)
(* request leads to it                                                     *)

\* What leads to a guest's object: the guest's job, or the verification that
\* will hand it to the job.
Claimed(k) == \/ object[k] = 0 \/ k \in leaked
              \/ \E j \in Jobs : job[j].guest /\ job[j].key = k
              \/ \E r \in Requests : reqs[r].op = "owner" /\ reqs[r].key = k

JobSound(j) ==
    /\ job[j].key # NoKey => session[job[j].key].completed
    /\ job[j].state \in {"active", "failed", "completed"} => job[j].key # NoKey
    /\ job[j].state = "none" => job[j] = NoConversion
    /\ j \in output /\ job[j].guest => job[j].state = "completed"

\* The job a guest's verification is for takes no other upload meanwhile.
GuestsOwn(q) ==
    IF q.loaded.owner = "guest"
    THEN /\ job[q.job].guest \/ job[q.job].state = "none"
         /\ job[q.job].key \in {NoKey, q.key}
         /\ job[q.job].guest => job[q.job].token
         /\ \A p \in Requests : reqs[p].job = q.job => reqs[p].key = q.key
    ELSE ~job[q.job].guest

\* What a sweep has read of a guest's job is still so, and what it is done
\* with is out of the store.
SelectedSound(j) ==
    job[j].guest =>
        /\ sweep.keys[j] = job[j].key
        /\ job[j].key # NoKey \/ ~job[j].token
        /\ j \notin sweep.todo /\ job[j].key # NoKey => object[job[j].key] = 0 \/ job[j].key \in leaked

Guests ==
    /\ \A k \in Keys : session[k].owner = "guest" /\ session[k].completed => Claimed(k)
    /\ \A j \in Jobs : JobSound(j)
    /\ \A r \in Requests : reqs[r].op \in VerifyOps /\ reqs[r].job \in Jobs => GuestsOwn(reqs[r])
    /\ sweep.todo \subseteq sweep.selected
    /\ \A j \in sweep.selected : SelectedSound(j)

LEMMA FreeFacts ==
    ASSUME NEW j \in Free
    PROVE  /\ job[j].state = "none" /\ j \notin output /\ j \notin sweep.selected
           /\ \A r \in Requests : reqs[r].job # j
BY DEF Free

LEMMA NewJobFacts ==
    ASSUME NEW st, NEW guest, NEW key
    PROVE  /\ NewJob(st, guest, key).state = st /\ NewJob(st, guest, key).guest = guest
           /\ NewJob(st, guest, key).token = guest /\ NewJob(st, guest, key).key = key
BY DEF NewJob

LEMMA NoConversionFacts ==
    /\ NoConversion.state = "none" /\ NoConversion.key = NoKey
    /\ NoConversion.guest = FALSE /\ NoConversion.token = FALSE
BY DEF NoConversion

\* A guest's job that an upload is pushed to had no other.
LEMMA PushedFacts ==
    ASSUME Shape, Sessions, Guests, NEW j \in Jobs, NEW r \in Requests, Pushes(r, j)
    PROVE  /\ reqs[r].key \in Keys /\ session[reqs[r].key].completed
           /\ job[j].guest => job[j].key \in {NoKey, reqs[r].key} /\ job[j].token
<1>1. /\ reqs[r].op \in {"job", "owner"} /\ reqs[r].job = j
      /\ job[j].guest => reqs[r].op = "owner" /\ reqs[r].loaded.owner = "guest"
  BY DEF Pushes
<1>2. reqs[r].key \in Keys /\ session[reqs[r].key].completed
  BY <1>1, ShapeFacts DEF RequestHas, Sessions, SameSession
<1>3. GuestsOwn(reqs[r])
  BY <1>1 DEF Guests
<1> QED BY <1>1, <1>2, <1>3 DEF GuestsOwn

LEMMA JobSoundStep ==
    ASSUME Shape, Sessions, Guests, [Next]_vars, NEW j \in Jobs
    PROVE  JobSound(j)'
<1>1. JobSound(j) /\ JobMove(j) /\ OutputMove(j) /\ job[j] \in JobRecord
  BY MovesStep, JobsAre DEF Guests, Moves
<1>2. /\ \A k \in Keys : session[k].completed => session'[k].completed
      /\ job[j].key \in Keys \cup {NoKey}
  BY <1>1, SessionStep DEF SessionKept, JobRecord
<1>3. SUFFICES
        /\ job'[j].key # NoKey => session'[job'[j].key].completed
        /\ job'[j].state \in {"active", "failed", "completed"} => job'[j].key # NoKey
        /\ job'[j].state = "none" => job'[j] = NoConversion
        /\ j \in output' /\ job'[j].guest => job'[j].state = "completed"
  BY DEF JobSound, NoConversion
<1>4. CASE job'[j] = job[j]
  BY <1>1, <1>2, <1>4 DEF JobSound, OutputMove
<1>5. CASE /\ j \in Free
           /\ \/ \E guest \in BOOLEAN : job'[j] = NewJob("waiting", guest, NoKey)
              \/ \E f \in Files : get_file(f) /\ job'[j] = NewJob("active", FALSE, row[f].key)
  <2>1. j \notin output /\ job[j].state = "none"
    BY <1>5, FreeFacts
  <2>2. ASSUME NEW guest \in BOOLEAN, job'[j] = NewJob("waiting", guest, NoKey) PROVE <1>3!1
    BY <1>1, <2>1, <2>2, NewJobFacts DEF OutputMove
  <2>3. ASSUME NEW f \in Files, get_file(f), job'[j] = NewJob("active", FALSE, row[f].key) PROVE <1>3!1
    <3>1. row[f].key \in Keys /\ session[row[f].key].completed
      BY <2>3 DEF Shape, Sessions
    <3>2. job'[j].state = "active" /\ job'[j].key = row[f].key /\ job'[j].guest = FALSE
      BY <2>3 DEF NewJob
    <3> QED BY <1>2, <3>1, <3>2, UploadAssumption
  <2> QED BY <1>5, <2>2, <2>3
<1>6. ASSUME NEW r \in Requests, Pushes(r, j) PROVE <1>3!1
  <2>1. reqs[r].key \in Keys /\ session[reqs[r].key].completed
    BY <1>6, PushedFacts
  <2> QED BY <1>1, <1>2, <1>6, <2>1, UploadAssumption DEF Pushes, JobSound, OutputMove
<1>7. CASE /\ job'[j].state = job[j].state /\ job'[j].guest = job[j].guest /\ job'[j].key = job[j].key
           /\ ~job'[j].token
  <2>1. job'[j] \in JobRecord
    BY ShapeStep DEF Shape, TypeOKJobs, JobRecord, JobStates
  <2>2. job'[j].state = "none" => job'[j] = NoConversion
    BY <1>1, <1>7, <2>1 DEF JobSound, JobRecord, NoConversion
  <2> QED BY <1>1, <1>2, <1>7, <2>2 DEF JobSound, OutputMove
<1>8. CASE /\ job[j].state = "active" /\ job'[j].state \in {"completed", "failed"}
           /\ job'[j].guest = job[j].guest /\ job'[j].key = job[j].key
  BY <1>1, <1>2, <1>8 DEF JobSound, OutputMove
<1>9. CASE /\ job[j].state = "failed" /\ ~job[j].guest /\ job'[j].state = "active"
           /\ job'[j].guest = job[j].guest /\ job'[j].key = job[j].key
  BY <1>1, <1>2, <1>9 DEF JobSound
<1>10. CASE job'[j] = NoConversion
  BY <1>10, NoConversionFacts
<1> QED BY <1>1, <1>4, <1>5, <1>6, <1>7, <1>8, <1>9, <1>10 DEF JobMove

LEMMA ClaimedNext ==
    ASSUME NEW k \in Keys,
           \/ object'[k] = 0 \/ k \in leaked'
           \/ \E j \in Jobs : job'[j].guest /\ job'[j].key = k
           \/ \E r \in Requests : reqs'[r].op = "owner" /\ reqs'[r].key = k
    PROVE  Claimed(k)'
BY DEF Claimed

\* A guest's job leads to its object until the worker has released that.
LEMMA JobClaims ==
    ASSUME Shape, Sessions, Guests, [Next]_vars, NEW k \in Keys, NEW j \in Jobs, job[j].guest, job[j].key = k
    PROVE  Claimed(k)'
<1>1. JobMove(j) /\ JobSound(j)
  BY MovesStep DEF Guests, Moves
<1>2. CASE job'[j].guest = job[j].guest /\ job'[j].key = job[j].key
  BY <1>2, ClaimedNext
<1>3. CASE j \in Free
  BY <1>1, <1>3, FreeFacts, NoConversionFacts DEF JobSound
<1>4. ASSUME NEW r \in Requests, Pushes(r, j) PROVE job'[j].guest = job[j].guest /\ job'[j].key = job[j].key
  BY <1>4, PushedFacts, UploadAssumption DEF Pushes
<1>5. CASE j \in sweep.selected /\ sweep.todo = {} /\ UNCHANGED fileVars
  <2>1. object[k] = 0 \/ k \in leaked
    BY <1>5, UploadAssumption DEF Guests, SelectedSound
  <2>2. UNCHANGED <<object, leaked>>
    BY <1>5 DEF fileVars, uploadVars, libraryVars
  <2> QED BY <2>1, <2>2, ClaimedNext
<1> QED BY <1>1, <1>2, <1>3, <1>4, <1>5 DEF JobMove

\* The verification of a guest's upload hands it to the guest's job.
LEMMA OwnerClaims ==
    ASSUME Shape, Sessions, Guests, [Next]_vars, NEW k \in Keys, session[k].owner = "guest",
           NEW r \in Requests, reqs[r].op = "owner", reqs[r].key = k
    PROVE  Claimed(k)'
<1>1. reqs[r].loaded.owner = "guest"
  BY DEF Sessions, SameSession
<1>2. reqs[r].job \in Jobs
  BY <1>1, ShapeFacts DEF RequestHas
<1>3. CASE reqs'[r] = reqs[r]
  BY <1>3, ClaimedNext
<1>4. CASE RequestDies(r)
  <2>1. k \in leaked'
    BY <1>4, UploadAssumption DEF RequestDies
  <2> QED BY <2>1, ClaimedNext
<1>5. CASE verify_guest_upload(r)
  <2> DEFINE j == reqs[r].job
  <2>1. GuestsOwn(reqs[r])
    BY <1>2 DEF Guests
  <2>2. CASE stat_object(k) > GuestMax \/ job[j].state = "none"
    <3>1. k \in leaked'
      BY <1>5, <2>2 DEF verify_guest_upload
    <3> QED BY <3>1, ClaimedNext
  <2>3. CASE ~(stat_object(k) > GuestMax \/ job[j].state = "none")
    <3>1. push_conversion_job(j, k)
      BY <1>5, <2>3 DEF verify_guest_upload
    <3>2. job[j].guest
      BY <1>1, <2>1, <2>3 DEF GuestsOwn
    <3>3. job'[j].guest = job[j].guest /\ job'[j].key = k
      BY <1>2, <3>1, JobsAre DEF push_conversion_job, JobRecord
    <3> QED BY <1>2, <3>2, <3>3, ClaimedNext
  <2> QED BY <2>2, <2>3
<1>6. CASE Ends(r)
  BY <1>4, <1>5, <1>6 DEF Ends, find_existing, save_file, RemoveDone, RemoveFails
<1>7. CASE Onward(r)
  BY <1>1, <1>7 DEF Onward, Goes, CheckOwner
<1> QED BY <1>3, <1>6, <1>7, Busy

LEMMA ClaimedStep ==
    ASSUME Shape, Sessions, Guests, [Next]_vars, NEW k \in Keys, session'[k].owner = "guest",
           session'[k].completed
    PROVE  Claimed(k)'
<1>1. CASE ~session[k].completed
  BY <1>1, CompletedArrives, ClaimedNext
<1>2. CASE session[k].completed
  <2>1. session[k].owner = "guest"
    BY <1>2, SessionStep DEF Sessions, SessionSound, SessionKept
  <2>2. Claimed(k)
    BY <1>2, <2>1 DEF Guests
  <2>3. CASE object[k] = 0
    BY <1>2, <2>3, ObjectStays, ClaimedNext
  <2>4. CASE k \in leaked
    BY <2>4, LeakedStays, ClaimedNext
  <2> QED BY <2>1, <2>2, <2>3, <2>4, JobClaims, OwnerClaims DEF Claimed
<1> QED BY <1>1, <1>2

\* A verification keeps its upload and its job.
LEMMA VerifiesOn ==
    ASSUME Shape, [Next]_vars, NEW r \in Requests, reqs'[r].op \in VerifyOps
    PROVE  \/ reqs[r].op \in VerifyOps /\ Kept(r)
           \/ \E k \in Keys, j \in Jobs \cup {NoJob} : Verifies(r, k, j)
<1>1. CASE reqs'[r] = reqs[r]
  BY <1>1 DEF Kept
<1>2. CASE Ends(r)
  BY <1>2, IdleFacts DEF Ends
<1>3. CASE Fresh(r)
  BY <1>3 DEF Fresh
<1>4. ASSUME NEW f \in Files, delete_file_request(r, f) PROVE FALSE
  BY <1>4, DeleteFileArrives
<1>5. CASE Kept(r) /\ Onward(r)
  BY <1>5 DEF Onward, Goes
<1> QED BY <1>1, <1>2, <1>3, <1>4, <1>5, ProgressStep DEF Progress

\* Another request for the job of a guest's verification is for its upload.
LEMMA OneGuestUpload ==
    ASSUME Shape, Guests, [Next]_vars, NEW r \in Requests, reqs[r].op \in VerifyOps,
           reqs[r].job \in Jobs, reqs[r].loaded.owner = "guest",
           NEW p \in Requests, reqs'[p].job = reqs[r].job
    PROVE  reqs'[p].key = reqs[r].key
<1>1. GuestsOwn(reqs[r])
  BY DEF Guests
<1>2. \A q \in Requests : reqs[q].job = reqs[r].job => reqs[q].key = reqs[r].key
  BY <1>1 DEF GuestsOwn
<1>3. CASE reqs'[p] = reqs[p] \/ Kept(p)
  BY <1>2, <1>3 DEF Kept
<1>4. CASE Ends(p) \/ Fresh(p)
  BY <1>4, IdleFacts, LibraryAssumption DEF Ends, Fresh
<1>5. ASSUME NEW f \in Files, delete_file_request(p, f) PROVE FALSE
  BY <1>5, DeleteFileArrives, LibraryAssumption
<1>6. ASSUME NEW k \in Keys, NEW j \in Jobs \cup {NoJob}, Verifies(p, k, j)
      PROVE  reqs'[p].key = reqs[r].key
  <2>1. reqs'[p].key = k /\ reqs'[p].job = j /\ j = reqs[r].job
    BY <1>6, VerifyRequest DEF Verifies
  <2>2. CASE session[k].owner = "guest"
    BY <1>6, <2>1, <2>2 DEF Verifies
  <2>3. CASE session[k].owner # "guest"
    <3>1. job[j].state # "none" /\ ~job[j].guest
      BY <1>6, <2>1, <2>3 DEF Verifies
    <3> QED BY <1>1, <2>1, <3>1 DEF GuestsOwn
  <2> QED BY <2>2, <2>3
<1> QED BY <1>3, <1>4, <1>5, <1>6, ProgressStep DEF Progress

LEMMA GuestsOwnStep ==
    ASSUME Shape, Sessions, Guests, [Next]_vars, NEW r \in Requests, reqs'[r].op \in VerifyOps,
           reqs'[r].job \in Jobs
    PROVE  GuestsOwn(reqs[r])'
<1> DEFINE q == reqs'[r]
<1>1. SUFFICES IF q.loaded.owner = "guest"
               THEN /\ job'[q.job].guest \/ job'[q.job].state = "none"
                    /\ job'[q.job].key \in {NoKey, q.key}
                    /\ job'[q.job].guest => job'[q.job].token
                    /\ \A p \in Requests : reqs'[p].job = q.job => reqs'[p].key = q.key
               ELSE ~job'[q.job].guest
  BY DEF GuestsOwn
<1> HIDE DEF q
<1>2. CASE reqs[r].op \in VerifyOps /\ Kept(r)
  <2>1. q.key = reqs[r].key /\ q.loaded = reqs[r].loaded /\ q.job = reqs[r].job /\ q.job \in Jobs
    BY <1>2 DEF Kept, q
  <2>2. GuestsOwn(reqs[r])
    BY <1>2, <2>1 DEF Guests
  <2> DEFINE j == q.job
  <2>3. JobMove(j) /\ JobSound(j) /\ j \notin Free
    BY <2>1, MovesStep, FreeFacts DEF Moves, Guests
  <2>4. /\ job'[j].guest = job[j].guest \/ job'[j] = NoConversion
        /\ job'[j].token = job[j].token \/ job'[j] = NoConversion
        /\ job'[j].key = job[j].key \/ job'[j] = NoConversion \/ \E p \in Requests : Pushes(p, j)
        /\ job[j].state = "none" => job'[j].state = "none"
    BY <2>1, <2>3, NoConversionFacts DEF JobMove, Pushes
  <2>5. CASE q.loaded.owner = "guest"
    <3>1. \A p \in Requests : reqs'[p].job = q.job => reqs'[p].key = q.key
      BY <1>2, <2>1, <2>5, OneGuestUpload
    <3>2. /\ job[j].guest \/ job[j].state = "none"
          /\ job[j].key \in {NoKey, q.key}
          /\ job[j].guest => job[j].token
          /\ \A p \in Requests : reqs[p].job = j => reqs[p].key = q.key
      BY <2>1, <2>2, <2>5 DEF GuestsOwn
    <3>3. \A p \in Requests : Pushes(p, j) => job'[j].key = q.key
      BY <3>2 DEF Pushes
    <3> QED BY <2>4, <2>5, <3>1, <3>2, <3>3, NoConversionFacts
  <2>6. CASE q.loaded.owner # "guest"
    BY <2>1, <2>2, <2>4, <2>6, NoConversionFacts DEF GuestsOwn
  <2> QED BY <2>5, <2>6
<1>3. ASSUME NEW k \in Keys, NEW j \in Jobs \cup {NoJob}, Verifies(r, k, j) PROVE <1>1!1
  <2>1. q.key = k /\ q.job = j /\ q.loaded = session[k] /\ Only(r)
    BY <1>3, VerifyRequest DEF Verifies, q
  <2>2. UNCHANGED job /\ j \in Jobs
    BY <1>3, <2>1 DEF Verifies, Verify, jobVars, q
  <2>3. CASE session[k].owner = "guest"
    <3>1. \A p \in Requests : reqs'[p].job = j => reqs'[p].key = k
      BY <1>3, <2>1, <2>3 DEF Verifies, Only, q
    <3> QED BY <1>3, <2>1, <2>2, <2>3, <3>1 DEF Verifies, require_guest_token
  <2>4. CASE session[k].owner # "guest"
    BY <1>3, <2>1, <2>2, <2>4 DEF Verifies
  <2> QED BY <2>3, <2>4
<1> QED BY <1>2, <1>3, VerifiesOn

\* A selected guest's job takes no upload it did not have.
LEMMA SelectedStays ==
    ASSUME Shape, Sessions, Guests, [Next]_vars, NEW j \in sweep.selected, job'[j].guest
    PROVE  /\ job[j].guest /\ job'[j].key = job[j].key /\ SelectedSound(j)
           /\ job'[j].key # NoKey \/ ~job'[j].token
           /\ job[j].key # NoKey /\ (object[job[j].key] = 0 \/ job[j].key \in leaked) =>
                 object'[job[j].key] = 0 \/ job[j].key \in leaked'
<1>1. j \in Jobs /\ j \notin Free
  BY JobsAre, FreeFacts DEF SweepRecord
<1>2. JobMove(j) /\ JobSound(j) /\ SelectedSound(j) /\ job[j].key \in Keys \cup {NoKey}
  BY <1>1, MovesStep, JobsAre DEF Moves, Guests, JobRecord
<1>3. ASSUME NEW r \in Requests, Pushes(r, j)
      PROVE  /\ job[j].guest /\ job'[j].key = job[j].key
             /\ job'[j].key # NoKey \/ ~job'[j].token
  <2>1. job[j].guest /\ job'[j].token = job[j].token /\ job'[j].key = reqs[r].key
    BY <1>3 DEF Pushes
  <2>2. job[j].key \in {NoKey, reqs[r].key} /\ job[j].token
    BY <1>1, <1>3, <2>1, PushedFacts
  <2> QED BY <1>2, <2>1, <2>2 DEF SelectedSound
<1>4. /\ job[j].guest /\ job'[j].key = job[j].key
      /\ job'[j].key # NoKey \/ ~job'[j].token
  BY <1>1, <1>2, <1>3, NoConversionFacts DEF JobMove, SelectedSound
<1>5. job[j].key # NoKey /\ (object[job[j].key] = 0 \/ job[j].key \in leaked) =>
                 object'[job[j].key] = 0 \/ job[j].key \in leaked'
  BY <1>2, ObjectStays, LeakedStays DEF JobSound
<1> QED BY <1>2, <1>4, <1>5

LEMMA SelectedStep ==
    ASSUME Shape, Sessions, Guests, [Next]_vars
    PROVE  sweep'.todo \subseteq sweep'.selected /\ \A j \in sweep'.selected : SelectedSound(j)'
<1>1. SweepMove /\ sweep.todo \subseteq sweep.selected /\ sweep \in SweepRecord
  BY MovesStep, JobsAre DEF Moves, Guests
<1>2. SUFFICES
        /\ sweep'.todo \subseteq sweep'.selected
        /\ \A j \in sweep'.selected : job'[j].guest =>
              /\ sweep'.keys[j] = job'[j].key
              /\ job'[j].key # NoKey \/ ~job'[j].token
              /\ j \notin sweep'.todo /\ job'[j].key # NoKey =>
                    object'[job'[j].key] = 0 \/ job'[j].key \in leaked'
  BY DEF SelectedSound
<1>3. CASE UNCHANGED sweep
  BY <1>1, <1>3, SelectedStays DEF SelectedSound
<1>4. CASE sweep' = NoSweep
  BY <1>4 DEF NoSweep
<1>5. ASSUME NEW chosen \in SUBSET Jobs, Select(chosen),
             \A j \in chosen : ~job[j].token \/ job[j].state \in {"completed", "failed"}
      PROVE  <1>2!1
  <2>1. /\ sweep'.selected = chosen /\ sweep'.todo = chosen /\ UNCHANGED job
        /\ \A j \in chosen : sweep'.keys[j] = job[j].key
    BY <1>5 DEF Select, input_object_key
  <2>2. \A j \in chosen : ~job[j].token \/ job[j].key # NoKey
    BY <1>5 DEF Guests, JobSound
  <2> QED BY <2>1, <2>2
<1>6. ASSUME NEW i \in Jobs, delete_objects(i) \/ delete_objects_fails(i) PROVE <1>2!1
  <2>1. /\ i \in sweep.todo /\ sweep'.todo = sweep.todo \ {i} /\ sweep'.selected = sweep.selected
        /\ sweep'.keys = sweep.keys /\ UNCHANGED job
    BY <1>1, <1>6 DEF delete_objects, delete_objects_fails, SweepRecord
  <2>2. sweep.keys[i] # NoKey => object'[sweep.keys[i]] = 0 \/ sweep.keys[i] \in leaked'
    <3>1. sweep.keys[i] \in Keys \cup {NoKey}
      BY <1>1 DEF SweepRecord
    <3> QED BY <1>6, <3>1, RemovedFacts DEF delete_objects, delete_objects_fails
  <2> QED BY <1>1, <2>1, <2>2, SelectedStays DEF SelectedSound
<1> QED BY <1>1, <1>3, <1>4, <1>5, <1>6 DEF SweepMove

LEMMA GuestsStep ==
    ASSUME Shape, Sessions, Guests, [Next]_vars
    PROVE  Guests'
<1>1. \A k \in Keys : session'[k].owner = "guest" /\ session'[k].completed => Claimed(k)'
  BY ClaimedStep
<1>2. \A j \in Jobs : JobSound(j)'
  BY JobSoundStep
<1>3. \A r \in Requests : reqs'[r].op \in VerifyOps /\ reqs'[r].job \in Jobs => GuestsOwn(reqs[r])'
  BY GuestsOwnStep
<1> QED BY <1>1, <1>2, <1>3, SelectedStep DEF Guests

LEMMA GuestsInit ==
    ASSUME Init
    PROVE  Guests
<1>1. PICK s \in Scenarios : ScenarioSound(s) /\ StartsAs(s)
  BY InitFacts
<1>2. \A k \in Keys : session[k].owner = "user"
  BY <1>1 DEF StartsAs
<1>3. \A j \in Jobs : JobSound(j)
  BY InitIdle, NoConversionFacts DEF JobSound
<1>4. \A r \in Requests : reqs[r].op = "idle"
  BY InitIdle, IdleFacts
<1>5. sweep.todo = {} /\ sweep.selected = {}
  BY InitIdle DEF NoSweep
<1> QED BY <1>2, <1>3, <1>4, <1>5 DEF Guests

\* Nothing stays in the store that no row leads to: an object of the account
\* whose upload was verified has its row, or a request that will remove it or
\* give it one (complete_upload, delete_file, delete_many, delete_folder), and
\* an object of a guest is the input of the guest's job until the cleanup
\* worker has released it (the guest verify_upload_session, cleanup_guest_jobs,
\* archive_old_jobs); only a failure, recorded in leaked, leaves one behind.
\* It needs no bound on which requests overlap.
THEOREM NothingLeftBehindTheorem == Spec => []NothingLeftBehind
<1>1. Init => Shape /\ Sessions /\ NoOrphan /\ Guests
  BY ShapeInit, SessionsInit, NoOrphanInit, GuestsInit
<1>2. Shape /\ Sessions /\ NoOrphan /\ Guests /\ [Next]_vars =>
         Shape' /\ Sessions' /\ NoOrphan' /\ Guests'
  BY ShapeStep, SessionsStep, NoOrphanStep, GuestsStep
<1>3. Shape /\ NoOrphan => NoOrphanObject
  <2>1. ASSUME Shape, NoOrphan, NEW k \in Keys, session[k].owner = "user", session[k].completed,
               object_exists(k)
        PROVE  find_by_key(k) # {} \/ Working(k) \/ k \in leaked
    <3>1. Covered(k)
      BY <2>1 DEF NoOrphan
    <3> QED BY <2>1, <3>1 DEF Covered, Removing, Seeing, Working, object_exists
  <2> QED BY <2>1 DEF NoOrphanObject
<1>4. Shape /\ Guests => GuestReclaimable
  <2>1. ASSUME Shape, Guests, NEW k \in Keys, session[k].owner = "guest", session[k].completed,
               object_exists(k)
        PROVE  (\E j \in Jobs : job[j].guest /\ job[j].key = k) \/ Working(k) \/ k \in leaked
    <3>1. Claimed(k)
      BY <2>1 DEF Guests
    <3> QED BY <2>1, <3>1 DEF Claimed, Working, object_exists
  <2>2. ASSUME Shape, Guests, NEW j \in output, job[j].guest PROVE job[j].state = "completed"
    BY <2>2, JobsAre DEF Guests, JobSound
  <2> QED BY <2>1, <2>2 DEF GuestReclaimable
<1> QED BY <1>1, <1>2, <1>3, <1>4, PTL DEF Spec, NothingLeftBehind

------------------------------------------------------------------------------
(* The library and the store agree, until requests for one upload overlap  *)

\* Keys whose row or object is accounted for otherwise.
Excused == leaked \cup released \cup doubled

\* An object that a verification accepts.
Legit(k) == object[k] # 0 /\ object[k] <= MaxFile /\ k \notin Spoofed

OwnKey == \A q, r \in Requests : reqs[q].key = reqs[r].key /\ reqs[q].key \in Keys \ doubled => q = r
OneRow == \A f, g \in Files :
             get_file(f) /\ get_file(g) /\ row[f].key = row[g].key /\ row[f].key \notin doubled => f = g

Backed(f) == \/ row[f].key \in Excused \/ Legit(row[f].key)
             \/ \E r \in Requests : reqs[r].op = "unlink_row" /\ reqs[r].key = row[f].key

\* What a request relies on at each step.
Relies(q) ==
    /\ q.op \in {"lock", "save"} => q.key \in doubled \/ find_by_key(q.key) = {}
    /\ q.op \in SeenOps => \/ q.key \in Excused
                           \/ object[q.key] # 0 /\ (q.op \in {"find", "lock", "save"} => Legit(q.key))
    /\ q.op \in RemoveOps => \A k \in q.keys : k \in Excused \/ find_by_key(k) = {}
    /\ q.op \in {"unlink", "unlink_row"} => \/ q.key \in doubled
                                           \/ \A f \in find_by_key(q.key) : f = q.file

Agreement == /\ OwnKey /\ OneRow
             /\ \A f \in Files : get_file(f) => Backed(f)
             /\ \A r \in Requests : Relies(reqs[r])

LEMMA ExcusedStays ==
    ASSUME [Next]_vars
    PROVE  Excused \subseteq Excused'
<1>1. released \subseteq released'
  <2>1. ASSUME UNCHANGED released PROVE released \subseteq released'
    BY <2>1
  <2>2. ASSUME UNCHANGED vars \/ UNCHANGED jobVars PROVE UNCHANGED released
    BY <2>2 DEF vars, jobVars
  <2>3. ASSUME NEW r \in Requests, ServeJob(r) PROVE UNCHANGED released
    BY <2>3 DEF ServeJob, PointJob, verify_guest_upload, NoSweeping
  <2>4. ASSUME JobRequest \/ JobStep PROVE UNCHANGED released
    BY <2>4 DEF JobRequest, JobStep, ConvertFiles, create_conversion_job, guest_conversion_job,
         KeepWorkflow, retry_conversion_job, delete_history_job, RunJob, GuestTokenExpires, NoSweeping
  <2>5. ASSUME Sweep PROVE released \subseteq released'
    BY <2>5 DEF Sweep, cleanup_guest_jobs, archive_old_jobs, Select, delete_objects,
         delete_objects_fails, SweepCommits, SweepDies
  <2>6. ASSUME \/ \E k \in Keys : Upload(k)
               \/ \E r \in Requests, k \in Keys : Verify(r, k)
               \/ \E r \in Requests : Arrive(r) \/ Serve(r) \/ Fail(r)
               \/ \E f \in Files : Favorite(f)
        PROVE  UNCHANGED jobVars
    BY <2>6 DEF Upload, Verify, Arrive, Serve, Fail, Favorite
  <2> QED BY <2>1, <2>2, <2>3, <2>4, <2>5, <2>6 DEF Next
<1> QED BY <1>1, LeakedStays, OverlapStays DEF Excused

\* Two requests with one key are noted.
LEMMA OwnKeyStep ==
    ASSUME OwnKey, [Next]_vars
    PROVE  OwnKey'
<1>1. CASE Overlaps
  BY <1>1 DEF Overlaps, OwnKey
<1>2. CASE UNCHANGED <<reqs, doubled, crossed>>
  BY <1>2 DEF OwnKey
<1> QED BY <1>1, <1>2, OverlapStep

LEMMA OneRowStep ==
    ASSUME Shape, Agreement, [Next]_vars
    PROVE  OneRow'
<1>1. ASSUME NEW f \in Files, NEW g \in Files, f # g, NEW r \in Requests, Saved(r, f),
             row'[g].state = "live", row'[g].key = row'[f].key, row'[f].key \notin doubled'
      PROVE  FALSE
  <2>1. row[g].state = "live" /\ row[g].key = reqs[r].key /\ reqs[r].op = "save"
    BY <1>1 DEF Saved
  <2>2. find_by_key(reqs[r].key) = {}
    BY <1>1, <2>1, OverlapStays DEF Agreement, Relies, Saved
  <2> QED BY <2>1, <2>2 DEF find_by_key, get_file
<1>2. ASSUME NEW f \in Files, NEW g \in Files, f # g, row'[f].state = "live", row'[g].state = "live",
             row'[g].key = row'[f].key, row'[f].key \notin doubled'
      PROVE  FALSE
  <2>1. ASSUME NEW h \in Files, row'[h].state = "live" PROVE RowStays(h) \/ \E r \in Requests : Saved(r, h)
    BY <2>1, RowCases DEF Deleted
  <2>2. RowStays(f) /\ RowStays(g)
    BY <1>1, <1>2, <2>1
  <2> QED BY <1>2, <2>2, OverlapStays DEF RowStays, Agreement, OneRow, get_file
<1> QED BY <1>2 DEF OneRow, get_file

\* A row that a step inserts belongs to the request that saves it.
LEMMA FoundNext ==
    ASSUME Shape, [Next]_vars, NEW f \in Files, NEW k, row'[f].state = "live", row'[f].key = k
    PROVE  f \in find_by_key(k) \/ \E r \in Requests : Saved(r, f) /\ reqs[r].key = k
BY RowCases DEF RowStays, Saved, Deleted, find_by_key, get_file

\* The object of a completed upload goes only by a removal.
LEMMA ObjectGoes ==
    ASSUME Shape, Sessions, [Next]_vars, NEW k \in Keys, session[k].completed
    PROVE  object'[k] = object[k] \/ Removes(k)
<1>1. SessionSound(k) /\ session[k] \in UploadSession
  BY ShapeFacts DEF Sessions
<1>2. ASSUME NEW i \in Keys, Upload(i) PROVE object'[k] = object[k]
  BY <1>1, <1>2, UploadFacts DEF Uploaded, SessionSound
<1>3. ASSUME NEW r \in Requests, CompleteParts(r) \/ CheckObject(r) PROVE object'[k] = object[k]
  BY <1>1, <1>3, CompletedFacts, CheckedFacts DEF SessionSound
<1>4. ASSUME NEW i \in Keys, Removes(i), i # k PROVE object'[k] = object[k]
  BY <1>4, RemovedFacts DEF Removes
<1> QED BY <1>2, <1>3, <1>4, StoreCases DEF uploadVars

LEMMA LegitStays ==
    ASSUME NEW k, Legit(k), object'[k] = object[k]
    PROVE  Legit(k)'
BY DEF Legit

LEMMA BackedNext ==
    ASSUME NEW f \in Files, NEW k \in Keys, row'[f].key = k,
           \/ k \in Excused'
           \/ Legit(k)'
           \/ \E r \in Requests : reqs'[r].op = "unlink_row" /\ reqs'[r].key = k
    PROVE  Backed(f)'
BY DEF Backed, Legit

LEMMA BackedStep ==
    ASSUME Shape, Sessions, Agreement, [Next]_vars, NEW f \in Files, get_file(f)'
    PROVE  Backed(f)'
<1>1. CASE RowStays(f)
  <2>1. get_file(f) /\ row[f].key \in Keys
    BY <1>1 DEF RowStays, get_file, Shape
  <2>2. PICK k \in Keys : k = row[f].key
    BY <2>1
  <2>3. row'[f].key = k /\ session[k].completed /\ Backed(f) /\ f \in find_by_key(k)
    BY <1>1, <2>1, <2>2 DEF RowStays, Sessions, Agreement, find_by_key
  <2>4. CASE k \in Excused
    BY <2>3, <2>4, ExcusedStays, BackedNext
  <2>5. CASE Legit(k)
    <3>1. CASE object'[k] = object[k]
      BY <2>3, <2>5, <3>1, LegitStays, BackedNext
    <3>2. ASSUME NEW r \in Requests, RemoveOne(r), k \in reqs[r].keys PROVE k \in Excused
      <4>1. reqs[r].op \in RemoveOps
        BY <3>2 DEF RemoveOne
      <4> QED BY <2>3, <3>2, <4>1 DEF Agreement, Relies
    <3>3. ASSUME NEW r \in Requests, delete_file_object(r), k = reqs[r].key
          PROVE  reqs'[r].op = "unlink_row" /\ reqs'[r].key = k
      <4>1. reqs'[r] = [reqs[r] EXCEPT !.op = "unlink_row"] /\ reqs[r] \in Request
        BY <3>3, UnlinkRequest, ShapeFacts
      <4> QED BY <3>3, <4>1 DEF Request
    <3>4. CASE Removes(k)
      <4>1. \/ k \in Excused
            \/ \E r \in Requests : reqs'[r].op = "unlink_row" /\ reqs'[r].key = k
            \/ k \in released'
        BY <3>2, <3>3, <3>4 DEF Removes
      <4>2. k \in released' => k \in Excused'
        BY DEF Excused
      <4> QED BY <2>3, <4>1, <4>2, ExcusedStays, BackedNext
    <3> QED BY <2>3, <3>1, <3>4, ObjectGoes
  <2>6. ASSUME NEW r \in Requests, reqs[r].op = "unlink_row", reqs[r].key = k PROVE Backed(f)'
    <3>1. CASE reqs'[r] = reqs[r]
      BY <2>3, <2>6, <3>1, BackedNext
    <3>2. CASE delete_file_row(r)
      <4>1. f = reqs[r].file \/ k \in Excused
        BY <2>3, <2>6 DEF Agreement, Relies, Excused
      <4>2. CASE k \in Excused
        BY <2>3, <4>2, ExcusedStays, BackedNext
      <4>3. CASE f = reqs[r].file
        <5>1. row'[f] = GoneFile
          BY <3>2, <4>3, ShapeFacts DEF delete_file_row
        <5> QED BY <5>1, GoneFacts DEF get_file
      <4> QED BY <4>1, <4>2, <4>3
    <3>3. CASE RequestDies(r)
      <4>1. k \in Excused'
        BY <2>6, <3>3, UploadAssumption DEF RequestDies, Excused
      <4> QED BY <2>3, <4>1, BackedNext
    <3>4. CASE Ends(r)
      BY <2>6, <3>2, <3>3, <3>4 DEF Ends
    <3>5. CASE Onward(r)
      BY <2>6, <3>5 DEF Onward, Goes
    <3> QED BY <2>6, <3>1, <3>4, <3>5, Busy
  <2> QED BY <2>2, <2>3, <2>4, <2>5, <2>6 DEF Backed
<1>2. ASSUME NEW r \in Requests, Saved(r, f) PROVE Backed(f)'
  <2>1. reqs[r].op = "save" /\ reqs[r].key \in Keys /\ row'[f].key = reqs[r].key /\ save_file(r)
    BY <1>2, ShapeFacts DEF Saved, RequestHas
  <2>2. PICK k \in Keys : k = reqs[r].key
    BY <2>1
  <2>3. k \in Excused \/ Legit(k)
    BY <2>1, <2>2 DEF Agreement, Relies
  <2>4. object' = object
    BY <2>1 DEF save_file, NoStore, uploadVars
  <2> QED BY <2>1, <2>2, <2>3, <2>4, ExcusedStays, LegitStays, BackedNext
<1>3. ASSUME NEW r \in Requests, Deleted(r, f) PROVE FALSE
  BY <1>3 DEF Deleted, get_file
<1> QED BY <1>1, <1>2, <1>3, RowCases

\* The four parts of what a request relies on, after a step.
LEMMA LockedStep ==
    ASSUME Shape, Agreement, [Next]_vars, NEW r \in Requests, reqs'[r].op \in {"lock", "save"},
           NEW f \in Files, row'[f].state = "live", row'[f].key = reqs'[r].key,
           reqs'[r].key \notin doubled'
    PROVE  FALSE
<1>0. Kept(r) => reqs[r].key \notin doubled
  BY OverlapStays DEF Kept
<1>1. Kept(r) /\ reqs[r].op \in {"find", "lock", "save"} /\ reqs[r].key \in Keys
  <2>1. Kept(r) /\ reqs[r].op \in {"find", "lock", "save"}
    BY Busy, ProgressStep, IdleFacts, VerifyRequest, DeleteFileArrives
       DEF Progress, Verifies, Kept, Onward, Goes, Ends, Fresh
  <2> QED BY <2>1, ShapeFacts DEF RequestHas
<1>2. find_by_key(reqs[r].key) = {} \/ (find_existing(r) /\ reqs[r].op = "find")
  <2>1. CASE reqs[r].op \in {"lock", "save"}
    BY <1>0, <1>1, <2>1 DEF Agreement, Relies
  <2>2. CASE reqs[r].op = "find"
    BY <2>2, Busy, IdleFacts DEF Onward, Goes, Ends
  <2> QED BY <1>1, <2>1, <2>2
<1>3. ASSUME NEW p \in Requests, Saved(p, f), reqs[p].key = reqs[r].key PROVE FALSE
  <2>1. p = r
    BY <1>0, <1>1, <1>3 DEF Agreement, OwnKey
  <2>2. save_file(r) /\ reqs[r] \in Request
    BY <1>3, <2>1, ShapeFacts DEF Saved
  <2>3. reqs'[r] = Idle \/ reqs'[r] = [reqs[r] EXCEPT !.op = "job"]
    BY <2>2, SaveRequest
  <2>4. reqs'[r].op \in {"idle", "job"}
    BY <2>2, <2>3, IdleFacts DEF Request
  <2> QED BY <2>4
<1>4. f \in find_by_key(reqs[r].key)
  BY <1>1, <1>3, FoundNext DEF Kept
<1>5. CASE find_existing(r) /\ reqs[r].op = "find"
  BY <1>4, <1>5, FindRequest, IdleFacts, ShapeFacts DEF Request
<1> QED BY <1>2, <1>4, <1>5

LEMMA SeenStep ==
    ASSUME Shape, Sessions, Agreement, [Next]_vars, NEW r \in Requests, reqs'[r].op \in SeenOps,
           NEW k \in Keys, reqs'[r].key = k
    PROVE  k \in Excused' \/ (object'[k] # 0 /\ (reqs'[r].op \in {"find", "lock", "save"} => Legit(k)'))
<1>1. CASE CheckObject(r) /\ object_exists(reqs[r].key) /\ Goes(r, "exists", "owner") /\ Kept(r)
  BY <1>1 DEF CheckObject, object_exists, Goes, Kept
<1>2. CASE measure_upload(r) /\ Goes(r, "measure", "find") /\ Kept(r)
  <2>1. reqs[r].key = k /\ reqs[r].op = "measure" /\ reqs'[r].op = "find" /\ reqs[r] \in Request
    BY <1>2, ShapeFacts DEF Kept, Goes
  <2>2. k \in Excused \/ object[k] # 0
    BY <2>1 DEF Agreement, Relies
  <2>3. ~(stat_object(k) > MaxFile) /\ validate_upload_signature(k)
    <3>1. reqs'[r] # [reqs[r] EXCEPT !.op = "remove", !.keys = {reqs[r].key}]
      BY <2>1 DEF Request
    <3> QED BY <1>2, <2>1, <3>1, MeasureRequest
  <2>4. UNCHANGED object /\ object[k] \in 0..MaxSize
    BY <1>2, ShapeFacts DEF measure_upload, NoStore, uploadVars
  <2>5. object[k] # 0 => Legit(k)
    BY <2>3, <2>4, LibraryAssumption, UploadAssumption
       DEF Legit, stat_object, validate_upload_signature, object_exists
  <2> QED BY <2>2, <2>4, <2>5, ExcusedStays, LegitStays
<1>3. CASE /\ reqs[r].op \in SeenOps /\ Kept(r)
           /\ reqs'[r].op \in {"find", "lock", "save"} => reqs[r].op \in {"find", "lock", "save"}
  <2>1. reqs[r].key = k /\ session[k].completed
    BY <1>3 DEF Kept, Sessions, SameSession
  <2>2. k \in Excused \/ (object[k] # 0 /\ (reqs[r].op \in {"find", "lock", "save"} => Legit(k)))
    BY <1>3, <2>1 DEF Agreement, Relies
  <2>3. CASE object'[k] = object[k]
    BY <1>3, <2>2, <2>3, ExcusedStays, LegitStays
  <2>4. CASE Removes(k)
    <3>1. ASSUME NEW p \in Requests, delete_file_object(p), k = reqs[p].key PROVE k \in doubled
      <4>1. p = r \/ k \in doubled
        BY <2>1, <3>1 DEF Agreement, OwnKey
      <4> QED BY <1>3, <3>1, <4>1 DEF delete_file_object
    <3>2. k \in leaked' \/ k \in released' \/ k \in doubled
      BY <1>3, <2>1, <2>4, <3>1 DEF Removes
    <3> QED BY <3>2, OverlapStays DEF Excused
  <2> QED BY <2>1, <2>3, <2>4, ObjectGoes
<1>4. reqs[r].op # "idle"
  BY ProgressStep, IdleFacts, VerifyRequest, DeleteFileArrives
     DEF Progress, Verifies, Kept, Onward, Goes, Ends, Fresh
<1>5. CASE reqs'[r] = reqs[r]
  BY <1>3, <1>5 DEF Kept
<1>6. CASE Ends(r)
  BY <1>6, IdleFacts DEF Ends
<1>7. CASE Kept(r) /\ Onward(r)
  <2>1. \/ CheckObject(r) /\ object_exists(reqs[r].key) /\ Goes(r, "exists", "owner")
        \/ measure_upload(r) /\ Goes(r, "measure", "find")
        \/ /\ reqs[r].op \in SeenOps
           /\ reqs'[r].op \in {"find", "lock", "save"} => reqs[r].op \in {"find", "lock", "save"}
    BY <1>7 DEF Onward, Goes
  <2> QED BY <1>1, <1>2, <1>3, <1>7, <2>1
<1> QED BY <1>4, <1>5, <1>6, <1>7, Busy

\* The rows of removed keys, after a step.
LEMMA StillRemoving ==
    ASSUME Shape, Agreement, [Next]_vars, NEW r \in Requests, reqs[r].op \in RemoveOps,
           NEW k \in reqs[r].keys, NEW f \in Files, row'[f].state = "live", row'[f].key = k
    PROVE  k \in Excused'
<1>1. k \in Excused \/ find_by_key(k) = {}
  BY DEF Agreement, Relies
<1>2. ASSUME NEW p \in Requests, Saved(p, f), reqs[p].key = k PROVE k \in Excused'
  <2>1. save_file(p)
    BY <1>2 DEF Saved
  <2>2. k \in leaked'
    BY <1>2, <2>1 DEF save_file
  <2> QED BY <2>2 DEF Excused
<1> QED BY <1>1, <1>2, FoundNext, ExcusedStays

LEMMA RefusedRow ==
    ASSUME Shape, Agreement, [Next]_vars, NEW r \in Requests, measure_upload(r), Goes(r, "measure", "remove"),
           NEW k \in Keys, reqs[r].key = k, find_by_key(k) # {}
    PROVE  k \in Excused'
<1>1. reqs[r].op = "measure" /\ reqs'[r].op = "remove" /\ reqs[r] \in Request
  BY ShapeFacts DEF Goes
<1>2. CASE ~FolderThere(reqs[r].loaded.folder)
  BY <1>2 DEF measure_upload, Excused
<1>3. CASE stat_object(k) > MaxFile \/ ~validate_upload_signature(k)
  <2>1. PICK f \in Files : get_file(f) /\ row[f].key = k
    BY DEF find_by_key
  <2>2. Backed(f)
    BY <2>1 DEF Agreement
  <2>3. ~Legit(k)
    BY <1>3, ShapeFacts, LibraryAssumption, UploadAssumption
       DEF Legit, stat_object, validate_upload_signature, object_exists
  <2>4. ASSUME NEW p \in Requests, reqs[p].op = "unlink_row", reqs[p].key = k PROVE k \in Excused
    BY <1>1, <2>4 DEF Agreement, OwnKey, Excused
  <2> QED BY <2>1, <2>2, <2>3, <2>4, ExcusedStays DEF Backed
<1>4. reqs'[r] # [reqs[r] EXCEPT !.op = "find", !.size = stat_object(reqs[r].key)]
  BY <1>1 DEF Request
<1> QED BY <1>2, <1>3, <1>4, MeasureRequest

LEMMA RemovingStep ==
    ASSUME Shape, Agreement, [Next]_vars, NEW r \in Requests, reqs'[r].op \in RemoveOps,
           NEW k \in Keys, k \in reqs'[r].keys, NEW f \in Files, row'[f].state = "live", row'[f].key = k
    PROVE  k \in Excused'
<1>1. CASE reqs[r].op \in RemoveOps /\ k \in reqs[r].keys
  BY <1>1, StillRemoving
<1>2. CASE measure_upload(r) /\ Goes(r, "measure", "remove") /\ reqs'[r].keys = {reqs[r].key}
  <2>1. UNCHANGED row /\ reqs[r].key = k
    BY <1>2 DEF measure_upload, NoRows
  <2>2. f \in find_by_key(k)
    BY <2>1 DEF find_by_key, get_file
  <2> QED BY <1>2, <2>1, <2>2, RefusedRow
<1>3. CASE lock_and_check(r) /\ Goes(r, "lock", "remove") /\ reqs'[r].keys = {reqs[r].key}
  <2>1. UNCHANGED row /\ reqs[r].key = k /\ reqs[r].op = "lock"
    BY <1>3 DEF lock_and_check, NoRows
  <2>2. f \in find_by_key(k)
    BY <2>1 DEF find_by_key, get_file
  <2>3. k \in doubled
    BY <2>1, <2>2 DEF Agreement, Relies
  <2> QED BY <2>3, OverlapStays DEF Excused
<1>4. ASSUME NEW g \in Files, get_file(g), row[g].key = k, row'[g].state # "live", RowStays(f)
      PROVE  k \in Excused'
  <2>1. k \in doubled
    BY <1>4 DEF RowStays, get_file, Agreement, OneRow
  <2> QED BY <2>1, OverlapStays DEF Excused
<1>5. CASE DropFolders(r) /\ reqs'[r].keys = reqs[r].keys
  <2> DEFINE files == Dropped(r)
  <2>1. /\ \A g \in Files : IF g \in files THEN row'[g] = GoneFile
                           ELSE row'[g].state = row[g].state /\ row'[g].key = row[g].key
        /\ leaked' = leaked \cup SymDiff({row[g].key : g \in files}, reqs[r].keys)
        /\ files \subseteq {g \in Files : get_file(g)}
    BY <1>5, DropRows
  <2> HIDE DEF files
  <2>4. CASE k \in {row[g].key : g \in files}
    <3>1. PICK g \in files : row[g].key = k
      BY <2>4
    <3>2. row'[g].state # "live" /\ RowStays(f)
      BY <2>1, <3>1, GoneFacts DEF RowStays
    <3> QED BY <1>4, <2>1, <3>1, <3>2
  <2>5. CASE k \notin {row[g].key : g \in files}
    <3>1. k \in SymDiff({row[g].key : g \in files}, reqs[r].keys)
      BY <1>5, <2>5 DEF SymDiff
    <3> QED BY <2>1, <3>1 DEF Excused
  <2> QED BY <2>4, <2>5
<1>6. CASE batch_delete(r)
  <2>1. PICK found \in SUBSET {g \in Files : get_file(g)} :
           /\ row' = [g \in Files |-> IF g \in found THEN GoneFile ELSE row[g]]
           /\ reqs'[r].keys = {row[g].key : g \in found}
    BY <1>6, BatchArrives
  <2>2. PICK g \in found : row[g].key = k
    BY <2>1
  <2>3. row'[g].state # "live" /\ RowStays(f)
    BY <2>1, <2>2, GoneFacts DEF RowStays
  <2> QED BY <1>4, <2>2, <2>3
<1>7. ASSUME NEW i \in Keys, NEW j \in Jobs \cup {NoJob}, Verifies(r, i, j) PROVE FALSE
  BY <1>7, VerifyRequest DEF Verifies
<1>8. ASSUME NEW g \in Files, delete_file_request(r, g) PROVE FALSE
  BY <1>8, DeleteFileArrives
<1>9. CASE Fresh(r)
  BY <1>6, <1>9 DEF Fresh
<1>10. CASE Ends(r)
  BY <1>10, IdleFacts DEF Ends
<1>11. CASE Onward(r)
  BY <1>1, <1>2, <1>3, <1>5, <1>11 DEF Onward, Goes
<1>12. CASE reqs'[r] = reqs[r]
  BY <1>1, <1>12
<1> QED BY <1>7, <1>8, <1>9, <1>10, <1>11, <1>12, ProgressStep DEF Progress

LEMMA UnlinkingStep ==
    ASSUME Shape, Agreement, [Next]_vars, NEW r \in Requests, reqs'[r].op \in {"unlink", "unlink_row"},
           NEW f \in Files, row'[f].state = "live", row'[f].key = reqs'[r].key,
           reqs'[r].key \notin doubled'
    PROVE  f = reqs'[r].file
<1>1. CASE reqs[r].op \in {"unlink", "unlink_row"} /\ Kept(r)
  <2>1. /\ reqs[r].key \in Keys \ doubled
        /\ reqs'[r].key = reqs[r].key /\ reqs'[r].file = reqs[r].file
    BY <1>1, ShapeFacts, OverlapStays DEF RequestHas, Kept
  <2>2. ASSUME NEW p \in Requests, Saved(p, f), reqs[p].key = reqs[r].key PROVE FALSE
    BY <1>1, <2>1, <2>2 DEF Agreement, OwnKey, Saved
  <2>3. f \in find_by_key(reqs[r].key)
    BY <2>1, <2>2, FoundNext
  <2> QED BY <1>1, <2>1, <2>3 DEF Agreement, Relies
<1>2. ASSUME NEW g \in Files, delete_file_request(r, g) PROVE f = reqs'[r].file
  <2>1. reqs'[r].key = row[g].key /\ reqs'[r].file = g
    BY <1>2, DeleteFileArrives
  <2>2. get_file(g) /\ UNCHANGED row /\ row[g].key \notin doubled
    BY <1>2, <2>1, OverlapStays DEF delete_file_request, OnlyRequests, NoRows
  <2> QED BY <2>1, <2>2 DEF Agreement, OneRow, get_file
<1>3. CASE reqs'[r] = reqs[r] \/ (Kept(r) /\ Onward(r))
  BY <1>1, <1>3 DEF Kept, Onward, Goes
<1>4. CASE Ends(r) \/ Fresh(r)
  BY <1>4, IdleFacts DEF Ends, Fresh
<1>5. ASSUME NEW i \in Keys, NEW j \in Jobs \cup {NoJob}, Verifies(r, i, j) PROVE FALSE
  BY <1>5, VerifyRequest DEF Verifies
<1> QED BY <1>2, <1>3, <1>4, <1>5, ProgressStep DEF Progress

LEMMA ReliesStep ==
    ASSUME Shape, Sessions, Agreement, [Next]_vars, NEW r \in Requests
    PROVE  Relies(reqs[r])'
<1>1. RequestHas(reqs'[r]) /\ reqs'[r] \in Request
  <2>1. Shape'
    BY ShapeStep
  <2>2. reqs' \in [Requests -> Request]
    BY <2>1 DEF Shape, TypeOKJobs, TypeOKLibrary, Request, Ops
  <2> QED BY <2>1, <2>2 DEF Shape, RequestHas, Idle
<1>2. ASSUME reqs'[r].op \in {"lock", "save"}
      PROVE  reqs'[r].key \in doubled' \/ find_by_key(reqs[r].key)' = {}
  BY <1>2, LockedStep DEF find_by_key, get_file
<1>3. ASSUME reqs'[r].op \in SeenOps
      PROVE  \/ reqs'[r].key \in Excused'
             \/ /\ object'[reqs'[r].key] # 0
                /\ reqs'[r].op \in {"find", "lock", "save"} => Legit(reqs[r].key)'
  <2>1. PICK k \in Keys : reqs'[r].key = k
    BY <1>1, <1>3 DEF RequestHas
  <2>2. k \in Excused' \/ (object'[k] # 0 /\ (reqs'[r].op \in {"find", "lock", "save"} => Legit(k)'))
    BY <1>3, <2>1, SeenStep
  <2> QED BY <2>1, <2>2 DEF Legit
<1>4. ASSUME reqs'[r].op \in RemoveOps, NEW k \in reqs'[r].keys, k \notin Excused' PROVE find_by_key(k)' = {}
  <2>1. k \in Keys
    BY <1>1 DEF Request
  <2> QED BY <1>4, <2>1, RemovingStep DEF find_by_key, get_file
<1>5. ASSUME reqs'[r].op \in {"unlink", "unlink_row"}
      PROVE  reqs'[r].key \in doubled' \/ \A f \in find_by_key(reqs[r].key)' : f = reqs'[r].file
  BY <1>5, UnlinkingStep DEF find_by_key, get_file
<1> QED BY <1>2, <1>3, <1>4, <1>5 DEF Relies

LEMMA AgreementStep ==
    ASSUME Shape, Sessions, Agreement, [Next]_vars
    PROVE  Agreement'
<1>1. OwnKey'
  BY OwnKeyStep DEF Agreement
<1>2. OneRow'
  BY OneRowStep
<1>3. \A f \in Files : get_file(f)' => Backed(f)'
  BY BackedStep
<1>4. \A r \in Requests : Relies(reqs[r])'
  BY ReliesStep
<1> QED BY <1>1, <1>2, <1>3, <1>4 DEF Agreement

LEMMA AgreementInit ==
    ASSUME Init
    PROVE  Agreement
<1>1. PICK s \in Scenarios : ScenarioSound(s) /\ StartsAs(s)
  BY InitFacts
<1>2. /\ s.files \subseteq [file : Files, key : Keys \ Spoofed, folder : DOMAIN s.tree \cup {Root}]
      /\ \A e, f \in s.files : e.file = f.file \/ e.key = f.key => e = f
      /\ s.files # {} => MaxFile >= 1
  BY <1>1 DEF ScenarioSound
<1>3. \A f \in Files : get_file(f) => \E e \in s.files : e.file = f /\ row[f].key = e.key
  BY <1>1 DEF StartsAs, get_file, NoUserFile
<1>4. OwnKey /\ \A r \in Requests : Relies(reqs[r])
  <2>1. NoKey \notin Keys
    BY UploadAssumption
  <2> QED BY <2>1, InitIdle, IdleFacts DEF OwnKey, Relies
<1>5. OneRow
  BY <1>2, <1>3 DEF OneRow
<1>6. ASSUME NEW f \in Files, get_file(f) PROVE Backed(f)
  <2>1. PICK e \in s.files : e.file = f /\ row[f].key = e.key
    BY <1>3, <1>6
  <2>2. e.key \in Keys /\ e.key \notin Spoofed /\ MaxFile >= 1 /\ Stored(s, e.key)
    BY <1>2, <2>1 DEF Stored
  <2>3. object[e.key] = 1
    BY <1>1, <2>2 DEF StartsAs
  <2> QED BY <2>1, <2>2, <2>3, LibraryAssumption DEF Backed, Legit
<1> QED BY <1>4, <1>5, <1>6 DEF Agreement

\* The library and the store agree: an upload has at most one row however
\* often it is verified again (complete_upload looks the key up before it
\* inserts), and a row has its object, unless its deletion is under way, a
\* failure cut a request short, two requests handled the upload at the same
\* time, or a sweep released the input of a job that had read it (delete_file,
\* delete_many, delete_with_descendants, cleanup_guest_jobs, archive_old_jobs).
THEOREM StoreAgreesTheorem == Spec => []StoreAgrees
<1>1. Init => Shape /\ Sessions /\ Agreement
  BY ShapeInit, SessionsInit, AgreementInit
<1>2. Shape /\ Sessions /\ Agreement /\ [Next]_vars => Shape' /\ Sessions' /\ Agreement'
  BY ShapeStep, SessionsStep, AgreementStep
<1>3. Agreement => OneRowPerKey
  <2>1. ASSUME Agreement, NEW k \in Keys \ doubled PROVE Cardinality(find_by_key(k)) <= 1
    <3>1. \A f, g \in find_by_key(k) : f = g
      BY <2>1 DEF Agreement, OneRow, find_by_key
    <3>2. CASE find_by_key(k) = {}
      BY <3>2, FS_EmptySet
    <3>3. ASSUME NEW f \in find_by_key(k) PROVE Cardinality(find_by_key(k)) <= 1
      <4>1. find_by_key(k) = {f}
        BY <3>1, <3>3
      <4>2. Cardinality({f}) = 1
        BY FS_Singleton
      <4> QED BY <4>1, <4>2
    <3> QED BY <3>2, <3>3
  <2> QED BY <2>1 DEF OneRowPerKey
<1>4. Agreement => RowBacked
  <2>1. ASSUME Agreement, NEW f \in Files, get_file(f)
        PROVE  \/ object_exists(row[f].key) \/ Working(row[f].key)
               \/ row[f].key \in leaked \cup released \cup doubled
    BY <2>1 DEF Agreement, Backed, Legit, Excused, object_exists, Working
  <2> QED BY <2>1 DEF RowBacked
<1> QED BY <1>1, <1>2, <1>3, <1>4, PTL DEF Spec, StoreAgrees
=============================================================================
