------------------------------ MODULE Money_proofs ------------------------------
(***************************************************************************)
(* Proofs about Money, for any checkouts, baskets with any number of       *)
(* groups, currencies, tables of rates and roundings.                      *)
(*                                                                         *)
(* The properties are bounds on sums over the groups of a basket and over  *)
(* the orders of a payout.  A sum is a fold; what it gives for every       *)
(* finite set is shown first, by induction over the subsets of one.  Then  *)
(* the split and the conversions, with no state; then the invariant.       *)
(***************************************************************************)
EXTENDS Money, FiniteSetTheorems, TLAPS

-----------------------------------------------------------------------------
(* Induction over the subsets of a finite set, and sums.  The library's    *)
(* induction theorems take an operator; a set of subsets does as well.     *)

\* A set of subsets has a minimal one.
LEMMA MinimalSubset ==
    ASSUME NEW S, IsFiniteSet(S), NEW B \in SUBSET SUBSET S, B # {}
    PROVE  \E m \in B : \A u \in SUBSET m : u # m => u \notin B
<1>1. IsWellFoundedOn(StrictSubsetOrdering(S), SUBSET S)
  BY FS_StrictSubsetOrderingWellFounded, FS_FiniteSubsetsOfFinite
<1>2. PICK m \in B : \A y \in B : ~ (<<y, m>> \in StrictSubsetOrdering(S))
  BY <1>1, WFMin
<1>3. ASSUME NEW u \in SUBSET m, u # m
      PROVE  u \notin B
  <2>1. <<u, m>> \in StrictSubsetOrdering(S)
    BY <1>3 DEF StrictSubsetOrdering
  <2> QED BY <2>1, <1>2
<1> QED BY <1>3

\* The smallest counterexample has smaller subsets only.
LEMMA StrongInduction ==
    ASSUME NEW S, IsFiniteSet(S), NEW T,
           ASSUME NEW s \in SUBSET S, \A u \in SUBSET s : u # s => u \in T
           PROVE  s \in T
    PROVE  SUBSET S \subseteq T
<1> DEFINE B == (SUBSET S) \ T
<1> SUFFICES ASSUME B # {} PROVE FALSE
  OBVIOUS
<1>1. PICK m \in B : \A u \in SUBSET m : u # m => u \notin B
  <2>1. B \in SUBSET SUBSET S
    OBVIOUS
  <2> HIDE DEF B
  <2> QED BY ONLY IsFiniteSet(S), B # {}, <2>1, MinimalSubset
<1>2. \A u \in SUBSET m : u # m => u \in T
  BY <1>1
<1> QED BY <1>2

\* What holds of the empty set and is kept by one more element.
LEMMA SetInduction ==
    ASSUME NEW S, IsFiniteSet(S), NEW T, {} \in T,
           \A s \in SUBSET S : \A x \in S \ s : s \in T => s \cup {x} \in T
    PROVE  S \in T
<1>1. ASSUME NEW s \in SUBSET S, \A u \in SUBSET s : u # s => u \in T
      PROVE  s \in T
  <2>1. CASE s = {}
    BY <2>1
  <2>2. ASSUME NEW x \in s
        PROVE  s \in T
    <3>1. s \ {x} \in T
      BY <1>1
    <3>2. s = (s \ {x}) \cup {x} /\ x \in S \ (s \ {x}) /\ s \ {x} \in SUBSET S
      OBVIOUS
    <3> QED BY <3>1, <3>2
  <2> QED BY <2>1, <2>2
<1>2. SUBSET S \subseteq T
  <2> HIDE <1>1
  <2> QED BY <1>1, StrongInduction
<1> QED BY <1>2

\* The sums of the subsets of S, each from that of a smaller one.
Pick(s) == CHOOSE x \in s : TRUE
IsSums(h, S, f) == h = [s \in SUBSET S |-> IF s = {} THEN 0 ELSE f[Pick(s)] + h[s \ {Pick(s)}]]
SumsOf(S, f) == CHOOSE h : IsSums(h, S, f)

LEMMA PickIn == ASSUME NEW s, s # {} PROVE Pick(s) \in s
  BY DEF Pick

\* A sum is what the fold gives for the whole set.
LEMMA SumIsLast ==
    ASSUME NEW S, NEW f
    PROVE  SumOver(S, f) = SumsOf(S, f)[S]
  BY DEF SumOver, FoldFunctionOnSet, MapThenFoldSet, SumsOf, IsSums, Pick

\* The equation of the fold has one solution for a finite set.
LEMMA SumsUnique ==
    ASSUME NEW S, IsFiniteSet(S), NEW f, NEW g, NEW h, IsSums(g, S, f), IsSums(h, S, f)
    PROVE  g = h
<1> DEFINE T == {s \in SUBSET S : g[s] = h[s]}
<1>1. ASSUME NEW s \in SUBSET S, \A u \in SUBSET s : u # s => u \in T
      PROVE  s \in T
  <2>1. CASE s = {}
    BY <2>1 DEF IsSums
  <2>2. CASE s # {}
    <3>1. s \ {Pick(s)} \in T
      BY <1>1, <2>2, PickIn
    <3>2. g[s] = f[Pick(s)] + g[s \ {Pick(s)}] /\ h[s] = f[Pick(s)] + h[s \ {Pick(s)}]
      BY <2>2 DEF IsSums
    <3> QED BY <3>1, <3>2
  <2> QED BY <2>1, <2>2
<1>2. SUBSET S \subseteq T
  <2> HIDE DEF T
  <2> QED BY <1>1, StrongInduction
<1>3. DOMAIN g = SUBSET S /\ DOMAIN h = SUBSET S
  BY DEF IsSums
<1>4. g = [s \in SUBSET S |-> g[s]] /\ h = [s \in SUBSET S |-> h[s]]
  BY DEF IsSums
<1> QED BY <1>2, <1>4

\* The sums of a set are, on its subsets, theirs.
LEMMA SumsRestrict ==
    ASSUME NEW S, NEW f, NEW h, IsSums(h, S, f), NEW w \in SUBSET S
    PROVE  IsSums([s \in SUBSET w |-> h[s]], w, f)
<1> DEFINE r == [s \in SUBSET w |-> h[s]]
           e == [s \in SUBSET w |-> IF s = {} THEN 0 ELSE f[Pick(s)] + r[s \ {Pick(s)}]]
<1>1. ASSUME NEW s \in SUBSET w
      PROVE  r[s] = e[s]
  <2>1. h[s] = IF s = {} THEN 0 ELSE f[Pick(s)] + h[s \ {Pick(s)}]
    BY DEF IsSums
  <2>2. s \ {Pick(s)} \in SUBSET w
    OBVIOUS
  <2> QED BY <2>1, <2>2
<1>2. r = e
  BY <1>1
<1> QED BY <1>2 DEF IsSums

\* The equation has a solution: by strong induction, a larger set from its
\* smaller ones.
LEMMA SumsExist ==
    ASSUME NEW S, IsFiniteSet(S), NEW f
    PROVE  IsSums(SumsOf(S, f), S, f)
<1> DEFINE T == {t \in SUBSET S : \E h : IsSums(h, t, f)}
<1>1. ASSUME NEW t \in SUBSET S, \A u \in SUBSET t : u # t => u \in T
      PROVE  t \in T
  <2> DEFINE V(u) == SumsOf(u, f)[u]
             H == [s \in SUBSET t |-> IF s = {} THEN 0 ELSE f[Pick(s)] + V(s \ {Pick(s)})]
             E == [s \in SUBSET t |-> IF s = {} THEN 0 ELSE f[Pick(s)] + H[s \ {Pick(s)}]]
  <2>1. ASSUME NEW u \in SUBSET t, u # t
        PROVE  IsSums(SumsOf(u, f), u, f)
    BY <1>1, <2>1 DEF SumsOf
  <2>2. ASSUME NEW u \in SUBSET t, u # t, NEW w \in SUBSET u
        PROVE  SumsOf(u, f)[w] = V(w)
    <3>1. w # t
      BY <2>2
    <3>2. IsSums([s \in SUBSET w |-> SumsOf(u, f)[s]], w, f)
      BY <2>1, <2>2, SumsRestrict
    <3>3. IsSums(SumsOf(w, f), w, f)
      BY <2>1, <2>2, <3>1
    <3>4. IsFiniteSet(w)
      BY FS_Subset
    <3>5. [s \in SUBSET w |-> SumsOf(u, f)[s]] = SumsOf(w, f)
      BY <3>2, <3>3, <3>4, SumsUnique
    <3>6. SumsOf(w, f)[w] = [s \in SUBSET w |-> SumsOf(u, f)[s]][w]
      BY <3>5
    <3> QED BY <3>6
  <2>3. ASSUME NEW u \in SUBSET t, u # t
        PROVE  H[u] = V(u)
    <3>1. V(u) = IF u = {} THEN 0 ELSE f[Pick(u)] + SumsOf(u, f)[u \ {Pick(u)}]
      BY <2>1, <2>3 DEF IsSums
    <3>2. SumsOf(u, f)[u \ {Pick(u)}] = V(u \ {Pick(u)})
      BY <2>2, <2>3
    <3>3. H[u] = IF u = {} THEN 0 ELSE f[Pick(u)] + V(u \ {Pick(u)})
      OBVIOUS
    <3> HIDE DEF V, H
    <3> QED BY <3>1, <3>2, <3>3
  <2>4. ASSUME NEW s \in SUBSET t
        PROVE  H[s] = E[s]
    <3>1. CASE s = {}
      BY <3>1
    <3>2. CASE s # {}
      <4>1. s \ {Pick(s)} \in SUBSET t /\ s \ {Pick(s)} # t
        BY <3>2, PickIn
      <4>2. H[s \ {Pick(s)}] = V(s \ {Pick(s)})
        BY <2>3, <4>1
      <4>3. H[s] = f[Pick(s)] + V(s \ {Pick(s)}) /\ E[s] = f[Pick(s)] + H[s \ {Pick(s)}]
        BY <3>2
      <4> HIDE DEF V, H, E
      <4> QED BY <4>2, <4>3
    <3> QED BY <3>1, <3>2
  <2>5. H = E
    <3>1. H = [s \in SUBSET t |-> H[s]] /\ E = [s \in SUBSET t |-> E[s]]
      OBVIOUS
    <3> HIDE DEF H, E
    <3> QED BY <2>4, <3>1
  <2>6. IsSums(H, t, f)
    BY <2>5 DEF IsSums
  <2> QED BY <2>6
<1>2. SUBSET S \subseteq T
  <2> HIDE DEF T
  <2> QED BY <1>1, StrongInduction
<1>3. \E h : IsSums(h, S, f)
  BY <1>2
<1> QED BY <1>3 DEF SumsOf

\* The equation of the fold, for the element it takes first.
LEMMA SumPick ==
    ASSUME NEW S, IsFiniteSet(S), NEW f
    PROVE  SumOver(S, f) = IF S = {} THEN 0 ELSE f[Pick(S)] + SumOver(S \ {Pick(S)}, f)
<1> DEFINE w == S \ {Pick(S)}
           h == SumsOf(S, f)
<1>1. IsSums(h, S, f) /\ IsSums(SumsOf(w, f), w, f)
  BY SumsExist, FS_RemoveElement
<1>2. [s \in SUBSET w |-> h[s]] = SumsOf(w, f)
  <2>1. IsSums([s \in SUBSET w |-> h[s]], w, f)
    BY <1>1, SumsRestrict
  <2> QED BY <1>1, <2>1, SumsUnique, FS_RemoveElement
<1>3. SumOver(w, f) = h[w]
  <2>1. SumsOf(w, f)[w] = [s \in SUBSET w |-> h[s]][w]
    BY <1>2
  <2>2. SumOver(w, f) = SumsOf(w, f)[w]
    BY SumIsLast
  <2> HIDE DEF h, w
  <2> QED BY <2>1, <2>2
<1>4. SumOver(S, f) = h[S]
  BY SumIsLast
<1>5. h[S] = IF S = {} THEN 0 ELSE f[Pick(S)] + h[w]
  BY <1>1 DEF IsSums
<1> HIDE DEF h, w
<1>6. SumOver(S, f) = IF S = {} THEN 0 ELSE f[Pick(S)] + SumOver(w, f)
  BY <1>3, <1>4, <1>5
<1> QED BY <1>6 DEF w

\* The fold over nothing, and what a sum inherits from its terms.
LEMMA SumEmpty == \A f : SumOver({}, f) = 0
  BY SumPick, FS_EmptySet

LEMMA SumInt ==
    ASSUME NEW S, IsFiniteSet(S), NEW f, \A x \in S : f[x] \in Int
    PROVE  SumOver(S, f) \in Int
<1> DEFINE T == {s \in SUBSET S : SumOver(s, f) \in Int}
<1>1. ASSUME NEW s \in SUBSET S, \A u \in SUBSET s : u # s => u \in T
      PROVE  s \in T
  <2>1. SumOver(s, f) = IF s = {} THEN 0 ELSE f[Pick(s)] + SumOver(s \ {Pick(s)}, f)
    BY SumPick, FS_Subset
  <2>2. CASE s = {}
    BY <2>1, <2>2
  <2>3. CASE s # {}
    BY <2>1, <2>3, <1>1, PickIn
  <2> QED BY <2>2, <2>3
<1>2. SUBSET S \subseteq T
  <2> HIDE DEF T
  <2> QED BY <1>1, StrongInduction
<1> QED BY <1>2

\* Whichever element is taken first, the sum is the same.
LEMMA SumSplit ==
    ASSUME NEW S, IsFiniteSet(S), NEW f, \A x \in S : f[x] \in Int, NEW z \in S
    PROVE  SumOver(S, f) = f[z] + SumOver(S \ {z}, f)
<1> DEFINE T == {s \in SUBSET S : \A x \in s : SumOver(s, f) = f[x] + SumOver(s \ {x}, f)}
<1>0. \A s \in SUBSET S : SumOver(s, f) \in Int
  BY SumInt, FS_Subset
<1>1. ASSUME NEW s \in SUBSET S, \A u \in SUBSET s : u # s => u \in T
      PROVE  s \in T
  <2> SUFFICES ASSUME NEW x \in s
               PROVE  SumOver(s, f) = f[x] + SumOver(s \ {x}, f)
    OBVIOUS
  <2> DEFINE p == Pick(s)
  <2>1. p \in s
    BY PickIn
  <2>2. SumOver(s, f) = f[p] + SumOver(s \ {p}, f)
    BY SumPick, FS_Subset
  <2>3. CASE x = p
    BY <2>2, <2>3
  <2>4. CASE x # p
    <3>1. s \ {p} \in T /\ s \ {x} \in T
      BY <1>1, <2>1
    <3>2. SumOver(s \ {p}, f) = f[x] + SumOver((s \ {p}) \ {x}, f)
      BY <3>1, <2>4
    <3>3. SumOver(s \ {x}, f) = f[p] + SumOver((s \ {x}) \ {p}, f)
      BY <3>1, <2>1, <2>4
    <3>4. (s \ {p}) \ {x} = (s \ {x}) \ {p}
      OBVIOUS
    <3>5. SumOver((s \ {p}) \ {x}, f) \in Int /\ f[p] \in Int /\ f[x] \in Int
      BY <1>0, <2>1
    <3>6. ASSUME NEW a \in Int, NEW b \in Int, NEW c \in Int,
                 SumOver(s, f) = a + (b + c), SumOver(s \ {x}, f) = a + c
          PROVE  SumOver(s, f) = b + SumOver(s \ {x}, f)
      BY <3>6
    <3> HIDE DEF p, T
    <3> QED BY <2>2, <3>2, <3>3, <3>4, <3>5, <3>6
  <2> QED BY <2>3, <2>4
<1>2. SUBSET S \subseteq T
  <2> HIDE DEF T
  <2> QED BY <1>1, StrongInduction
<1> QED BY <1>2

\* A bound on a combination of terms is one on that of the sums.
LEMMA SumWithin ==
    ASSUME NEW S, IsFiniteSet(S), NEW f, NEW g, NEW h,
           NEW p \in Int, NEW q \in Int, NEW r \in Int, NEW v \in Int,
           \A x \in S : f[x] \in Int /\ g[x] \in Int /\ h[x] \in Int,
           \A x \in S : p * f[x] + q * g[x] + r * h[x] <= v
    PROVE  p * SumOver(S, f) + q * SumOver(S, g) + r * SumOver(S, h) <= v * Cardinality(S)
<1> DEFINE L(s) == p * SumOver(s, f) + q * SumOver(s, g) + r * SumOver(s, h)
           T == {s \in SUBSET S : L(s) <= v * Cardinality(s)}
<1>1. {} \in T
  BY SumEmpty, FS_EmptySet
<1>2. ASSUME NEW s \in SUBSET S, NEW x \in S \ s, s \in T
      PROVE  s \cup {x} \in T
  <2>1. IsFiniteSet(s) /\ Cardinality(s) \in Nat
    BY FS_Subset, FS_CardinalityType
  <2>2. IsFiniteSet(s \cup {x}) /\ Cardinality(s \cup {x}) = Cardinality(s) + 1
    BY <2>1, FS_AddElement
  <2>3. (s \cup {x}) \ {x} = s
    OBVIOUS
  <2>4. /\ SumOver(s \cup {x}, f) = f[x] + SumOver(s, f)
        /\ SumOver(s \cup {x}, g) = g[x] + SumOver(s, g)
        /\ SumOver(s \cup {x}, h) = h[x] + SumOver(s, h)
    BY <2>2, <2>3, SumSplit
  <2>5. SumOver(s, f) \in Int /\ SumOver(s, g) \in Int /\ SumOver(s, h) \in Int
    BY <2>1, SumInt
  <2>6. ASSUME NEW a \in Int, NEW b \in Int, NEW c \in Int, NEW F \in Int, NEW G \in Int, NEW H \in Int,
               NEW n \in Int, p * a + q * b + r * c <= v, p * F + q * G + r * H <= v * n
        PROVE  p * (a + F) + q * (b + G) + r * (c + H) <= v * (n + 1)
    <3>1. p * (a + F) = p * a + p * F /\ q * (b + G) = q * b + q * G /\ r * (c + H) = r * c + r * H
      OBVIOUS
    <3>2. v * (n + 1) = v * n + v
      OBVIOUS
    <3> QED BY <2>6, <3>1, <3>2
  <2>7. L(s) <= v * Cardinality(s)
    BY <1>2
  <2>8. L(s \cup {x}) <= v * (Cardinality(s) + 1)
    BY <2>1, <2>4, <2>5, <2>6, <2>7
  <2> QED BY <2>2, <2>8
<1>3. S \in T
  <2> HIDE DEF T
  <2> QED BY <1>1, <1>2, SetInduction
<1> QED BY <1>3

\* Sums of the same terms.
LEMMA SumSame ==
    ASSUME NEW S, IsFiniteSet(S), NEW f, NEW g,
           \A x \in S : f[x] \in Int /\ g[x] = f[x]
    PROVE  SumOver(S, f) = SumOver(S, g)
<1> DEFINE T == {s \in SUBSET S : SumOver(s, f) = SumOver(s, g)}
<1>1. {} \in T
  BY SumEmpty
<1>2. ASSUME NEW s \in SUBSET S, NEW x \in S \ s, s \in T
      PROVE  s \cup {x} \in T
  <2>1. IsFiniteSet(s \cup {x}) /\ (s \cup {x}) \ {x} = s
    BY FS_Subset, FS_AddElement
  <2>2. /\ SumOver(s \cup {x}, f) = f[x] + SumOver(s, f)
        /\ SumOver(s \cup {x}, g) = g[x] + SumOver(s, g)
    BY <2>1, SumSplit
  <2> QED BY <1>2, <2>2
<1>3. S \in T
  <2> HIDE DEF T
  <2> QED BY <1>1, <1>2, SetInduction
<1> QED BY <1>3

LEMMA SumNat ==
    ASSUME NEW S, IsFiniteSet(S), NEW f, \A x \in S : f[x] \in Nat
    PROVE  SumOver(S, f) \in Nat
<1> DEFINE T == {s \in SUBSET S : SumOver(s, f) \in Nat}
<1>1. {} \in T
  BY SumEmpty
<1>2. ASSUME NEW s \in SUBSET S, NEW x \in S \ s, s \in T
      PROVE  s \cup {x} \in T
  <2>1. IsFiniteSet(s \cup {x}) /\ (s \cup {x}) \ {x} = s
    BY FS_Subset, FS_AddElement
  <2>2. SumOver(s \cup {x}, f) = f[x] + SumOver(s, f)
    BY <2>1, SumSplit
  <2> QED BY <1>2, <2>2
<1>3. S \in T
  <2> HIDE DEF T
  <2> QED BY <1>1, <1>2, SetInduction
<1> QED BY <1>3

LEMMA SumZero ==
    ASSUME NEW S, IsFiniteSet(S), NEW f, \A x \in S : f[x] = 0
    PROVE  SumOver(S, f) = 0
<1> DEFINE T == {s \in SUBSET S : SumOver(s, f) = 0}
<1>1. {} \in T
  BY SumEmpty
<1>2. ASSUME NEW s \in SUBSET S, NEW x \in S \ s, s \in T
      PROVE  s \cup {x} \in T
  <2>1. IsFiniteSet(s \cup {x}) /\ (s \cup {x}) \ {x} = s
    BY FS_Subset, FS_AddElement
  <2>2. SumOver(s \cup {x}, f) = f[x] + SumOver(s, f)
    BY <2>1, SumSplit
  <2> QED BY <1>2, <2>2
<1>3. S \in T
  <2> HIDE DEF T
  <2> QED BY <1>1, <1>2, SetInduction
<1> QED BY <1>3

-----------------------------------------------------------------------------
(* Rounding and conversion.                                                *)

\* What \div and % give.
LEMMA Quotient ==
    ASSUME NEW n \in Int, NEW m \in Nat \ {0}
    PROVE  /\ n \div m \in Int /\ n % m \in 0 .. m - 1
           /\ n = m * (n \div m) + (n % m)
           /\ n >= 0 => n \div m >= 0
  OBVIOUS

LEMMA ProductNat ==
    ASSUME NEW a \in Nat, NEW b \in Nat
    PROVE  a * b \in Nat /\ (a # 0 /\ b # 0 => a * b # 0)
  OBVIOUS

\* A factor can be dropped on both sides.
LEMMA Cancel ==
    ASSUME NEW q \in Nat \ {0}, NEW x \in Int, NEW y \in Int, q * x <= q * y
    PROVE  x <= y
<1> SUFFICES ASSUME x >= y + 1 PROVE FALSE
  OBVIOUS
<1>1. q * (y + 1) = q * y + q /\ q * y \in Int
  OBVIOUS
<1>2. q * x >= q * (y + 1)
  OBVIOUS
<1> QED BY <1>1, <1>2

\* A rounded amount is off by half a unit at most, and keeps its sign.
LEMMA RoundNear ==
    ASSUME NEW n \in Int, NEW d \in Nat \ {0}, NEW u \in Nat \ {0}, NEW up \in BOOLEAN
    PROVE  /\ Round(n, d, u, up) \in Int
           /\ 2 * (d * Round(n, d, u, up)) <= 2 * n + d * u
           /\ 2 * (d * Round(n, d, u, up)) >= 2 * n - d * u
           /\ n >= 0 => Round(n, d, u, up) >= 0
<1> DEFINE m == d * u
           q == n \div m
           r == n % m
<1>1. m \in Nat \ {0}
  BY ProductNat
<1>2. q \in Int /\ r \in 0 .. m - 1 /\ n = m * q + r /\ (n >= 0 => q >= 0)
  <2> HIDE DEF m
  <2> QED BY <1>1, Quotient
<1>3. Round(n, d, u, up) = u * (IF 2 * r > m \/ (2 * r = m /\ up) THEN q + 1 ELSE q)
  BY DEF Round
<1>4. \A x \in Int : d * (u * x) = m * x
  OBVIOUS
<1>5. m * (q + 1) = m * q + m /\ m * q \in Int
  <2> HIDE DEF m, q
  <2> QED BY <1>1, <1>2
<1>6. \A x \in Int : u * x \in Int /\ (x >= 0 => u * x >= 0)
  OBVIOUS
<1> HIDE DEF m, q, r
<1>7. CASE 2 * r > m \/ (2 * r = m /\ up)
  <2>1. Round(n, d, u, up) = u * (q + 1) /\ q + 1 \in Int
    BY <1>2, <1>3, <1>7
  <2>2. d * Round(n, d, u, up) = m * q + m
    BY <1>4, <1>5, <2>1
  <2>3. 2 * r >= m
    BY <1>1, <1>2, <1>7
  <2>4. Round(n, d, u, up) \in Int /\ (n >= 0 => Round(n, d, u, up) >= 0)
    BY <1>2, <1>6, <2>1
  <2>5. 2 * (d * Round(n, d, u, up)) <= 2 * n + m /\ 2 * (d * Round(n, d, u, up)) >= 2 * n - m
    BY <1>1, <1>2, <1>5, <2>2, <2>3
  <2> QED BY <2>4, <2>5 DEF m
<1>8. CASE ~ (2 * r > m \/ (2 * r = m /\ up))
  <2>1. Round(n, d, u, up) = u * q
    BY <1>3, <1>8
  <2>2. d * Round(n, d, u, up) = m * q
    BY <1>2, <1>4, <2>1
  <2>3. 2 * r <= m
    BY <1>1, <1>2, <1>8
  <2>4. Round(n, d, u, up) \in Int /\ (n >= 0 => Round(n, d, u, up) >= 0)
    BY <1>2, <1>6, <2>1
  <2>5. 2 * (d * Round(n, d, u, up)) <= 2 * n + m /\ 2 * (d * Round(n, d, u, up)) >= 2 * n - m
    BY <1>1, <1>2, <1>5, <2>2, <2>3
  <2> QED BY <2>4, <2>5 DEF m
<1> QED BY <1>7, <1>8

\* A conversion of parts multiplies by Rate / Per, and rounds to whole Steps.
Rate(c, t) == IF Known(c, t) THEN t[c] ELSE 1
Per(c, t) == Grain * (IF Known(c, t) THEN t[Base] ELSE 1)
Step(c, t) == IF Known(c, t) THEN Unit(c) ELSE 1

\* No table divides by zero (currency.js falls back to the amount itself).
LEMMA RatesArePositive ==
    ASSUME NEW t \in Tables, NEW c \in DOMAIN Fallback
    PROVE  /\ Rate(c, t) \in Nat \ {0} /\ Per(c, t) \in Nat \ {0} /\ Grain \in Nat \ {0}
           /\ Step(c, t) \in Nat \ {0} /\ Unit(c) \in Nat \ {0} /\ Step(c, t) <= Unit(c)
<1>1. t \in [DOMAIN Fallback -> Nat] /\ t[Base] > 0 /\ Base \in DOMAIN Fallback /\ Grain \in Nat \ {0}
  BY MoneyAssumption
<1>2. t[c] \in Nat /\ t[Base] \in Nat
  BY <1>1
<1> DEFINE q == IF Known(c, t) THEN t[Base] ELSE 1
<1>3. q \in Nat \ {0}
  BY <1>1, <1>2
<1>4. Per(c, t) \in Nat \ {0}
  <2>1. Per(c, t) = Grain * q
    BY DEF Per
  <2> HIDE DEF q
  <2> QED BY <1>1, <1>3, <2>1, ProductNat
<1> QED BY <1>1, <1>2, <1>4 DEF Rate, Step, Unit, Known

\* A conversion is off by half a unit, and exact for whole hundredths
\* without a rate.
LEMMA ConvertedNear ==
    ASSUME NEW n \in Int, NEW c \in DOMAIN Fallback, NEW t \in Tables, NEW up \in BOOLEAN
    PROVE  /\ Converted(n, c, t, up) \in Int
           /\ 2 * (Per(c, t) * Converted(n, c, t, up)) <= 2 * (n * Rate(c, t)) + Per(c, t) * Step(c, t)
           /\ 2 * (Per(c, t) * Converted(n, c, t, up)) >= 2 * (n * Rate(c, t)) - Per(c, t) * Step(c, t)
           /\ n >= 0 => Converted(n, c, t, up) >= 0
<1> DEFINE P == Rate(c, t)
           Q == Per(c, t)
           V == Step(c, t)
<1>1. P \in Nat \ {0} /\ Q \in Nat \ {0} /\ V \in Nat \ {0} /\ Grain \in Nat \ {0}
  BY RatesArePositive
<1>2. Converted(n, c, t, up) = Round(n * P, Q, V, up)
  <2>1. CASE Known(c, t)
    BY <2>1 DEF Converted, Rate, Per, Step
  <2>2. CASE ~ Known(c, t)
    <3>1. n * 1 = n /\ Grain * 1 = Grain
      BY <1>1
    <3>2. Unit(Base) = 1
      BY MoneyAssumption DEF Unit
    <3> QED BY <2>2, <3>1, <3>2 DEF Converted, Rate, Per, Step
  <2> QED BY <2>1, <2>2
<1>3. n * P \in Int /\ (n >= 0 => n * P >= 0)
  <2> HIDE DEF P
  <2> QED BY <1>1
<1> HIDE DEF P, Q, V
<1>4. /\ Round(n * P, Q, V, up) \in Int
      /\ 2 * (Q * Round(n * P, Q, V, up)) <= 2 * (n * P) + Q * V
      /\ 2 * (Q * Round(n * P, Q, V, up)) >= 2 * (n * P) - Q * V
      /\ n * P >= 0 => Round(n * P, Q, V, up) >= 0
  BY <1>1, <1>3, RoundNear
<1> QED BY <1>2, <1>3, <1>4 DEF P, Q, V

LEMMA ConvertedExact ==
    ASSUME NEW m \in Int, NEW c \in DOMAIN Fallback, NEW t \in Tables, NEW up \in BOOLEAN, ~ Known(c, t)
    PROVE  Converted(Grain * m, c, t, up) = m
<1>1. Grain \in Nat \ {0} /\ Unit(Base) = 1
  BY MoneyAssumption DEF Unit
<1>2. Grain * m \in Int
  BY <1>1
<1> DEFINE n == Grain * m
           x == Round(n, Grain, 1, up)
<1>3. Converted(n, c, t, up) = x
  BY <1>1 DEF Converted
<1>4. x \in Int /\ 2 * (Grain * x) <= 2 * n + Grain * 1 /\ 2 * (Grain * x) >= 2 * n - Grain * 1
  <2>1. n \in Int /\ 1 \in Nat \ {0}
    BY <1>2
  <2> HIDE DEF n
  <2> QED BY <1>1, <2>1, RoundNear
<1> HIDE DEF x
<1>5. Grain * (2 * x) <= Grain * (2 * m + 1) /\ Grain * (2 * m) <= Grain * (2 * x + 1)
  <2>1. /\ Grain * (2 * x) = 2 * (Grain * x) /\ Grain * (2 * m + 1) = 2 * (Grain * m) + Grain
        /\ Grain * (2 * m) = 2 * (Grain * m) /\ Grain * (2 * x + 1) = 2 * (Grain * x) + Grain
        /\ Grain * x \in Int
    BY <1>1, <1>4
  <2> QED BY <1>1, <1>2, <1>4, <2>1
<1>6. 2 * x <= 2 * m + 1 /\ 2 * m <= 2 * x + 1
  <2>1. 2 * x \in Int /\ 2 * m + 1 \in Int /\ 2 * m \in Int /\ 2 * x + 1 \in Int
    BY <1>4
  <2> QED BY <1>1, <1>5, <2>1, Cancel
<1> QED BY <1>3, <1>4, <1>6

-----------------------------------------------------------------------------
(* The split of a basket.                                                  *)

\* What the validators make sure of.
LEMMA BasketAmounts ==
    ASSUME NEW b, IsBasket(b)
    PROVE  /\ Groups(b) # {} /\ IsFiniteSet(Groups(b)) /\ Cardinality(Groups(b)) \in Nat \ {0}
           /\ DOMAIN Subtotals(b) = Groups(b) /\ \A g \in Groups(b) : Subtotals(b)[g] \in Nat
           /\ CartSubtotal(b) \in Nat /\ \A g \in Groups(b) : Subtotals(b)[g] <= CartSubtotal(b)
           /\ \A n \in Nat : ShippingFee(b, n) \in Nat
<1>1. Groups(b) # {} /\ IsFiniteSet(Groups(b))
  BY DEF IsBasket
<1>2. Cardinality(Groups(b)) \in Nat \ {0}
  BY <1>1, FS_CardinalityType, FS_EmptySet
<1>3. \A g \in Groups(b) : Subtotals(b)[g] \in Nat
  BY DEF IsBasket, Subtotals
<1>4. CartSubtotal(b) \in Nat
  BY <1>1, <1>3, SumNat DEF CartSubtotal
<1>5. \A n \in Nat : ShippingFee(b, n) \in Nat
  <2>1. Grain \in Nat /\ b.fee \in Nat
    BY MoneyAssumption DEF IsBasket
  <2>2. Grain * b.fee \in Nat
    BY <2>1, ProductNat
  <2> QED BY <2>2 DEF ShippingFee
<1>6. ASSUME NEW g \in Groups(b)
      PROVE  Subtotals(b)[g] <= CartSubtotal(b)
  <2> DEFINE G == Groups(b)
             sub == Subtotals(b)
             R == G \ {g}
  <2>1. IsFiniteSet(R) /\ \A h \in R : sub[h] \in Nat
    BY <1>1, <1>3, FS_RemoveElement
  <2>2. SumOver(R, sub) \in Nat
    <3> HIDE DEF R, sub
    <3> QED BY <2>1, SumNat
  <2>3. SumOver(G, sub) = sub[g] + SumOver(R, sub)
    <3>1. \A h \in G : sub[h] \in Int
      BY <1>3
    <3> HIDE DEF sub
    <3> QED BY <1>1, <3>1, SumSplit
  <2> QED BY <1>3, <2>2, <2>3 DEF CartSubtotal
<1> QED BY <1>1, <1>2, <1>3, <1>4, <1>5, <1>6 DEF Subtotals

\* The least of a few numbers is one of them, and none is less.
LEMMA LeastIs ==
    ASSUME NEW S \in SUBSET Int, \E n \in S : \A m \in S : n <= m
    PROVE  Least(S) \in S /\ \A m \in S : Least(S) <= m
  BY DEF Least

\* A discount of d: never less than zero, or more than the cart but for its
\* rounding.
IsDiscount(d, b) == d \in Nat /\ 2 * (Grain * d) <= 2 * CartSubtotal(b) + Grain

\* validateCoupon gives one.
LEMMA DiscountBounds ==
    ASSUME NEW b, IsBasket(b), NEW up \in BOOLEAN
    PROVE  IsDiscount(Discount(b, up), b)
<1> DEFINE S == CartSubtotal(b)
           c == b.coupon
           asked == IF c.type = "percentage" THEN S * c.value ELSE 100 * c.value
           C == Limits(b)
           h == 100 * Grain
           d == Discount(b, up)
<1>1. S \in Nat /\ c.value \in Nat /\ c.max \in Nat /\ Grain \in Nat \ {0}
  BY BasketAmounts, MoneyAssumption DEF IsBasket
<1>2. asked \in Nat
  <2>1. S * c.value \in Nat
    <3> HIDE DEF S, c
    <3> QED BY <1>1, ProductNat
  <2> HIDE DEF S, c
  <2> QED BY <1>1, <2>1
<1>3. C \subseteq Nat /\ 100 * S \in C /\ \E n \in C : \A m \in C : n <= m
  <2>0. C = {asked, 100 * S} \cup (IF c.max > 0 THEN {100 * c.max} ELSE {})
    BY DEF Limits
  <2> HIDE DEF S, c, asked, C
  <2>1. \A x, y \in Nat : \E n \in {x, y} : \A m \in {x, y} : n <= m
    OBVIOUS
  <2>2. \A x, y, z \in Nat : \E n \in {x, y, z} : \A m \in {x, y, z} : n <= m
    OBVIOUS
  <2>3. C = {asked, 100 * S} \/ C = {asked, 100 * S, 100 * c.max}
    BY <2>0
  <2>4. C \subseteq Nat /\ 100 * S \in C /\ 100 * S \in Nat /\ 100 * c.max \in Nat
    BY <1>1, <1>2, <2>3
  <2> QED BY <1>2, <2>1, <2>2, <2>3, <2>4
<1>4. d = Round(Least(C), h, 1, up)
  BY DEF Discount
<1> HIDE DEF C, asked, c
<1>5. Least(C) \in C /\ \A m \in C : Least(C) <= m
  <2>1. C \in SUBSET Int
    BY <1>3
  <2> QED BY <1>3, <2>1, LeastIs
<1>6. Least(C) \in Nat /\ Least(C) <= 100 * S
  BY <1>3, <1>5
<1>7. h \in Nat \ {0}
  BY <1>1
<1> HIDE DEF h, d
<1>8. d \in Nat /\ 2 * (h * d) <= 2 * Least(C) + h * 1
  <2> DEFINE n == Least(C)
  <2>1. d = Round(n, h, 1, up) /\ n \in Int /\ n >= 0 /\ 1 \in Nat \ {0}
    BY <1>4, <1>6
  <2> HIDE DEF n
  <2>2. /\ Round(n, h, 1, up) \in Int /\ Round(n, h, 1, up) >= 0
        /\ 2 * (h * Round(n, h, 1, up)) <= 2 * n + h * 1
    BY <1>7, <2>1, RoundNear
  <2> QED BY <2>1, <2>2 DEF n
<1>9. h * d = 100 * (Grain * d) /\ Grain * d \in Int
  BY <1>1, <1>8 DEF h
<1>10. 2 * (Grain * d) <= 2 * S + Grain
  <2> HIDE DEF S
  <2> QED BY <1>1, <1>6, <1>8, <1>9 DEF h
<1> QED BY <1>8, <1>10 DEF IsDiscount, d

\* The parts of a discount d add up to it, and differ from their due by the
\* rounding of the others.
SplitOf(parts, b, d) ==
    LET n == Cardinality(Groups(b))
        S == CartSubtotal(b)
    IN  /\ SumOver(Groups(b), parts) = d
        /\ \A g \in Groups(b) :
              /\ parts[g] \in Int
              /\ 2 * (parts[g] * S - Subtotals(b)[g] * d) <= (n - 1) * S
              /\ 2 * (Subtotals(b)[g] * d - parts[g] * S) <= (n - 1) * S

\* A group's share of a discount is off by half a hundredth.
LEMMA ShareNear ==
    ASSUME NEW b, IsBasket(b), NEW d, IsDiscount(d, b), d # 0, NEW g \in Groups(b), NEW up \in BOOLEAN
    PROVE  LET S == CartSubtotal(b)
               x == Share(b, d, g, up)
           IN  /\ x \in Int /\ S \in Nat \ {0}
               /\ 2 * (S * x - Subtotals(b)[g] * d) <= S
               /\ 2 * (Subtotals(b)[g] * d - S * x) <= S
<1> DEFINE S == CartSubtotal(b)
           s == Subtotals(b)[g]
           x == Share(b, d, g, up)
<1>1. S \in Nat \ {0} /\ s \in Nat /\ d \in Nat
  <2>1. S \in Nat /\ s \in Nat /\ d \in Nat /\ 2 * (Grain * d) <= 2 * S + Grain
    BY BasketAmounts DEF IsDiscount
  <2>2. ASSUME S = 0 PROVE FALSE
    <3>1. Grain \in Nat \ {0} /\ d \in Nat \ {0}
      BY <2>1, MoneyAssumption
    <3>2. Grain * d >= Grain /\ Grain * d \in Nat
      BY <3>1
    <3> HIDE DEF S
    <3> QED BY <2>1, <2>2, <3>1, <3>2
  <2> QED BY <2>1, <2>2
<1>2. x = Round(s * d, S, 1, up)
  BY DEF Share
<1> HIDE DEF S, s, x
<1>3. s * d \in Nat
  BY <1>1, ProductNat
<1>4. x \in Int /\ 2 * (S * x) <= 2 * (s * d) + S * 1 /\ 2 * (S * x) >= 2 * (s * d) - S * 1
  BY <1>1, <1>2, <1>3, RoundNear
<1>5. S * x \in Int
  BY <1>1, <1>4
<1>6. 2 * (S * x - s * d) <= S /\ 2 * (s * d - S * x) <= S
  BY <1>1, <1>3, <1>4, <1>5
<1> QED BY <1>1, <1>4, <1>6 DEF S, s, x

\* allocateProportionally: the shares of the others are each off by half a
\* hundredth, so the last group is off by as many halves.
LEMMA AllocationSplits ==
    ASSUME NEW b, IsBasket(b), NEW d, IsDiscount(d, b), NEW last \in Groups(b), NEW up \in BOOLEAN
    PROVE  /\ DOMAIN Allocation(b, d, last, up) = Groups(b)
           /\ SplitOf(Allocation(b, d, last, up), b, d)
<1> DEFINE G == Groups(b)
           S == CartSubtotal(b)
           n == Cardinality(G)
           sub == Subtotals(b)
           shares == EachItsShare(b, d, last, up)
           R == G \ {last}
           a == Allocation(b, d, last, up)
<1>1. /\ IsFiniteSet(G) /\ G # {} /\ n \in Nat \ {0} /\ S \in Nat /\ d \in Nat
      /\ \A g \in G : sub[g] \in Nat
  BY BasketAmounts DEF IsDiscount
<1>2. IsFiniteSet(R) /\ Cardinality(R) = n - 1
  BY <1>1, FS_RemoveElement
<1>3. CASE d = 0
  <2>1. a = [g \in G |-> 0]
    BY <1>3 DEF Allocation
  <2>2. SumOver(G, a) = 0
    BY <1>1, <2>1, SumZero
  <2>3. (n - 1) * S \in Nat
    <3> HIDE DEF S, n
    <3>1. n - 1 \in Nat
      BY <1>1
    <3> QED BY <1>1, <3>1, ProductNat
  <2>4. \A g \in G : a[g] = 0 /\ a[g] * S = 0 /\ sub[g] * d = 0
    <3> HIDE DEF a, S, sub
    <3> QED BY <1>1, <1>3, <2>1
  <2>5. \A g \in G : 2 * (a[g] * S - sub[g] * d) <= (n - 1) * S /\ 2 * (sub[g] * d - a[g] * S) <= (n - 1) * S
    <3> HIDE DEF a, S, sub, n
    <3> QED BY <2>3, <2>4
  <2> QED BY <1>3, <2>1, <2>2, <2>4, <2>5 DEF SplitOf
<1>4. CASE d # 0
  <2>1. /\ a = [shares EXCEPT ![last] = d - SumOver(R, shares)] /\ DOMAIN shares = G
        /\ \A g \in G : shares[g] = Share(b, d, g, up)
    BY <1>4 DEF Allocation, EachItsShare
  <2>2. \A g \in G : /\ shares[g] \in Int /\ S \in Nat \ {0}
                     /\ 2 * (S * shares[g] - sub[g] * d) <= S
                     /\ 2 * (sub[g] * d - S * shares[g]) <= S
    <3> TAKE g \in G
    <3>1. shares[g] = Share(b, d, g, up)
      BY <2>1
    <3> HIDE DEF shares
    <3> QED BY <1>4, <3>1, ShareNear
  <2> DEFINE others == SumOver(R, shares)
             theirs == SumOver(R, sub)
  <2> HIDE DEF shares, a
  <2>3. others \in Int /\ theirs \in Int
    BY <1>1, <1>2, <2>2, SumInt
  <2>4. DOMAIN a = G /\ a[last] = d - others /\ \A g \in R : a[g] = shares[g]
    BY <2>1
  <2>5. SumOver(G, a) = d
    <3>1. \A g \in G : a[g] \in Int
      BY <1>1, <2>2, <2>3, <2>4
    <3>2. SumOver(G, a) = a[last] + SumOver(R, a)
      BY <1>1, <3>1, SumSplit
    <3>3. others = SumOver(R, a)
      BY <1>2, <2>2, <2>4, SumSame
    <3> QED BY <1>1, <2>3, <2>4, <3>2, <3>3
  <2>6. S = sub[last] + theirs
    <3>1. SumOver(G, sub) = sub[last] + SumOver(R, sub)
      BY <1>1, SumSplit
    <3> QED BY <3>1 DEF CartSubtotal
  <2> DEFINE p == 2 * S
             q == -(2 * d)
             zero == 0
  <2>7. p * others + q * theirs + zero * theirs <= S * Cardinality(R)
    <3>1. p \in Int /\ -p \in Int /\ q \in Int /\ -q \in Int /\ zero \in Int /\ S \in Int
      BY <1>1
    <3>2. \A g \in R : shares[g] \in Int /\ sub[g] \in Int
      BY <1>1, <2>2
    <3>3. \A g \in R : p * shares[g] + q * sub[g] + zero * sub[g] <= S
      <4> TAKE g \in R
      <4>1. 2 * (S * shares[g] - sub[g] * d) <= S /\ shares[g] \in Int /\ sub[g] \in Int
        BY <1>1, <2>2
      <4>2. p * shares[g] = 2 * (S * shares[g]) /\ q * sub[g] = -(2 * (sub[g] * d)) /\ zero * sub[g] = 0
        <5> HIDE DEF S, sub
        <5> QED BY <1>1, <4>1
      <4>3. S * shares[g] \in Int /\ sub[g] * d \in Int
        <5> HIDE DEF S, sub
        <5> QED BY <1>1, <4>1
      <4> HIDE DEF p, q, zero, S, sub
      <4> QED BY <1>1, <4>1, <4>2, <4>3
    <3> HIDE DEF p, q, zero, S, sub, R
    <3> QED BY <1>2, <3>1, <3>2, <3>3, SumWithin
  <2>8. (-p) * others + (-q) * theirs + zero * theirs <= S * Cardinality(R)
    <3> DEFINE pp == -p
               qq == -q
    <3>1. pp \in Int /\ qq \in Int /\ zero \in Int /\ S \in Int
      BY <1>1
    <3>2. \A g \in R : shares[g] \in Int /\ sub[g] \in Int
      BY <1>1, <2>2
    <3>3. \A g \in R : pp * shares[g] + qq * sub[g] + zero * sub[g] <= S
      <4> TAKE g \in R
      <4>1. 2 * (sub[g] * d - S * shares[g]) <= S /\ shares[g] \in Int /\ sub[g] \in Int
        BY <1>1, <2>2
      <4>2. pp * shares[g] = -(2 * (S * shares[g])) /\ qq * sub[g] = 2 * (sub[g] * d) /\ zero * sub[g] = 0
        <5> HIDE DEF S, sub
        <5> QED BY <1>1, <4>1
      <4>3. S * shares[g] \in Int /\ sub[g] * d \in Int
        <5> HIDE DEF S, sub
        <5> QED BY <1>1, <4>1
      <4> HIDE DEF pp, qq, zero, S, sub
      <4> QED BY <1>1, <4>1, <4>2, <4>3
    <3>4. pp * others + qq * theirs + zero * theirs <= S * Cardinality(R)
      <4> HIDE DEF pp, qq, zero, S, sub, R
      <4> QED BY <1>2, <3>1, <3>2, <3>3, SumWithin
    <3> QED BY <3>4
  <2>9. a[last] * S - sub[last] * d = d * theirs - S * others
    <3>1. ASSUME NEW o \in Int, NEW w \in Int, NEW s \in Int, NEW e \in Int
          PROVE  (e - o) * (s + w) - s * e = e * w - (s + w) * o
      OBVIOUS
    <3> HIDE DEF S, sub, others, theirs
    <3> QED BY <1>1, <2>3, <2>4, <2>6, <3>1
  <2>10. 2 * (a[last] * S - sub[last] * d) <= (n - 1) * S /\ 2 * (sub[last] * d - a[last] * S) <= (n - 1) * S
    <3> DEFINE dw == d * theirs
               So == S * others
    <3>1. dw \in Int /\ So \in Int /\ S * (n - 1) = (n - 1) * S /\ (n - 1) * S \in Int
      <4> HIDE DEF S, others, theirs, n
      <4> QED BY <1>1, <2>3
    <3>2. /\ p * others + q * theirs + zero * theirs = 2 * So - 2 * dw
          /\ (-p) * others + (-q) * theirs + zero * theirs = 2 * dw - 2 * So
      <4> HIDE DEF S, others, theirs
      <4> QED BY <1>1, <2>3
    <3>3. 2 * So - 2 * dw <= (n - 1) * S /\ 2 * dw - 2 * So <= (n - 1) * S
      BY <1>2, <2>7, <2>8, <3>1, <3>2
    <3>4. a[last] * S \in Int /\ sub[last] * d \in Int /\ a[last] * S - sub[last] * d = dw - So
      <4>1. a[last] \in Int /\ sub[last] \in Int
        BY <1>1, <2>3, <2>4
      <4> HIDE DEF S, sub, others, theirs
      <4> QED BY <1>1, <2>9, <4>1
    <3> HIDE DEF dw, So, S, sub, n
    <3> QED BY <3>1, <3>3, <3>4
  <2>11. ASSUME NEW g \in R
         PROVE  2 * (a[g] * S - sub[g] * d) <= (n - 1) * S /\ 2 * (sub[g] * d - a[g] * S) <= (n - 1) * S
    <3>1. n - 1 \in Nat \ {0}
      BY <1>1, <1>2, FS_EmptySet
    <3>2. S <= (n - 1) * S
      <4> HIDE DEF S, n
      <4>1. \A x \in Nat : x * S \in Nat /\ (x + 1) * S = x * S + S
        BY <1>1
      <4>2. n - 2 \in Nat /\ (n - 2) + 1 = n - 1
        BY <1>1, <3>1
      <4>3. (n - 1) * S = (n - 2) * S + S /\ (n - 2) * S \in Nat
        BY <4>1, <4>2
      <4> QED BY <1>1, <4>3
    <3>3. a[g] * S = S * shares[g] /\ S * shares[g] \in Int /\ sub[g] * d \in Int
      <4>1. a[g] = shares[g] /\ shares[g] \in Int /\ sub[g] \in Int
        BY <1>1, <2>2, <2>4
      <4> HIDE DEF S, sub
      <4> QED BY <1>1, <4>1
    <3>4. 2 * (S * shares[g] - sub[g] * d) <= S /\ 2 * (sub[g] * d - S * shares[g]) <= S
      BY <2>2
    <3>5. (n - 1) * S \in Int
      <4> HIDE DEF S, n
      <4> QED BY <1>1
    <3> HIDE DEF S, n, sub
    <3> QED BY <1>1, <3>2, <3>3, <3>4, <3>5
  <2>12. \A g \in G : a[g] \in Int
    BY <1>1, <2>2, <2>3, <2>4
  <2> QED BY <2>4, <2>5, <2>10, <2>11, <2>12 DEF SplitOf, a
<1> QED BY <1>3, <1>4

\* No part exceeds its subtotal by more than the rounding of the whole and of
\* the others.
LEMMA PartsWithin ==
    ASSUME NEW b, IsBasket(b), NEW d, IsDiscount(d, b), NEW parts, SplitOf(parts, b, d),
           CartSubtotal(b) = 0 => \A g \in Groups(b) : parts[g] = 0, NEW g \in Groups(b)
    PROVE  2 * (Grain * parts[g] - Subtotals(b)[g]) <= Cardinality(Groups(b)) * Grain
<1> DEFINE S == CartSubtotal(b)
           n == Cardinality(Groups(b))
           s == Subtotals(b)[g]
           a == parts[g]
<1> SUFFICES 2 * (Grain * a - s) <= n * Grain
  OBVIOUS
<1>1. /\ n \in Nat \ {0} /\ S \in Nat /\ s \in Nat /\ s <= S /\ a \in Int
      /\ d \in Nat /\ 2 * (Grain * d) <= 2 * S + Grain /\ Grain \in Nat \ {0}
  BY BasketAmounts, MoneyAssumption DEF SplitOf, IsDiscount
<1>2. 2 * (a * S - s * d) <= (n - 1) * S
  BY DEF SplitOf
<1>3. S = 0 => a = 0
  OBVIOUS
<1> HIDE DEF S, n, s, a
<1>4. CASE S = 0
  <2>1. n * Grain \in Nat /\ Grain * 0 = 0
    BY <1>1, ProductNat
  <2> QED BY <1>1, <1>3, <1>4, <2>1
<1>5. CASE S # 0
  <2>1. s * (2 * (Grain * d)) <= s * (2 * S + Grain)
    <3>1. PICK e \in Nat : 2 * S + Grain = 2 * (Grain * d) + e
      <4>1. Grain * d \in Nat
        BY <1>1, ProductNat
      <4>2. (2 * S + Grain) - 2 * (Grain * d) \in Nat
        BY <1>1, <4>1
      <4>3. 2 * S + Grain = 2 * (Grain * d) + ((2 * S + Grain) - 2 * (Grain * d))
        BY <1>1, <4>1
      <4> QED BY <4>2, <4>3
    <3> DEFINE u == 2 * (Grain * d)
    <3>2. u \in Nat
      BY <1>1
    <3> HIDE DEF u
    <3>3. s * (u + e) = s * u + s * e /\ s * e \in Nat /\ s * u \in Nat
      BY <1>1, <3>2
    <3> QED BY <3>1, <3>3 DEF u
  <2>2. Grain * s <= Grain * S
    <3>1. PICK e \in Nat : S = s + e
      <4>1. S - s \in Nat /\ S = s + (S - s)
        BY <1>1
      <4> QED BY <4>1
    <3>2. Grain * (s + e) = Grain * s + Grain * e /\ Grain * e \in Nat /\ Grain * s \in Nat
      BY <1>1
    <3> QED BY <3>1, <3>2
  <2>3. Grain * (2 * (a * S - s * d)) <= Grain * ((n - 1) * S)
    <3> DEFINE i == 2 * (a * S - s * d)
               j == (n - 1) * S
    <3>1. i \in Int /\ j \in Int /\ i <= j
      BY <1>1, <1>2
    <3> HIDE DEF i, j
    <3>2. j - i \in Nat /\ j = i + (j - i)
      BY <3>1
    <3>3. Grain * j = Grain * i + Grain * (j - i) /\ Grain * (j - i) \in Nat /\ Grain * i \in Int
      BY <1>1, <3>1, <3>2
    <3>4. Grain * i <= Grain * j
      BY <3>3
    <3> QED BY <3>4 DEF i, j
  <2> DEFINE GaS == Grain * (a * S)
             Gsd == Grain * (s * d)
             sS == s * S
             GS == Grain * S
             nGS == n * (Grain * S)
  <2>4. GaS \in Int /\ Gsd \in Int /\ sS \in Int /\ GS \in Int /\ nGS \in Int /\ Grain * s \in Int
    BY <1>1
  <2>5. /\ s * (2 * (Grain * d)) = 2 * Gsd /\ s * (2 * S + Grain) = 2 * sS + Grain * s
        /\ Grain * (2 * (a * S - s * d)) = 2 * GaS - 2 * Gsd
        /\ Grain * ((n - 1) * S) = nGS - GS
    BY <1>1
  <2>6. 2 * GaS - 2 * sS <= nGS
    <3> HIDE DEF GaS, Gsd, sS, nGS
    <3> QED BY <1>1, <2>1, <2>2, <2>3, <2>4, <2>5
  <2>7. S * (2 * (Grain * a) - 2 * s) = 2 * GaS - 2 * sS /\ S * (n * Grain) = nGS
    BY <1>1
  <2>8. 2 * (Grain * a) - 2 * s <= n * Grain
    <3> DEFINE i == 2 * (Grain * a) - 2 * s
               j == n * Grain
    <3>1. i \in Int /\ j \in Int /\ S * i <= S * j
      BY <1>1, <2>6, <2>7
    <3> HIDE DEF i, j
    <3>2. i <= j
      BY <1>1, <1>5, <3>1, Cancel
    <3> QED BY <3>2 DEF i, j
  <2>9. Grain * a \in Int
    BY <1>1
  <2> QED BY <1>1, <2>8, <2>9
<1> QED BY <1>4, <1>5

-----------------------------------------------------------------------------
(* The amounts of one order.                                               *)

\* An order of group g as Order makes it, with the rates t.
TotalledOrder(o, b, g, t, up) ==
    LET in(n) == Converted(n, b.currency, t, up) IN
    /\ o.subtotal = in(Subtotals(b)[g])
    /\ o.shipping = in(ShippingFee(b, Subtotals(b)[g]))
    /\ o.discount = in(Grain * o.base)
    /\ o.total = in(Clipped(Subtotals(b)[g] + ShippingFee(b, Subtotals(b)[g]) - Grain * o.base))
    /\ o.commission = Commission(g, o.subtotal, o.shipping, o.discount, up)

\* What takes a bound to amounts that are clipped keeps it.
LEMMA ClippedWithin ==
    ASSUME NEW p \in Nat, NEW q \in Nat, NEW x \in Int, NEW y \in Int, NEW e \in Nat, p * x <= q * y + e
    PROVE  p * Clipped(x) <= q * Clipped(y) + e
<1>1. q * Clipped(y) \in Nat /\ q * y <= q * Clipped(y) /\ Clipped(y) \in Nat
  <2>1. CASE y < 0
    <3>1. Clipped(y) = 0 /\ q * 0 = 0
      BY <2>1 DEF Clipped
    <3>2. PICK z \in Nat : y = -z
      <4>1. -y \in Nat /\ y = -(-y)
        BY <2>1
      <4> QED BY <4>1
    <3>3. q * (-z) = -(q * z) /\ q * z \in Nat
      OBVIOUS
    <3> QED BY <3>1, <3>2, <3>3
  <2>2. CASE y >= 0
    <3>1. Clipped(y) = y /\ y \in Nat
      BY <2>2 DEF Clipped
    <3> QED BY <3>1, ProductNat
  <2> QED BY <2>1, <2>2
<1>2. CASE x < 0
  <2>1. Clipped(x) = 0 /\ p * 0 = 0
    BY <1>2 DEF Clipped
  <2> QED BY <1>1, <2>1
<1>3. CASE x >= 0
  <2>1. Clipped(x) = x
    BY <1>3 DEF Clipped
  <2>2. p * x \in Int /\ q * y \in Int
    OBVIOUS
  <2> QED BY <1>1, <2>1, <2>2
<1> QED BY <1>2, <1>3

\* The amounts are numbers; without a rate the discount is the group's part.
LEMMA OrderAmounts ==
    ASSUME NEW b, IsBasket(b), NEW g \in Groups(b), NEW t \in Tables, NEW up \in BOOLEAN,
           NEW o, o.base \in Int, TotalledOrder(o, b, g, t, up)
    PROVE  /\ {o.subtotal, o.shipping, o.discount, o.total} \subseteq Int
           /\ o.total >= 0
           /\ ~ Known(b.currency, t) => o.discount = o.base
<1> DEFINE s == Subtotals(b)[g]
           f == ShippingFee(b, s)
           a == Grain * o.base
           y == Clipped(s + f - a)
<1>1. s \in Nat /\ f \in Nat /\ a \in Int /\ b.currency \in DOMAIN Fallback
  BY BasketAmounts, MoneyAssumption DEF IsBasket
<1>2. /\ o.subtotal = Converted(s, b.currency, t, up) /\ o.shipping = Converted(f, b.currency, t, up)
      /\ o.discount = Converted(a, b.currency, t, up) /\ o.total = Converted(y, b.currency, t, up)
  BY DEF TotalledOrder
<1>3. ASSUME ~ Known(b.currency, t)
      PROVE  o.discount = o.base
  <2>1. o.discount = Converted(Grain * o.base, b.currency, t, up)
    BY <1>2
  <2> HIDE DEF a
  <2> QED BY <1>1, <1>3, <2>1, ConvertedExact
<1> HIDE DEF s, f, a
<1>4. y \in Nat
  BY <1>1 DEF Clipped
<1>5. /\ Converted(s, b.currency, t, up) \in Int /\ Converted(f, b.currency, t, up) \in Int
      /\ Converted(a, b.currency, t, up) \in Int
  BY <1>1, ConvertedNear
<1>6. Converted(y, b.currency, t, up) \in Int /\ Converted(y, b.currency, t, up) >= 0
  <2> HIDE DEF y
  <2>1. y \in Int /\ y >= 0
    BY <1>4
  <2> QED BY <1>1, <2>1, ConvertedNear
<1> QED BY <1>2, <1>3, <1>5, <1>6

\* In the base currency the subtotal is that of the products, rounded.
LEMMA SubtotalNear ==
    ASSUME NEW b, IsBasket(b), NEW g \in Groups(b), NEW t \in Tables, NEW up \in BOOLEAN,
           NEW o, o.base \in Int, TotalledOrder(o, b, g, t, up), b.currency = Base
    PROVE  2 * Abs(Grain * o.subtotal - Subtotals(b)[g]) <= Grain
<1> DEFINE c == b.currency
           s == Subtotals(b)[g]
           w == o.subtotal
<1>1. s \in Nat /\ c \in DOMAIN Fallback /\ Grain \in Nat \ {0} /\ w \in Int
  BY BasketAmounts, OrderAmounts, MoneyAssumption DEF IsBasket
<1>2. Rate(c, t) = 1 /\ Per(c, t) = Grain * 1 /\ Step(c, t) = 1
  BY DEF Rate, Per, Step, Known
<1>3. w = Converted(s, c, t, up)
  BY DEF TotalledOrder
<1> HIDE DEF s, c, w
<1>4. /\ 2 * (Per(c, t) * w) <= 2 * (s * Rate(c, t)) + Per(c, t) * Step(c, t)
      /\ 2 * (Per(c, t) * w) >= 2 * (s * Rate(c, t)) - Per(c, t) * Step(c, t)
  BY <1>1, <1>3, ConvertedNear
<1> DEFINE Gw == Grain * w
<1>5. Per(c, t) * w = Gw /\ s * Rate(c, t) = s /\ Per(c, t) * Step(c, t) = Grain /\ Gw \in Int
  BY <1>1, <1>2
<1> HIDE DEF Gw
<1>6. 2 * Abs(Gw - s) <= Grain
  BY <1>1, <1>4, <1>5 DEF Abs
<1> QED BY <1>6 DEF Gw, s, w

\* A number that Grain divides.
IsWhole(n) == \E m \in Int : n = Grain * m

\* Where there is nothing to round, all is whole hundredths.
LEMMA WholeAmounts ==
    ASSUME NEW b, IsBasket(b), NothingToRound(b), NEW g \in Groups(b), NEW a \in Int
    PROVE  LET s == Subtotals(b)[g] IN
           /\ IsWhole(s) /\ IsWhole(ShippingFee(b, s))
           /\ IsWhole(Clipped(s + ShippingFee(b, s) - Grain * a))
<1> DEFINE s == Subtotals(b)[g]
           f == ShippingFee(b, s)
           u == b.lines[g].unit
           n == b.lines[g].qty
<1>1. Grain \in Nat \ {0} /\ u \in Nat /\ n \in Nat /\ b.fee \in Nat /\ u % Grain = 0 /\ s = u * n
  BY MoneyAssumption DEF IsBasket, NothingToRound, Subtotals
<1> HIDE DEF u, n
<1>2. PICK m \in Int : u = Grain * m
  <2>1. u \div Grain \in Int /\ u = Grain * (u \div Grain) + (u % Grain)
    BY <1>1, Quotient
  <2> DEFINE q == u \div Grain
  <2>2. q \in Int /\ Grain * q \in Int /\ u = Grain * q + (u % Grain)
    <3>1. q \in Int
      BY <2>1
    <3>2. Grain * q \in Int
      <4> HIDE DEF q
      <4> QED BY <1>1, <3>1
    <3> QED BY <2>1, <3>1, <3>2
  <2> HIDE DEF q
  <2>3. u = Grain * q
    BY <1>1, <2>2
  <2> QED BY <2>2, <2>3
<1>3. s = Grain * (m * n) /\ m * n \in Int
  BY <1>1, <1>2
<1>4. PICK e \in Int : f = Grain * e
  <2>1. f = Grain * b.fee \/ f = Grain * 0
    <3>1. Grain * 0 = 0
      BY <1>1
    <3> HIDE DEF s
    <3>2. f = 0 \/ f = Grain * b.fee
      BY Zenon DEF ShippingFee
    <3> HIDE DEF f
    <3> QED BY <3>1, <3>2
  <2>2. b.fee \in Int /\ 0 \in Int
    BY <1>1
  <2> HIDE DEF f
  <2> QED BY Zenon, <2>1, <2>2
<1> DEFINE y == s + f - Grain * a
<1>5. y = Grain * (m * n + e - a) /\ m * n + e - a \in Int
  <2> DEFINE k == m * n
  <2>1. k \in Int /\ s = Grain * k
    BY <1>3
  <2> HIDE DEF k, s, f
  <2>2. Grain * (k + e - a) = Grain * k + Grain * e - Grain * a
    BY <1>1, <2>1
  <2> QED BY <1>4, <2>1, <2>2 DEF k
<1>6. IsWhole(Clipped(y))
  <2>1. Grain * 0 = 0
    BY <1>1
  <2>2. Clipped(y) = y \/ Clipped(y) = 0
    BY DEF Clipped
  <2> HIDE DEF y
  <2> QED BY <1>5, <2>1, <2>2 DEF IsWhole
<1> QED BY <1>3, <1>4, <1>6 DEF IsWhole, s, f

\* There the order is exact.
LEMMA OrderIsExact ==
    ASSUME NEW b, IsBasket(b), NothingToRound(b), NEW g \in Groups(b), NEW t \in Tables, NEW up \in BOOLEAN,
           NEW o, o.base \in Int, TotalledOrder(o, b, g, t, up)
    PROVE  /\ Grain * o.subtotal = Subtotals(b)[g]
           /\ o.total = Clipped(o.subtotal + o.shipping - o.discount)
<1> DEFINE c == b.currency
           s == Subtotals(b)[g]
           f == ShippingFee(b, s)
           a == o.base
           y == Clipped(s + f - Grain * a)
<1>1. /\ Grain \in Nat \ {0} /\ c \in DOMAIN Fallback /\ ~ Known(c, t) /\ a \in Int
      /\ IsWhole(s) /\ IsWhole(f) /\ IsWhole(y)
  BY MoneyAssumption, WholeAmounts DEF IsBasket, NothingToRound, Known
<1>2. PICK i \in Int : s = Grain * i
  BY <1>1 DEF IsWhole
<1>3. PICK j \in Int : f = Grain * j
  <2> HIDE DEF f
  <2> QED BY <1>1 DEF IsWhole
<1>4. PICK k \in Int : y = Grain * k
  <2> HIDE DEF y
  <2> QED BY <1>1 DEF IsWhole
<1>5. o.subtotal = Converted(Grain * i, c, t, up)
  BY <1>2 DEF TotalledOrder
<1>6. o.shipping = Converted(Grain * j, c, t, up)
  <2>1. o.shipping = Converted(f, c, t, up)
    BY DEF TotalledOrder
  <2> HIDE DEF f
  <2> QED BY <1>3, <2>1
<1>7. o.total = Converted(Grain * k, c, t, up)
  <2>1. o.total = Converted(y, c, t, up)
    BY DEF TotalledOrder
  <2> HIDE DEF y
  <2> QED BY <1>4, <2>1
<1>8. o.discount = Converted(Grain * a, c, t, up)
  BY DEF TotalledOrder
<1> HIDE DEF s, f, c, a
<1>9. o.subtotal = i /\ o.shipping = j /\ o.total = k /\ o.discount = a
  BY <1>1, <1>5, <1>6, <1>7, <1>8, ConvertedExact
<1> DEFINE z == i + j - a
<1>10. s + f - Grain * a = Grain * z /\ z \in Int
  BY <1>1, <1>2, <1>3
<1>11. k = Clipped(z)
  <2>1. Grain * k = Clipped(Grain * z)
    BY <1>4, <1>10
  <2> HIDE DEF z
  <2>2. CASE z < 0
    <3>1. Grain * z < 0
      BY <1>1, <1>10, <2>2
    <3>2. Grain * k = 0 /\ Clipped(z) = 0
      BY <2>1, <2>2, <3>1 DEF Clipped
    <3> QED BY <1>1, <3>2
  <2>3. CASE z >= 0
    <3>1. Grain * z >= 0
      BY <1>1, <1>10, <2>3
    <3>2. Grain * k = Grain * z /\ Clipped(z) = z
      <4> DEFINE Gz == Grain * z
                 Gk == Grain * k
      <4>1. Gk = Clipped(Gz) /\ Gz >= 0 /\ Gz \in Int
        BY <1>1, <1>10, <2>1, <3>1
      <4> HIDE DEF Gz, Gk
      <4>2. Gk = Gz /\ Clipped(z) = z
        BY <1>10, <2>3, <4>1 DEF Clipped
      <4> QED BY <4>2 DEF Gz, Gk
    <3>3. Grain * k <= Grain * z /\ Grain * z <= Grain * k /\ k \in Int /\ z \in Int
      <4>1. Grain * z \in Int
        BY <1>1, <1>10
      <4>2. Grain * k = Grain * z
        BY <3>2
      <4> HIDE DEF z
      <4>3. Grain * k <= Grain * z /\ Grain * z <= Grain * k
        BY <4>1, <4>2
      <4> QED BY <1>10, <4>3
    <3>4. k <= z /\ z <= k
      BY <1>1, <3>3, Cancel
    <3> QED BY <3>2, <3>3, <3>4
  <2> QED BY <1>10, <2>2, <2>3
<1> QED BY <1>2, <1>9, <1>11 DEF s

\* Four amounts are converted, so the total is off by two units at most.
LEMMA OrderAddsUp ==
    ASSUME NEW b, IsBasket(b), NEW g \in Groups(b), NEW t \in Tables, NEW up \in BOOLEAN,
           NEW o, o.base \in Int, TotalledOrder(o, b, g, t, up)
    PROVE  Abs(o.total - Clipped(o.subtotal + o.shipping - o.discount)) <= 2 * Unit(b.currency)
<1> DEFINE c == b.currency
           P == Rate(c, t)
           Q == Per(c, t)
           V == Step(c, t)
           s == Subtotals(b)[g]
           f == ShippingFee(b, s)
           a == Grain * o.base
           y == s + f - a
           z == o.subtotal + o.shipping - o.discount
<1>1. s \in Nat /\ f \in Nat /\ a \in Int /\ c \in DOMAIN Fallback
  BY BasketAmounts, MoneyAssumption DEF IsBasket
<1>2. P \in Nat \ {0} /\ Q \in Nat \ {0} /\ V \in Nat /\ V <= Unit(c) /\ Unit(c) \in Nat
  BY <1>1, RatesArePositive
<1>3. y \in Int /\ Clipped(y) \in Nat
  BY <1>1 DEF Clipped
<1>4. /\ o.subtotal \in Int /\ o.shipping \in Int /\ o.discount \in Int /\ o.total \in Int
      /\ z \in Int /\ Clipped(z) \in Nat
  BY OrderAmounts DEF Clipped
<1>5. /\ o.subtotal = Converted(s, c, t, up) /\ o.shipping = Converted(f, c, t, up)
      /\ o.discount = Converted(a, c, t, up) /\ o.total = Converted(Clipped(y), c, t, up)
  BY DEF TotalledOrder
<1> HIDE DEF s, f, c, a
<1>6. /\ 2 * (Q * o.subtotal) <= 2 * (s * P) + Q * V /\ 2 * (Q * o.subtotal) >= 2 * (s * P) - Q * V
      /\ 2 * (Q * o.shipping) <= 2 * (f * P) + Q * V /\ 2 * (Q * o.shipping) >= 2 * (f * P) - Q * V
      /\ 2 * (Q * o.discount) <= 2 * (a * P) + Q * V /\ 2 * (Q * o.discount) >= 2 * (a * P) - Q * V
  BY <1>1, <1>5, ConvertedNear
<1>7. 2 * (Q * o.total) <= 2 * (Clipped(y) * P) + Q * V /\ 2 * (Q * o.total) >= 2 * (Clipped(y) * P) - Q * V
  <2> HIDE DEF y
  <2> QED BY <1>1, <1>3, <1>5, ConvertedNear
<1>8. Q * V \in Nat
  <2> HIDE DEF Q, V
  <2> QED BY <1>2, ProductNat
<1>9. Q * z = Q * o.subtotal + Q * o.shipping - Q * o.discount /\ P * y = s * P + f * P - a * P
  <2> HIDE DEF Q, P
  <2> QED BY <1>1, <1>2, <1>4
<1>10. /\ Q * o.subtotal \in Int /\ Q * o.shipping \in Int /\ Q * o.discount \in Int /\ Q * o.total \in Int
       /\ s * P \in Int /\ f * P \in Int /\ a * P \in Int
       /\ Clipped(y) * P \in Int /\ Clipped(y) * P = P * Clipped(y)
  <2> HIDE DEF Q, P, y
  <2> QED BY <1>1, <1>2, <1>3, <1>4
<1> HIDE DEF P, Q, V, y, z
<1>11. 2 * (Q * z) <= 2 * (P * y) + 3 * (Q * V) /\ 2 * (P * y) <= 2 * (Q * z) + 3 * (Q * V)
  BY <1>6, <1>8, <1>9, <1>10
<1> DEFINE q == 2 * Q
           p == 2 * P
           e == 3 * (Q * V)
<1>12. q * Clipped(z) <= p * Clipped(y) + e /\ p * Clipped(y) <= q * Clipped(z) + e
  <2>1. q \in Nat /\ p \in Nat /\ e \in Nat
    BY <1>2, <1>8
  <2>2. q * z = 2 * (Q * z) /\ p * y = 2 * (P * y)
    BY <1>2, <1>3, <1>4
  <2>3. q * z <= p * y + e /\ p * y <= q * z + e
    BY <1>11, <2>2
  <2> HIDE DEF q, p, e
  <2> QED BY <1>3, <1>4, <2>1, <2>3, ClippedWithin
<1> DEFINE Z == Clipped(z)
           Y == Clipped(y)
<1>13. q * Z = 2 * (Q * Z) /\ p * Y = 2 * (P * Y) /\ Q * Z \in Int /\ P * Y \in Int
  <2> HIDE DEF Z, Y
  <2> QED BY <1>2, <1>3, <1>4 DEF Z, Y
<1>14. /\ 2 * (Q * o.total) <= 2 * (Q * Z) + 4 * (Q * V)
       /\ 2 * (Q * Z) <= 2 * (Q * o.total) + 4 * (Q * V)
  <2> HIDE DEF q, p
  <2> QED BY <1>7, <1>8, <1>10, <1>12, <1>13
<1>15. /\ Q * (o.total - Z) = Q * o.total - Q * Z /\ Q * (Z - o.total) = Q * Z - Q * o.total
       /\ Q * (2 * V) = 2 * (Q * V)
  <2> HIDE DEF Z
  <2> QED BY <1>2, <1>4 DEF Z
<1>16. Q * (o.total - Z) <= Q * (2 * V) /\ Q * (Z - o.total) <= Q * (2 * V)
  BY <1>8, <1>10, <1>13, <1>14, <1>15
<1>17. o.total - Z <= 2 * V /\ Z - o.total <= 2 * V
  <2>1. o.total - Z \in Int /\ Z - o.total \in Int /\ 2 * V \in Int
    BY <1>2, <1>4
  <2> HIDE DEF Z
  <2> QED BY <1>2, <1>16, <2>1, Cancel
<1>18. Abs(o.total - Z) <= 2 * Unit(c)
  <2>1. Z \in Int
    BY <1>4
  <2> HIDE DEF Z
  <2> QED BY <1>2, <1>4, <1>17, <2>1 DEF Abs
<1> QED BY <1>18 DEF Z, z, c

\* What a part exceeds its subtotal by, converted.
LEMMA DiscountExcess ==
    ASSUME NEW b, IsBasket(b), NEW g \in Groups(b), NEW t \in Tables, NEW up \in BOOLEAN,
           NEW o, o.base \in Int, TotalledOrder(o, b, g, t, up),
           NEW n \in Int, 2 * (Grain * o.base - Subtotals(b)[g]) <= n * Grain
    PROVE  LET c == b.currency IN
           IF Known(c, t) THEN 2 * (o.discount - o.subtotal) * t[Base] <= n * t[c] + 2 * Unit(c) * t[Base]
           ELSE 2 * (o.discount - o.subtotal) <= n + 1
<1> DEFINE c == b.currency
           s == Subtotals(b)[g]
           a == Grain * o.base
           w == o.subtotal
           d == o.discount
<1>1. s \in Nat /\ c \in DOMAIN Fallback /\ Grain \in Nat \ {0} /\ a \in Int /\ w \in Int /\ d \in Int
  BY BasketAmounts, OrderAmounts, MoneyAssumption DEF IsBasket
<1>2. w = Converted(s, c, t, up) /\ d = Converted(a, c, t, up)
  BY DEF TotalledOrder
<1>3. /\ 2 * (Per(c, t) * d) <= 2 * (a * Rate(c, t)) + Per(c, t) * Step(c, t)
      /\ 2 * (Per(c, t) * w) >= 2 * (s * Rate(c, t)) - Per(c, t) * Step(c, t)
  <2> HIDE DEF s, c, a, w, d
  <2> QED BY <1>1, <1>2, ConvertedNear
<1>4. CASE ~ Known(c, t)
  <2>1. d = o.base
    BY <1>4, OrderAmounts
  <2>2. Rate(c, t) = 1 /\ Per(c, t) = Grain * 1 /\ Step(c, t) = 1
    BY <1>4 DEF Rate, Per, Step
  <2>3. a = Grain * d /\ 2 * (a - s) <= n * Grain
    BY <2>1
  <2> HIDE DEF s, c, a, w, d
  <2> DEFINE Gw == Grain * w
  <2>4. Per(c, t) * w = Gw /\ s * Rate(c, t) = s /\ Per(c, t) * Step(c, t) = Grain /\ Gw \in Int /\ n * Grain \in Int
    BY <1>1, <2>2
  <2> HIDE DEF Gw
  <2>5. 2 * a - 2 * Gw <= n * Grain + Grain
    BY <1>1, <1>3, <2>3, <2>4
  <2>6. Grain * (2 * (d - w)) = 2 * a - 2 * Gw /\ Grain * (n + 1) = n * Grain + Grain
    BY <1>1, <2>3 DEF Gw
  <2>7. 2 * (d - w) <= n + 1
    <3> DEFINE i == 2 * (d - w)
               j == n + 1
    <3>1. i \in Int /\ j \in Int /\ Grain * i <= Grain * j
      BY <1>1, <2>5, <2>6
    <3> HIDE DEF i, j
    <3>2. i <= j
      BY <1>1, <3>1, Cancel
    <3> QED BY <3>2 DEF i, j
  <2> QED BY <1>4, <2>7 DEF c, d, w
<1>5. CASE Known(c, t)
  <2> DEFINE P == t[c]
             q == t[Base]
             V == Unit(c)
  <2>1. Rate(c, t) = P /\ Per(c, t) = Grain * q /\ Step(c, t) = V
    BY <1>5 DEF Rate, Per, Step
  <2>2. P \in Nat /\ q \in Nat /\ V \in Nat
    <3>1. t \in [DOMAIN Fallback -> Nat] /\ Base \in DOMAIN Fallback
      BY MoneyAssumption
    <3> QED BY <1>1, <3>1 DEF Unit
  <2>3. 2 * (a - s) <= n * Grain
    OBVIOUS
  <2> HIDE DEF s, c, a, w, d, P, q, V
  <2>4. 2 * (a * P) - 2 * (s * P) <= (n * Grain) * P
    <3> DEFINE i == n * Grain
    <3>1. i \in Int /\ 2 * (a - s) <= i
      BY <1>1, <2>3
    <3> HIDE DEF i
    <3>2. PICK e \in Nat : i = 2 * (a - s) + e
      <4>1. i - 2 * (a - s) \in Nat /\ i = 2 * (a - s) + (i - 2 * (a - s))
        BY <1>1, <3>1
      <4> QED BY <4>1
    <3>3. i * P = 2 * (a * P) - 2 * (s * P) + e * P /\ e * P \in Nat
      BY <1>1, <2>2, <3>2
    <3>4. a * P \in Int /\ s * P \in Int
      BY <1>1, <2>2
    <3>5. 2 * (a * P) - 2 * (s * P) <= i * P
      BY <3>3, <3>4
    <3> QED BY <3>5 DEF i
  <2> DEFINE Q == Grain * q
  <2>5. Q \in Nat /\ Q * V \in Nat /\ Q * d \in Int /\ Q * w \in Int /\ a * P \in Int /\ s * P \in Int
        /\ (n * Grain) * P \in Int
    <3>1. Q \in Nat
      BY <1>1, <2>2, ProductNat
    <3> HIDE DEF Q
    <3> QED BY <1>1, <2>2, <3>1
  <2>6. 2 * (Q * d) - 2 * (Q * w) <= (n * Grain) * P + 2 * (Q * V)
    <3>1. 2 * (Q * d) <= 2 * (a * P) + Q * V /\ 2 * (Q * w) >= 2 * (s * P) - Q * V
      BY <1>3, <2>1
    <3> HIDE DEF Q
    <3> QED BY <2>4, <2>5, <3>1
  <2> DEFINE i == 2 * (d - w) * q
             j == n * P + 2 * V * q
  <2>7. i \in Int /\ j \in Int
    BY <1>1, <2>2
  <2>8. Grain * i = 2 * (Q * d) - 2 * (Q * w)
    BY <1>1, <2>2
  <2>9. Grain * j = (n * Grain) * P + 2 * (Q * V)
    BY <1>1, <2>2
  <2>10. Grain * i <= Grain * j
    BY <2>6, <2>8, <2>9
  <2>11. i <= j
    <3> HIDE DEF i, j
    <3> QED BY <1>1, <2>7, <2>10, Cancel
  <2> QED BY <1>5, <2>11 DEF c, d, w, P, q, V
<1> QED BY <1>4, <1>5 DEF c

\* The price of an item times its quantity, against the subtotal that was
\* converted as a whole.
LEMMA ItemsNear ==
    ASSUME NEW b, IsBasket(b), NEW g \in Groups(b), NEW t \in Tables, NEW up \in BOOLEAN, NEW vp \in BOOLEAN,
           NEW o, TotalledOrder(o, b, g, t, up),
           NEW x, x = Converted(b.lines[g].unit, b.currency, t, vp)
    PROVE  /\ x \in Nat
           /\ 2 * Abs(b.lines[g].qty * x - o.subtotal) <= (b.lines[g].qty + 1) * Unit(b.currency)
<1> DEFINE c == b.currency
           P == Rate(c, t)
           Q == Per(c, t)
           V == Step(c, t)
           u == b.lines[g].unit
           n == b.lines[g].qty
           w == o.subtotal
<1>1. u \in Nat /\ n \in Nat /\ c \in DOMAIN Fallback
  BY DEF IsBasket
<1>2. P \in Nat \ {0} /\ Q \in Nat \ {0} /\ V \in Nat /\ V <= Unit(c) /\ Unit(c) \in Nat
  BY <1>1, RatesArePositive
<1>3. w = Converted(u * n, c, t, up)
  BY DEF TotalledOrder, Subtotals
<1>4. u * n \in Nat
  BY <1>1, ProductNat
<1>5. /\ w \in Int
      /\ 2 * (Q * w) <= 2 * (u * n * P) + Q * V /\ 2 * (Q * w) >= 2 * (u * n * P) - Q * V
  <2> HIDE DEF u, n, c, w
  <2> QED BY <1>1, <1>3, <1>4, ConvertedNear
<1>6. /\ x \in Nat
      /\ 2 * (Q * x) <= 2 * (u * P) + Q * V /\ 2 * (Q * x) >= 2 * (u * P) - Q * V
  <2> HIDE DEF u, c
  <2> QED BY <1>1, ConvertedNear DEF u, c
<1> SUFFICES 2 * Abs(n * x - w) <= (n + 1) * Unit(c)
  BY <1>6
<1> HIDE DEF c, P, Q, V, u, n, w
<1>7. Q * V \in Nat /\ Q * x \in Int /\ u * P \in Int /\ Q * w \in Int /\ u * n * P \in Int
  BY <1>1, <1>2, <1>4, <1>5, <1>6
<1>8. n * (2 * (Q * x)) <= n * (2 * (u * P) + Q * V) /\ n * (2 * (u * P) - Q * V) <= n * (2 * (Q * x))
  <2>1. \A i, j \in Int : i <= j => n * i <= n * j
    <3> SUFFICES ASSUME NEW i \in Int, NEW j \in Int, i <= j PROVE n * i <= n * j
      OBVIOUS
    <3>1. j - i \in Nat /\ j = i + (j - i)
      OBVIOUS
    <3>2. n * j = n * i + n * (j - i) /\ n * (j - i) \in Nat /\ n * i \in Int
      BY <1>1, <3>1
    <3> QED BY <3>2
  <2> QED BY <1>6, <1>7, <2>1
<1>9. /\ n * (2 * (Q * x)) = 2 * (Q * (n * x)) /\ n * (2 * (u * P) + Q * V) = 2 * (u * n * P) + n * (Q * V)
      /\ n * (2 * (u * P) - Q * V) = 2 * (u * n * P) - n * (Q * V)
      /\ Q * (n * x) \in Int /\ n * (Q * V) \in Int
  <2>1. n * (2 * (Q * x)) = 2 * (Q * (n * x))
    BY <1>1, <1>2, <1>6
  <2>2. n * (u * P) = u * n * P
    BY <1>1, <1>2
  <2> DEFINE i == u * P
             j == Q * V
  <2>3. n * (2 * i + j) = 2 * (n * i) + n * j /\ n * (2 * i - j) = 2 * (n * i) - n * j
    <3>1. i \in Int /\ j \in Int
      BY <1>7
    <3> HIDE DEF i, j
    <3> QED BY <1>1, <3>1
  <2>4. Q * (n * x) \in Int /\ n * (Q * V) \in Int
    BY <1>1, <1>2, <1>6, <1>7
  <2>5. /\ n * (2 * (u * P) + Q * V) = 2 * (n * (u * P)) + n * (Q * V)
        /\ n * (2 * (u * P) - Q * V) = 2 * (n * (u * P)) - n * (Q * V)
    BY <2>3
  <2> QED BY <2>1, <2>2, <2>4, <2>5
<1>10. /\ 2 * (Q * (n * x)) - 2 * (Q * w) <= n * (Q * V) + Q * V
       /\ 2 * (Q * w) - 2 * (Q * (n * x)) <= n * (Q * V) + Q * V
  BY <1>5, <1>7, <1>8, <1>9
<1>11. /\ Q * (2 * (n * x) - 2 * w) = 2 * (Q * (n * x)) - 2 * (Q * w)
       /\ Q * (2 * w - 2 * (n * x)) = 2 * (Q * w) - 2 * (Q * (n * x))
       /\ Q * ((n + 1) * V) = n * (Q * V) + Q * V
       /\ n * x \in Int /\ (n + 1) * V \in Int
  <2>1. n * x \in Int
    BY <1>1, <1>6
  <2>2. \A i, j \in Int : Q * (2 * i - 2 * j) = 2 * (Q * i) - 2 * (Q * j)
    BY <1>2
  <2>3. Q * ((n + 1) * V) = n * (Q * V) + Q * V /\ (n + 1) * V \in Int
    BY <1>1, <1>2
  <2> QED BY <1>5, <2>1, <2>2, <2>3
<1>12. 2 * (n * x) - 2 * w <= (n + 1) * V /\ 2 * w - 2 * (n * x) <= (n + 1) * V
  <2> DEFINE i == 2 * (n * x) - 2 * w
             j == 2 * w - 2 * (n * x)
             e == (n + 1) * V
  <2>1. i \in Int /\ j \in Int /\ e \in Int /\ Q * i <= Q * e /\ Q * j <= Q * e
    BY <1>5, <1>10, <1>11
  <2> HIDE DEF i, j, e
  <2>2. i <= e /\ j <= e
    BY <1>2, <2>1, Cancel
  <2> QED BY <2>2 DEF i, j, e
<1>13. (n + 1) * V <= (n + 1) * Unit(c)
  <2>1. PICK d \in Nat : Unit(c) = V + d
    <3>1. Unit(c) - V \in Nat /\ Unit(c) = V + (Unit(c) - V)
      BY <1>2
    <3> QED BY <3>1
  <2>2. (n + 1) * (V + d) = (n + 1) * V + (n + 1) * d /\ (n + 1) * d \in Nat
    BY <1>1, <1>2
  <2> QED BY <1>11, <2>1, <2>2
<1>14. (n + 1) * Unit(c) \in Int
  BY <1>1, <1>2
<1> QED BY <1>5, <1>11, <1>12, <1>13, <1>14 DEF Abs

\* The one charge and the totals of the orders it is for.
LEMMA ChargeNear ==
    ASSUME NEW b, IsBasket(b), NEW t \in Tables, NEW up \in BOOLEAN, NEW T, NEW o,
           \A g \in Groups(b) : T[g] \in Nat /\ o[g] = Converted(T[g], b.currency, t, up),
           NEW x, x = Converted(SumOver(Groups(b), T), b.currency, t, up)
    PROVE  LET all == SumOver(Groups(b), o) IN
           /\ x \in Int /\ all \in Int
           /\ b.currency = Base /\ (\A g \in Groups(b) : IsWhole(T[g])) => x = all
           /\ 2 * Abs(x - all) <= (Cardinality(Groups(b)) + 1) * Unit(b.currency)
<1> DEFINE c == b.currency
           G == Groups(b)
           n == Cardinality(G)
           P == Rate(c, t)
           Q == Per(c, t)
           V == Step(c, t)
           sum == SumOver(G, T)
           all == SumOver(G, o)
<1>1. IsFiniteSet(G) /\ n \in Nat /\ c \in DOMAIN Fallback
  BY BasketAmounts DEF IsBasket
<1>2. P \in Nat \ {0} /\ Q \in Nat \ {0} /\ V \in Nat /\ V <= Unit(c) /\ Unit(c) \in Nat
  BY <1>1, RatesArePositive
<1>3. sum \in Nat
  BY <1>1, SumNat
<1>4. /\ x \in Int
      /\ 2 * (Q * x) <= 2 * (sum * P) + Q * V /\ 2 * (Q * x) >= 2 * (sum * P) - Q * V
  <2> HIDE DEF sum, c
  <2> QED BY <1>1, <1>3, ConvertedNear DEF sum, c
<1>5. \A g \in G : /\ o[g] \in Int /\ T[g] \in Nat
                   /\ 2 * (Q * o[g]) <= 2 * (T[g] * P) + Q * V /\ 2 * (Q * o[g]) >= 2 * (T[g] * P) - Q * V
  <2> TAKE g \in G
  <2>1. T[g] \in Int /\ o[g] = Converted(T[g], c, t, up)
    OBVIOUS
  <2> HIDE DEF c
  <2> QED BY <1>1, <2>1, ConvertedNear
<1>6. all \in Int
  BY <1>1, <1>5, SumInt
<1>7. ASSUME c = Base, \A g \in G : IsWhole(T[g])
      PROVE  x = all
  <2>1. ~ Known(c, t) /\ Grain \in Nat \ {0}
    BY <1>7, MoneyAssumption DEF Known
  <2>2. ASSUME NEW g \in G
        PROVE  T[g] = Grain * o[g] /\ T[g] \in Int /\ o[g] \in Int
    <3>1. PICK m \in Int : T[g] = Grain * m
      BY <1>7, <2>2 DEF IsWhole
    <3>2. o[g] = Converted(Grain * m, c, t, up)
      BY <2>2, <3>1
    <3> HIDE DEF c
    <3>3. o[g] = m
      BY <1>1, <2>1, <3>2, ConvertedExact
    <3> QED BY <1>5, <3>1, <3>3
  <2> DEFINE one == 1
             minus == -1
             k == -Grain
             zero == 0
  <2>3. one \in Int /\ minus \in Int /\ k \in Int /\ Grain \in Int /\ zero \in Int
    BY <2>1
  <2>4. \A g \in G : one * T[g] + k * o[g] + zero * o[g] <= zero /\ minus * T[g] + Grain * o[g] + zero * o[g] <= zero
    <3> TAKE g \in G
    <3>1. T[g] = Grain * o[g] /\ T[g] \in Int /\ o[g] \in Int
      BY <2>2
    <3>2. k * o[g] = -(Grain * o[g])
      BY <2>1, <3>1
    <3> HIDE DEF k
    <3> QED BY <3>1, <3>2
  <2>5. \A g \in G : T[g] \in Int /\ o[g] \in Int
    BY <2>2
  <2>6. /\ one * sum + k * all + zero * all <= zero * n
        /\ minus * sum + Grain * all + zero * all <= zero * n
    <3>1. IsFiniteSet(G) /\ \A g \in G : one * T[g] + k * o[g] + zero * o[g] <= zero
      BY <1>1, <2>4
    <3>2. \A g \in G : minus * T[g] + Grain * o[g] + zero * o[g] <= zero
      BY <2>4
    <3> HIDE DEF one, minus, k, zero, G
    <3>3. one * sum + k * all + zero * all <= zero * n
      BY ONLY <2>3, <2>5, <3>1, SumWithin
    <3>4. minus * sum + Grain * all + zero * all <= zero * n
      BY ONLY <2>3, <2>5, <3>1, <3>2, SumWithin
    <3> QED BY <3>3, <3>4
  <2>7. sum = Grain * all
    <3> HIDE DEF sum, all, n
    <3>1. k * all = -(Grain * all) /\ Grain * all \in Int
      BY <1>6, <2>1
    <3> HIDE DEF k
    <3> QED BY <1>1, <1>3, <1>6, <2>6, <3>1
  <2>8. x = Converted(sum, c, t, up)
    OBVIOUS
  <2> HIDE DEF sum, all, c
  <2> QED BY <1>1, <1>6, <2>1, <2>7, <2>8, ConvertedExact
<1> SUFFICES 2 * Abs(x - all) <= (n + 1) * Unit(c)
  BY <1>4, <1>6, <1>7
<1> DEFINE q == 2 * Q
           p == 2 * P
           v == Q * V
           zero == 0
<1>8. q \in Int /\ p \in Int /\ v \in Nat /\ -q \in Int /\ -p \in Int /\ zero \in Int
  <2> HIDE DEF Q, P, V
  <2>1. Q * V \in Nat
    BY <1>2, ProductNat
  <2> QED BY <1>2, <2>1
<1>9. \A g \in G : /\ q * o[g] + (-p) * T[g] + zero * T[g] <= v
                   /\ (-q) * o[g] + p * T[g] + zero * T[g] <= v
  <2> TAKE g \in G
  <2>1. /\ o[g] \in Int /\ T[g] \in Nat
        /\ 2 * (Q * o[g]) <= 2 * (T[g] * P) + v /\ 2 * (Q * o[g]) >= 2 * (T[g] * P) - v
    BY <1>5
  <2> HIDE DEF Q, P, v
  <2>2. /\ q * o[g] = 2 * (Q * o[g]) /\ (-q) * o[g] = -(2 * (Q * o[g]))
        /\ p * T[g] = 2 * (T[g] * P) /\ (-p) * T[g] = -(2 * (T[g] * P)) /\ zero * T[g] = 0
        /\ Q * o[g] \in Int /\ T[g] * P \in Int
    BY <1>2, <2>1
  <2> HIDE DEF q, p, zero
  <2> QED BY <1>8, <2>1, <2>2
<1>10. \A g \in G : o[g] \in Int /\ T[g] \in Int
  BY <1>5
<1>11. q * all + (-p) * sum + zero * sum <= v * n
  <2> DEFINE m == -p
  <2>1. \A g \in G : q * o[g] + m * T[g] + zero * T[g] <= v
    BY <1>9
  <2>2. m \in Int
    BY <1>8
  <2>3. q * all + m * sum + zero * sum <= v * n
    <3> HIDE DEF q, p, m, v, zero, G
    <3>1. IsFiniteSet(G) /\ q \in Int /\ p \in Int /\ zero \in Int /\ v \in Int
      BY <1>1, <1>8
    <3> QED BY ONLY <1>10, <2>1, <2>2, <3>1, SumWithin
  <2> QED BY <2>3
<1>12. (-q) * all + p * sum + zero * sum <= v * n
  <2> DEFINE m == -q
  <2>1. \A g \in G : m * o[g] + p * T[g] + zero * T[g] <= v
    BY <1>9
  <2>2. m \in Int
    BY <1>8
  <2>3. m * all + p * sum + zero * sum <= v * n
    <3> HIDE DEF q, p, m, v, zero, G
    <3>1. IsFiniteSet(G) /\ q \in Int /\ p \in Int /\ zero \in Int /\ v \in Int
      BY <1>1, <1>8
    <3> QED BY ONLY <1>10, <2>1, <2>2, <3>1, SumWithin
  <2> QED BY <2>3
<1> HIDE DEF G, n, P, Q, V, sum, all, c
<1>13. /\ q * all = 2 * (Q * all) /\ (-q) * all = -(2 * (Q * all)) /\ Q * all \in Int
       /\ p * sum = 2 * (sum * P) /\ (-p) * sum = -(2 * (sum * P)) /\ sum * P \in Int /\ zero * sum = 0
       /\ Q * x \in Int /\ v * n \in Int
  BY <1>1, <1>2, <1>3, <1>4, <1>6, <1>8
<1>14. 2 * (Q * x) - 2 * (Q * all) <= v * n + v /\ 2 * (Q * all) - 2 * (Q * x) <= v * n + v
  <2> HIDE DEF q, p, zero
  <2>1. 2 * (Q * x) <= 2 * (sum * P) + v /\ 2 * (Q * x) >= 2 * (sum * P) - v
    BY <1>4
  <2> HIDE DEF v
  <2>2. 2 * (Q * all) - 2 * (sum * P) <= v * n /\ 2 * (sum * P) - 2 * (Q * all) <= v * n
    BY <1>8, <1>11, <1>12, <1>13
  <2> QED BY <1>8, <1>13, <2>1, <2>2
<1> DEFINE i == 2 * (x - all)
           j == 2 * (all - x)
           e == (n + 1) * V
<1>15. Q * i = 2 * (Q * x) - 2 * (Q * all) /\ Q * j = 2 * (Q * all) - 2 * (Q * x) /\ Q * e = v * n + v
  BY <1>1, <1>2, <1>4, <1>6
<1>16. i \in Int /\ j \in Int /\ e \in Int
  BY <1>1, <1>2, <1>4, <1>6
<1>17. i <= e /\ j <= e
  <2>1. Q * i <= Q * e /\ Q * j <= Q * e
    BY <1>14, <1>15
  <2> HIDE DEF i, j, e
  <2> QED BY <1>2, <1>16, <2>1, Cancel
<1>18. e <= (n + 1) * Unit(c) /\ (n + 1) * Unit(c) \in Int
  <2>1. PICK d \in Nat : Unit(c) = V + d
    <3>1. Unit(c) - V \in Nat /\ Unit(c) = V + (Unit(c) - V)
      BY <1>2
    <3> QED BY <3>1
  <2>2. (n + 1) * (V + d) = (n + 1) * V + (n + 1) * d /\ (n + 1) * d \in Nat /\ (n + 1) * V \in Int
    BY <1>1, <1>2
  <2> QED BY <2>1, <2>2
<1> HIDE DEF e
<1> QED BY <1>4, <1>6, <1>16, <1>17, <1>18 DEF Abs

\* The commission is a share of what the seller sold, or of an excess.
LEMMA CommissionBounds ==
    ASSUME NEW g \in DOMAIN Percent \ {Platform}, NEW up \in BOOLEAN,
           NEW s \in Int, NEW f, NEW d \in Nat, NEW x, x = Commission(g, s, f, d, up)
    PROVE  LET rate == Percent[g] IN
           /\ x \in Int
           /\ 100 * (s - x) >= (100 - rate) * s - 50
           /\ 100 * (s - x) <= 100 * s + rate * Clipped(d - s) + 50
<1> DEFINE r == Percent[g]
<1>1. r \in 0 .. 100
  BY MoneyAssumption
<1>2. x = Round((s - d) * r, 100, 1, up)
  BY DEF Commission
<1> HIDE DEF r
<1>3. (s - d) * r \in Int
  BY <1>1
<1>4. x \in Int /\ 2 * (100 * x) <= 2 * ((s - d) * r) + 100 /\ 2 * (100 * x) >= 2 * ((s - d) * r) - 100
  <2> DEFINE n == (s - d) * r
             h == 100
  <2>1. n \in Int /\ h \in Nat \ {0} /\ 1 \in Nat \ {0} /\ x = Round(n, h, 1, up)
    BY <1>2, <1>3
  <2> HIDE DEF n, h
  <2>2. x \in Int /\ 2 * (h * x) <= 2 * n + h * 1 /\ 2 * (h * x) >= 2 * n - h * 1
    BY <2>1, RoundNear
  <2> QED BY <2>2 DEF n, h
<1>5. (s - d) * r = r * s - r * d /\ r * d \in Nat /\ r * s \in Int /\ (100 - r) * s = 100 * s - r * s
  BY <1>1
<1>6. 100 * (s - x) >= (100 - r) * s - 50
  BY <1>4, <1>5
<1>7. r * d - r * s <= r * Clipped(d - s) /\ r * Clipped(d - s) \in Int
  <2>1. r * (d - s) = r * d - r * s
    BY <1>1, <1>5
  <2>2. CASE d - s < 0
    <3>1. Clipped(d - s) = 0 /\ r * 0 = 0
      BY <1>1, <2>2 DEF Clipped
    <3>2. PICK z \in Nat : d - s = -z
      <4>1. -(d - s) \in Nat /\ d - s = -(-(d - s))
        BY <2>2
      <4> QED BY <4>1
    <3>3. r * (-z) = -(r * z) /\ r * z \in Nat
      BY <1>1
    <3> QED BY <2>1, <3>1, <3>2, <3>3
  <2>3. CASE d - s >= 0
    <3>1. Clipped(d - s) = d - s
      BY <2>3 DEF Clipped
    <3> QED BY <1>5, <2>1, <3>1
  <2> QED BY <2>2, <2>3
<1>8. 100 * (s - x) <= 100 * s + r * Clipped(d - s) + 50
  BY <1>4, <1>5, <1>7
<1> QED BY <1>4, <1>6, <1>8 DEF r

-----------------------------------------------------------------------------
(* The invariant: what is kept of a checkout c of k, with the rates r.     *)

OrderRecords ==
    [subtotal : Int, shipping : Int, discount : Int, base : Int, total : Int, commission : Int,
     price : Int, st : {"draft", "placed", "delivered", "paid_out", "refunded"}, refunded : Int]
IsCheckout(c) ==
    /\ c \in [pc : {"start", "quoted", "refused", "charging", "placed"}, basket : {c.basket},
              discount : Nat, charged : Int, drift : BOOLEAN, order : {c.order}]
    /\ c.order # <<>> => c.order \in [DOMAIN c.order -> OrderRecords]

Parts(c) == [g \in Groups(c.basket) |-> c.order[g].base]

\* A basket was validated; the orders come with the charge.
Asked(k, c) ==
    /\ c.pc # "start" => c.basket \in Baskets[k] /\ IsDiscount(c.discount, c.basket)
    /\ c.pc \in {"start", "quoted"} => c.order = <<>>
    /\ c.pc \in {"charging", "placed"} => c.order # <<>>

\* The discount is split, and the amounts are converted with one table; with
\* the present one, unless it was replaced since.
Totalled(c, r) ==
    c.order # <<>> =>
        LET b == c.basket IN
        /\ DOMAIN c.order = Groups(b)
        /\ SplitOf(Parts(c), b, c.discount)
        /\ CartSubtotal(b) = 0 => \A g \in Groups(b) : c.order[g].base = 0
        /\ \E t \in Tables, up \in BOOLEAN :
              /\ c.pc = "charging" /\ ~ c.drift => t = r
              /\ c.charged = Converted(Charge(b, Parts(c)), b.currency, t, up)
              /\ \A g \in Groups(b) : TotalledOrder(c.order[g], b, g, t, up)

ItemsMatch(c, g) ==
    LET l == c.basket.lines[g] IN
    c.drift \/ 2 * Abs(l.qty * c.order[g].price - c.order[g].subtotal) <= (l.qty + 1) * Unit(c.basket.currency)

\* Nothing is refunded before the order is stored, or beyond its total.
Stored(c) ==
    c.order # <<>> => \A g \in Groups(c.basket) :
        LET o == c.order[g] IN
        IF c.pc = "placed" THEN /\ Accepts(o) /\ o.price \in Nat /\ o.st # "draft" /\ o.refunded <= o.total
                                /\ ItemsMatch(c, g)
        ELSE o.refunded = 0

CheckoutOK(k, c, r) == IsCheckout(c) /\ Asked(k, c) /\ Totalled(c, r) /\ Stored(c)

CheckoutsInv ==
    /\ rates \in Tables /\ refreshes \in 0 .. MaxRefreshes
    /\ DOMAIN co = Checkouts /\ co = [k \in Checkouts |-> co[k]]
    /\ \A k \in Checkouts : CheckoutOK(k, co[k], rates)

\* A payout is the sum of what its orders, all stored, are worth.
PaidOut ==
    /\ IsFiniteSet({k \in Checkouts : co[k].pc # "start"})
    /\ \A p \in payouts :
          /\ p.seller \in DOMAIN Percent \ {Platform} /\ IsFiniteSet(p.of)
          /\ \A kg \in p.of : kg \in Placed /\ kg[2] = p.seller
          /\ p.amount = NetOf(p.of)

-----------------------------------------------------------------------------
(* Every step keeps the invariant of a checkout: c before, d after.        *)

Checkout(pc, basket, discount, charged, drift, order) ==
    [pc |-> pc, basket |-> basket, discount |-> discount, charged |-> charged, drift |-> drift, order |-> order]

\* A checkout is known by its fields.
LEMMA CheckoutFields ==
    ASSUME NEW pc, NEW basket, NEW discount, NEW charged, NEW drift, NEW order,
           NEW d, d = Checkout(pc, basket, discount, charged, drift, order)
    PROVE  /\ d.pc = pc /\ d.basket = basket /\ d.discount = discount
           /\ d.charged = charged /\ d.drift = drift /\ d.order = order
           /\ /\ pc \in {"start", "quoted", "refused", "charging", "placed"} /\ discount \in Nat
              /\ charged \in Int /\ drift \in BOOLEAN
              /\ order # <<>> => order \in [DOMAIN order -> OrderRecords]
              => IsCheckout(d)
  BY DEF IsCheckout, Checkout

LEMMA CheckoutIs ==
    ASSUME NEW c, IsCheckout(c)
    PROVE  /\ c \in [pc : {c.pc}, basket : {c.basket}, discount : {c.discount}, charged : {c.charged},
                     drift : {c.drift}, order : {c.order}]
           /\ c.pc \in {"start", "quoted", "refused", "charging", "placed"}
           /\ c.discount \in Nat /\ c.charged \in Int /\ c.drift \in BOOLEAN
           /\ c.order # <<>> => c.order \in [DOMAIN c.order -> OrderRecords]
  BY DEF IsCheckout

\* The basket of a checkout that began is one that was validated.
LEMMA AskedFor ==
    ASSUME NEW k \in Checkouts, NEW c, Asked(k, c), c.pc # "start"
    PROVE  IsBasket(c.basket) /\ IsDiscount(c.discount, c.basket)
  BY MoneyAssumption DEF Asked

\* Quote: the basket is a validated one, the discount within it.
LEMMA QuoteOK ==
    ASSUME NEW k \in Checkouts, NEW c, NEW r, CheckoutOK(k, c, r), c.pc = "start",
           NEW b \in Baskets[k], NEW up \in BOOLEAN, NEW pc \in {"refused", "quoted"},
           NEW d, d = Checkout(pc, b, Discount(b, up), c.charged, c.drift, <<>>)
    PROVE  CheckoutOK(k, d, r)
<1>1. IsCheckout(c) /\ c.order = <<>>
  BY DEF CheckoutOK, Asked
<1>2. IsBasket(b)
  BY MoneyAssumption
<1>3. IsDiscount(Discount(b, up), b) /\ Discount(b, up) \in Nat
  BY <1>2, DiscountBounds DEF IsDiscount
<1>4. /\ d.pc = pc /\ d.basket = b /\ d.discount = Discount(b, up) /\ d.order = <<>>
      /\ IsCheckout(d)
  <2>1. pc \in {"start", "quoted", "refused", "charging", "placed"}
    OBVIOUS
  <2> QED BY <1>1, <1>3, <2>1, CheckoutIs, CheckoutFields
<1>5. Asked(k, d)
  BY <1>3, <1>4 DEF Asked
<1>6. Totalled(d, r) /\ Stored(d)
  BY <1>4 DEF Totalled, Stored
<1> QED BY <1>4, <1>5, <1>6 DEF CheckoutOK

\* A commission is a number, also of an order that is refused later.
LEMMA CommissionInt ==
    ASSUME NEW g \in DOMAIN Percent, NEW s \in Int, NEW f, NEW d \in Int, NEW up \in BOOLEAN
    PROVE  Commission(g, s, f, d, up) \in Int
<1>1. Percent[g] \in Int
  BY MoneyAssumption
<1>2. (s - d) * Percent[g] \in Int
  BY <1>1
<1>3. Round((s - d) * Percent[g], 100, 1, up) \in Int
  BY <1>2, RoundNear
<1> QED BY <1>3 DEF Commission

\* What Total writes for a group.
LEMMA OrderTotalled ==
    ASSUME rates \in Tables, NEW b, IsBasket(b), NEW g \in Groups(b), NEW up \in BOOLEAN, NEW alloc, alloc[g] \in Int
    PROVE  LET o == Order(b, alloc, g, up) IN
           /\ o \in OrderRecords /\ o.base = alloc[g] /\ o.refunded = 0
           /\ TotalledOrder(o, b, g, rates, up)
<1> DEFINE s == Subtotals(b)[g]
           f == ShippingFee(b, s)
           a == Grain * alloc[g]
           z == TotalBase(b, alloc, g)
           in(n) == Converted(n, b.currency, rates, up)
           o == Order(b, alloc, g, up)
<1>1. s \in Nat /\ f \in Nat /\ a \in Int /\ b.currency \in DOMAIN Fallback /\ g \in DOMAIN Percent
  BY BasketAmounts, MoneyAssumption DEF IsBasket
<1>2. z = Clipped(s + f - a) /\ z \in Int
  <2>1. z = Clipped(s + f - a)
    BY DEF TotalBase
  <2> HIDE DEF s, f, a, z
  <2> QED BY <1>1, <2>1 DEF Clipped
<1>3. \A n \in Int : in(n) \in Int
  BY <1>1, ConvertedNear
<1>4. in(s) \in Int /\ in(f) \in Int /\ in(a) \in Int /\ in(z) \in Int
  <2> HIDE DEF s, f, a, z, in
  <2> QED BY <1>1, <1>2, <1>3
<1>5. Commission(g, in(s), in(f), in(a), up) \in Int
  <2> HIDE DEF s, f, a, in
  <2> QED BY <1>1, <1>4, CommissionInt
<1>6. o = [subtotal |-> in(s), shipping |-> in(f), discount |-> in(a), base |-> alloc[g],
           total |-> in(z), commission |-> Commission(g, in(s), in(f), in(a), up),
           price |-> 0, st |-> "draft", refunded |-> 0]
  BY DEF Order
<1>7. TotalledOrder(o, b, g, rates, up)
  <2> HIDE DEF z, o
  <2> QED BY <1>2, <1>6 DEF TotalledOrder
<1> HIDE DEF s, f, a, z, in, o
<1>8. o \in OrderRecords
  BY <1>4, <1>5, <1>6 DEF OrderRecords
<1> QED BY <1>6, <1>7, <1>8 DEF o

\* Total: the parts are a split, every amount is converted with one table.
LEMMA TotalOK ==
    ASSUME rates \in Tables, NEW k \in Checkouts, NEW c, CheckoutOK(k, c, rates), c.pc = "quoted",
           NEW last \in Groups(c.basket), NEW up \in BOOLEAN, NEW alloc,
           alloc = Allocation(c.basket, c.discount, last, up),
           NEW order, order = [g \in Groups(c.basket) |-> Order(c.basket, alloc, g, up)],
           NEW x, x = Converted(Charge(c.basket, alloc), c.basket.currency, rates, up),
           NEW d, d = Checkout("charging", c.basket, c.discount, x, c.drift, order)
    PROVE  CheckoutOK(k, d, rates)
<1> DEFINE b == c.basket
           G == Groups(b)
<1>1. IsCheckout(c) /\ Asked(k, c) /\ IsBasket(b) /\ IsDiscount(c.discount, b) /\ b \in Baskets[k]
  BY AskedFor DEF CheckoutOK, Asked
<1>2. G # {} /\ IsFiniteSet(G) /\ b.currency \in DOMAIN Fallback
  BY <1>1, BasketAmounts DEF IsBasket
<1>3. DOMAIN alloc = G /\ SplitOf(alloc, b, c.discount)
  BY <1>1, AllocationSplits
<1>4. \A g \in G : alloc[g] \in Int
  BY <1>3 DEF SplitOf
<1>5. ASSUME NEW g \in G
      PROVE  /\ order[g] \in OrderRecords /\ order[g].base = alloc[g] /\ order[g].refunded = 0
             /\ TotalledOrder(order[g], b, g, rates, up)
  <2>1. order[g] = Order(b, alloc, g, up)
    OBVIOUS
  <2> HIDE DEF b
  <2> QED BY <1>1, <1>4, <2>1, OrderTotalled
<1>6. order \in [G -> OrderRecords] /\ DOMAIN order = G /\ order # <<>>
  <2>1. DOMAIN order = G
    OBVIOUS
  <2>2. order # <<>>
    BY <1>2, <2>1
  <2>3. \A g \in G : order[g] \in OrderRecords
    BY <1>5
  <2> QED BY <2>1, <2>2, <2>3
<1>7. x \in Int
  <2>1. \A g \in G : TotalBase(b, alloc, g) \in Int
    <3> TAKE g \in G
    <3> DEFINE x1 == Subtotals(b)[g]
               x2 == ShippingFee(b, x1)
               x3 == Grain * alloc[g]
    <3>1. x1 \in Nat /\ x2 \in Nat /\ x3 \in Int
      BY <1>1, <1>4, BasketAmounts, MoneyAssumption
    <3>2. TotalBase(b, alloc, g) = Clipped(x1 + x2 - x3)
      BY DEF TotalBase
    <3> HIDE DEF x1, x2, x3
    <3> QED BY <3>1, <3>2 DEF Clipped
  <2>2. Charge(b, alloc) \in Int
    <3> DEFINE f == [g \in G |-> TotalBase(b, alloc, g)]
    <3>1. \A g \in G : f[g] \in Int
      BY <2>1
    <3>2. Charge(b, alloc) = SumOver(G, f)
      BY DEF Charge
    <3> HIDE DEF f, G
    <3> QED BY <1>2, <3>1, <3>2, SumInt
  <2>3. x = Converted(Charge(b, alloc), b.currency, rates, up)
    OBVIOUS
  <2> HIDE DEF b
  <2> QED BY <1>2, <2>2, <2>3, ConvertedNear
<1>8. d.pc = "charging" /\ d.basket = b /\ d.discount = c.discount /\ d.charged = x /\ d.order = order
  BY CheckoutFields
<1>9. IsCheckout(d)
  <2>1. c.discount \in Nat /\ c.drift \in BOOLEAN
    BY <1>1, CheckoutIs
  <2> QED BY <1>6, <1>7, <2>1, CheckoutFields
<1>10. Asked(k, d)
  BY <1>1, <1>6, <1>8 DEF Asked
<1> HIDE DEF b, G
<1>11. Parts(d) = [g \in G |-> alloc[g]]
  BY <1>5, <1>8 DEF Parts, G
<1>12. SplitOf(Parts(d), b, c.discount)
  <2>1. SumOver(G, Parts(d)) = SumOver(G, alloc)
    BY <1>2, <1>4, <1>11, SumSame
  <2> QED BY <1>3, <1>11, <2>1 DEF SplitOf, G
<1>13. CartSubtotal(b) = 0 => \A g \in G : order[g].base = 0
  <2> SUFFICES ASSUME CartSubtotal(b) = 0 PROVE \A g \in G : alloc[g] = 0
    BY <1>5
  <2>1. c.discount = 0
    <3> DEFINE e == c.discount
    <3>1. e \in Nat /\ 2 * (Grain * e) <= Grain /\ Grain \in Nat \ {0}
      BY <1>1, MoneyAssumption DEF IsDiscount
    <3>2. ASSUME e # 0 PROVE FALSE
      <4> HIDE DEF e
      <4>1. Grain * e >= Grain /\ Grain * e \in Nat
        BY <3>1, <3>2
      <4> QED BY <3>1, <4>1
    <3> QED BY <3>2
  <2> QED BY <2>1 DEF Allocation, G, b
<1>14. x = Converted(Charge(b, Parts(d)), b.currency, rates, up)
  <2>1. \A g \in G : TotalBase(b, Parts(d), g) = TotalBase(b, alloc, g)
    BY <1>11 DEF TotalBase
  <2>2. Charge(b, Parts(d)) = Charge(b, alloc)
    BY <2>1 DEF Charge, G
  <2> QED BY <2>2 DEF b
<1>15. Totalled(d, rates)
  <2>1. d.pc = "charging" /\ d.basket = b /\ d.discount = c.discount /\ d.charged = x /\ d.order = order
    BY <1>8
  <2>2. \A g \in G : TotalledOrder(d.order[g], b, g, rates, up)
    BY <1>5, <2>1
  <2>3. /\ DOMAIN d.order = Groups(d.basket)
        /\ CartSubtotal(d.basket) = 0 => \A g \in Groups(d.basket) : d.order[g].base = 0
    BY <1>6, <1>13, <2>1 DEF G
  <2>4. SplitOf(Parts(d), d.basket, d.discount)
    BY <1>12, <2>1
  <2>5. d.charged = Converted(Charge(d.basket, Parts(d)), d.basket.currency, rates, up)
    BY <1>14, <2>1
  <2>6. \A g \in Groups(d.basket) : TotalledOrder(d.order[g], d.basket, g, rates, up)
    BY <2>1, <2>2 DEF G
  <2> QED BY <2>3, <2>4, <2>5, <2>6 DEF Totalled
<1>16. Stored(d)
  <2>1. ASSUME NEW g \in Groups(d.basket)
        PROVE  d.order[g].refunded = 0
    BY <1>5, <1>8 DEF G
  <2> QED BY <1>8, <2>1 DEF Stored
<1> QED BY <1>9, <1>10, <1>15, <1>16 DEF CheckoutOK

\* After Total nothing changes an order's amounts.
SameAmounts(e, f) ==
    /\ DOMAIN f = DOMAIN e
    /\ \A g \in DOMAIN e :
          /\ f[g].subtotal = e[g].subtotal /\ f[g].shipping = e[g].shipping /\ f[g].discount = e[g].discount
          /\ f[g].base = e[g].base /\ f[g].total = e[g].total /\ f[g].commission = e[g].commission

\* A checkout with the same amounts is as well totalled.
LEMMA StillTotalled ==
    ASSUME NEW c, NEW r, Totalled(c, r), c.order # <<>>, NEW d, NEW s, SameAmounts(c.order, d.order),
           d.basket = c.basket, d.discount = c.discount, d.charged = c.charged,
           d.pc = "charging" /\ ~ d.drift => c.pc = "charging" /\ ~ c.drift /\ s = r
    PROVE  Totalled(d, s)
<1> DEFINE b == c.basket
           G == Groups(b)
<1>1. /\ DOMAIN c.order = G /\ SplitOf(Parts(c), b, c.discount)
      /\ CartSubtotal(b) = 0 => \A g \in G : c.order[g].base = 0
  BY DEF Totalled
<1>2. PICK t \in Tables, up \in BOOLEAN :
              /\ c.pc = "charging" /\ ~ c.drift => t = r
              /\ c.charged = Converted(Charge(b, Parts(c)), b.currency, t, up)
              /\ \A g \in G : TotalledOrder(c.order[g], b, g, t, up)
  BY DEF Totalled
<1>3. DOMAIN d.order = Groups(d.basket)
  BY <1>1 DEF SameAmounts
<1>4. Parts(d) = Parts(c)
  <2>1. \A g \in G : d.order[g].base = c.order[g].base
    BY <1>1 DEF SameAmounts
  <2> QED BY <2>1 DEF Parts
<1>5. SplitOf(Parts(d), d.basket, d.discount)
  BY <1>1, <1>4
<1>6. CartSubtotal(d.basket) = 0 => \A g \in Groups(d.basket) : d.order[g].base = 0
  BY <1>1 DEF SameAmounts
<1>7. \A g \in Groups(d.basket) : TotalledOrder(d.order[g], d.basket, g, t, up)
  <2> TAKE g \in Groups(d.basket)
  <2>1. TotalledOrder(c.order[g], b, g, t, up) /\ g \in DOMAIN c.order
    BY <1>1, <1>2
  <2>2. /\ d.order[g].subtotal = c.order[g].subtotal /\ d.order[g].shipping = c.order[g].shipping
        /\ d.order[g].discount = c.order[g].discount /\ d.order[g].base = c.order[g].base
        /\ d.order[g].total = c.order[g].total /\ d.order[g].commission = c.order[g].commission
    BY <2>1 DEF SameAmounts
  <2> QED BY <2>1, <2>2 DEF TotalledOrder
<1>8. d.charged = Converted(Charge(d.basket, Parts(d)), d.basket.currency, t, up)
  BY <1>2, <1>4
<1>9. d.pc = "charging" /\ ~ d.drift => t = s
  BY <1>2
<1> HIDE DEF b, G
<1> QED BY <1>3, <1>5, <1>6, <1>7, <1>8, <1>9 DEF Totalled

\* An order keeps its amounts when it gets a state, a price or a refund.
PlacedAt(o, x) == [o EXCEPT !.st = "placed", !.price = x]

LEMMA OrderIsPlaced ==
    ASSUME NEW o \in OrderRecords, NEW x \in Int, NEW p, p = PlacedAt(o, x)
    PROVE  /\ p \in OrderRecords /\ p.st = "placed" /\ p.price = x /\ p.refunded = o.refunded
           /\ p.subtotal = o.subtotal /\ p.shipping = o.shipping /\ p.discount = o.discount
           /\ p.base = o.base /\ p.total = o.total /\ p.commission = o.commission
  BY DEF OrderRecords, PlacedAt

\* Place, when the schema refuses an order.
LEMMA RefuseOK ==
    ASSUME NEW k \in Checkouts, NEW c, NEW r, CheckoutOK(k, c, r), c.pc = "charging",
           NEW d, d = Checkout("refused", c.basket, c.discount, c.charged, c.drift, c.order)
    PROVE  CheckoutOK(k, d, r)
<1>1. IsCheckout(c) /\ Asked(k, c) /\ c.order # <<>> /\ Totalled(c, r)
  BY DEF CheckoutOK, Asked
<1>2. /\ d.pc = "refused" /\ d.basket = c.basket /\ d.discount = c.discount /\ d.charged = c.charged /\ d.order = c.order
      /\ IsCheckout(d)
  <2>1. "refused" \in {"start", "quoted", "refused", "charging", "placed"}
    OBVIOUS
  <2> QED BY <1>1, <2>1, CheckoutIs, CheckoutFields
<1>3. Asked(k, d)
  BY <1>1, <1>2 DEF Asked
<1>4. Totalled(d, r)
  <2>1. SameAmounts(c.order, d.order)
    BY <1>2 DEF SameAmounts
  <2> QED BY <1>1, <1>2, <2>1, StillTotalled
<1>5. Stored(d)
  <2>1. \A g \in Groups(d.basket) : d.order[g].refunded = 0
    BY <1>1, <1>2 DEF CheckoutOK, Stored
  <2> QED BY <1>2, <2>1 DEF Stored
<1> QED BY <1>2, <1>3, <1>4, <1>5 DEF CheckoutOK

\* Place, when it stores the orders: the prices are converted only now, with
\* the same table unless it drifted.
LEMMA PlaceOK ==
    ASSUME rates \in Tables, NEW k \in Checkouts, NEW c, CheckoutOK(k, c, rates), c.pc = "charging",
           \A g \in Groups(c.basket) : Accepts(c.order[g]), NEW up \in BOOLEAN,
           NEW order, order = [g \in Groups(c.basket) |-> PlacedAt(c.order[g],
                                  Converted(c.basket.lines[g].unit, c.basket.currency, rates, up))],
           NEW d, d = Checkout("placed", c.basket, c.discount, c.charged, c.drift, order)
    PROVE  CheckoutOK(k, d, rates) /\ SameAmounts(c.order, order)
<1> DEFINE b == c.basket
           G == Groups(b)
           x(g) == Converted(b.lines[g].unit, b.currency, rates, up)
<1>1. IsCheckout(c) /\ Asked(k, c) /\ c.order # <<>> /\ Totalled(c, rates) /\ Stored(c) /\ IsBasket(b)
  BY AskedFor DEF CheckoutOK, Asked
<1>2. DOMAIN c.order = G /\ c.order \in [G -> OrderRecords]
  BY <1>1, CheckoutIs DEF Totalled
<1>3. PICK t \in Tables, vp \in BOOLEAN :
          /\ ~ c.drift => t = rates
          /\ \A g \in G : TotalledOrder(c.order[g], b, g, t, vp)
  BY <1>1 DEF Totalled
<1>4. \A g \in G : x(g) \in Nat
  <2> TAKE g \in G
  <2>1. b.lines[g].unit \in Nat /\ b.currency \in DOMAIN Fallback
    BY <1>1 DEF IsBasket
  <2>2. x(g) \in Int /\ x(g) >= 0
    <3> HIDE DEF b
    <3> QED BY <2>1, ConvertedNear
  <2> QED BY <2>2
<1>5. ASSUME NEW g \in G
      PROVE  /\ order[g] \in OrderRecords /\ order[g].st = "placed" /\ order[g].price = x(g)
             /\ order[g].refunded = 0
             /\ order[g].subtotal = c.order[g].subtotal /\ order[g].shipping = c.order[g].shipping
             /\ order[g].discount = c.order[g].discount /\ order[g].base = c.order[g].base
             /\ order[g].total = c.order[g].total /\ order[g].commission = c.order[g].commission
  <2>1. c.order[g] \in OrderRecords /\ c.order[g].refunded = 0 /\ x(g) \in Int
    BY <1>1, <1>2, <1>4 DEF Stored
  <2>2. order[g] = PlacedAt(c.order[g], x(g))
    OBVIOUS
  <2> HIDE DEF x
  <2> QED BY <2>1, <2>2, OrderIsPlaced
<1>6. DOMAIN order = G /\ order \in [G -> OrderRecords] /\ order # <<>>
  <2>1. DOMAIN order = G /\ G # {}
    BY <1>1, BasketAmounts
  <2>2. \A g \in G : order[g] \in OrderRecords
    BY <1>5
  <2>3. order = [g \in G |-> order[g]]
    OBVIOUS
  <2>4. order \in [G -> OrderRecords]
    BY ONLY <2>2, <2>3
  <2>5. order # <<>>
    BY ONLY <2>1
  <2> QED BY <2>1, <2>4, <2>5
<1>7. SameAmounts(c.order, order)
  BY <1>2, <1>5, <1>6 DEF SameAmounts
<1> HIDE DEF x
<1>8. /\ d.pc = "placed" /\ d.basket = b /\ d.discount = c.discount /\ d.charged = c.charged
      /\ d.drift = c.drift /\ d.order = order
      /\ IsCheckout(d)
  <2>1. "placed" \in {"start", "quoted", "refused", "charging", "placed"}
    OBVIOUS
  <2>2. order # <<>> => order \in [DOMAIN order -> OrderRecords]
    BY <1>6
  <2> QED BY <1>1, <2>1, <2>2, CheckoutIs, CheckoutFields
<1>9. Asked(k, d)
  BY <1>1, <1>6, <1>8 DEF Asked
<1>10. Totalled(d, rates)
  BY <1>1, <1>7, <1>8, StillTotalled
<1>11. ASSUME NEW g \in G
       PROVE  /\ Accepts(d.order[g]) /\ d.order[g].price \in Nat /\ d.order[g].st # "draft"
              /\ d.order[g].refunded <= d.order[g].total /\ ItemsMatch(d, g)
  <2> DEFINE o == c.order[g]
             p == order[g]
  <2>0. /\ p.st = "placed" /\ p.price = x(g) /\ p.refunded = 0 /\ p.subtotal = o.subtotal
        /\ p.shipping = o.shipping /\ p.discount = o.discount /\ p.total = o.total
        /\ Accepts(o) /\ x(g) \in Nat /\ d.order[g] = p
    BY <1>4, <1>5, <1>8
  <2>1. Accepts(d.order[g])
    <3> HIDE DEF o, p
    <3> QED BY ONLY <2>0 DEF Accepts
  <2>2. d.order[g].price \in Nat /\ d.order[g].st # "draft" /\ d.order[g].refunded <= d.order[g].total
    <3> HIDE DEF o, p
    <3> QED BY ONLY <2>0 DEF Accepts
  <2>3. ASSUME ~ c.drift
        PROVE  2 * Abs(b.lines[g].qty * x(g) - c.order[g].subtotal) <= (b.lines[g].qty + 1) * Unit(b.currency)
    <3>1. TotalledOrder(c.order[g], b, g, rates, vp) /\ x(g) = Converted(b.lines[g].unit, b.currency, rates, up)
      BY <1>3, <2>3 DEF x
    <3> HIDE DEF b
    <3> QED BY <1>1, <3>1, ItemsNear DEF G
  <2>4. ItemsMatch(d, g)
    <3>1. d.order[g].price = x(g) /\ d.order[g].subtotal = c.order[g].subtotal
      BY <2>0
    <3> QED BY <1>8, <2>3, <3>1 DEF ItemsMatch
  <2> QED BY <2>1, <2>2, <2>4
<1>12. Stored(d)
  <2>1. d.pc = "placed" /\ Groups(d.basket) = G
    BY <1>8
  <2> HIDE DEF G
  <2> QED BY <1>11, <2>1 DEF Stored
<1> QED BY <1>7, <1>8, <1>9, <1>10, <1>12 DEF CheckoutOK

\* RefreshRates: who is between the totals and the order has drifted.
LEMMA DriftOK ==
    ASSUME NEW k \in Checkouts, NEW c, NEW r, CheckoutOK(k, c, r), NEW s,
           NEW d, d = Checkout(c.pc, c.basket, c.discount, c.charged, c.drift \/ c.pc = "charging", c.order)
    PROVE  CheckoutOK(k, d, s)
<1>1. IsCheckout(c) /\ Asked(k, c) /\ Totalled(c, r) /\ Stored(c)
  BY DEF CheckoutOK
<1> DEFINE drift == c.drift \/ c.pc = "charging"
<1>2. drift \in BOOLEAN /\ (c.pc = "charging" => drift) /\ (c.drift => drift)
  OBVIOUS
<1>3. d = Checkout(c.pc, c.basket, c.discount, c.charged, drift, c.order)
  OBVIOUS
<1> HIDE DEF drift
<1>4. /\ d.pc = c.pc /\ d.basket = c.basket /\ d.discount = c.discount /\ d.charged = c.charged /\ d.order = c.order
      /\ d.drift = drift /\ IsCheckout(d)
  BY <1>1, <1>2, <1>3, CheckoutIs, CheckoutFields
<1>5. Asked(k, d)
  BY <1>1, <1>4 DEF Asked
<1>6. Totalled(d, s)
  <2>1. CASE c.order = <<>>
    BY <1>4, <2>1 DEF Totalled
  <2>2. CASE c.order # <<>>
    <3>1. SameAmounts(c.order, d.order)
      BY <1>4 DEF SameAmounts
    <3> QED BY <1>1, <1>2, <1>4, <2>2, <3>1, StillTotalled
  <2> QED BY <2>1, <2>2
<1>7. Stored(d)
  <2> SUFFICES ASSUME d.order # <<>>, NEW g \in Groups(d.basket)
               PROVE  IF d.pc = "placed"
                      THEN /\ Accepts(d.order[g]) /\ d.order[g].price \in Nat /\ d.order[g].st # "draft"
                           /\ d.order[g].refunded <= d.order[g].total /\ ItemsMatch(d, g)
                      ELSE d.order[g].refunded = 0
    BY DEF Stored
  <2>1. IF c.pc = "placed"
        THEN /\ Accepts(c.order[g]) /\ c.order[g].price \in Nat /\ c.order[g].st # "draft"
             /\ c.order[g].refunded <= c.order[g].total /\ ItemsMatch(c, g)
        ELSE c.order[g].refunded = 0
    BY <1>1, <1>4 DEF Stored
  <2>2. ItemsMatch(c, g) => ItemsMatch(d, g)
    BY <1>2, <1>4 DEF ItemsMatch
  <2> QED BY <1>4, <2>1, <2>2
<1> QED BY <1>4, <1>5, <1>6, <1>7 DEF CheckoutOK

\* What becomes of the orders of a checkout that was placed.
LEMMA LaterOK ==
    ASSUME NEW k \in Checkouts, NEW c, NEW r, CheckoutOK(k, c, r), c.pc = "placed",
           NEW order, order \in [DOMAIN c.order -> OrderRecords], SameAmounts(c.order, order),
           \A g \in DOMAIN c.order : order[g].price = c.order[g].price /\ order[g].st # "draft"
                                     /\ order[g].refunded <= order[g].total,
           NEW d, d = Checkout(c.pc, c.basket, c.discount, c.charged, c.drift, order)
    PROVE  CheckoutOK(k, d, r)
<1>1. IsCheckout(c) /\ Asked(k, c) /\ Totalled(c, r) /\ Stored(c) /\ c.order # <<>> /\ IsBasket(c.basket)
  BY AskedFor DEF CheckoutOK, Asked
<1>2. DOMAIN c.order = Groups(c.basket) /\ DOMAIN order = Groups(c.basket) /\ Groups(c.basket) # {}
  BY <1>1, BasketAmounts DEF Totalled, SameAmounts
<1>3. order # <<>>
  BY <1>2
<1>4. /\ d.pc = "placed" /\ d.basket = c.basket /\ d.discount = c.discount /\ d.charged = c.charged /\ d.order = order
      /\ d.drift = c.drift /\ IsCheckout(d)
  <2>1. order # <<>> => order \in [DOMAIN order -> OrderRecords]
    BY <1>2
  <2> QED BY <1>1, <2>1, CheckoutIs, CheckoutFields
<1>5. Asked(k, d)
  BY <1>1, <1>3, <1>4 DEF Asked
<1>6. Totalled(d, r)
  BY <1>1, <1>4, StillTotalled
<1>7. ASSUME NEW g \in Groups(d.basket)
      PROVE  /\ Accepts(d.order[g]) /\ d.order[g].price \in Nat /\ d.order[g].st # "draft"
             /\ d.order[g].refunded <= d.order[g].total /\ ItemsMatch(d, g)
  <2>1. g \in DOMAIN c.order /\ g \in Groups(c.basket)
    BY <1>2, <1>4
  <2>2. /\ d.order[g].subtotal = c.order[g].subtotal /\ d.order[g].shipping = c.order[g].shipping
        /\ d.order[g].discount = c.order[g].discount /\ d.order[g].total = c.order[g].total
        /\ d.order[g].price = c.order[g].price
        /\ d.order[g].st # "draft" /\ d.order[g].refunded <= d.order[g].total
    BY <1>4, <2>1 DEF SameAmounts
  <2>3. Accepts(c.order[g]) /\ c.order[g].price \in Nat /\ ItemsMatch(c, g)
    BY <1>1, <2>1 DEF Stored
  <2>4. Accepts(d.order[g])
    BY <2>2, <2>3 DEF Accepts
  <2>5. ItemsMatch(d, g)
    BY <1>4, <2>2, <2>3 DEF ItemsMatch
  <2> QED BY <2>2, <2>3, <2>4, <2>5
<1>8. Stored(d)
  BY <1>4, <1>7 DEF Stored
<1> QED BY <1>4, <1>5, <1>6, <1>8 DEF CheckoutOK

-----------------------------------------------------------------------------
(* Every step keeps the invariant.                                         *)

\* What the invariant says of an order in the database.
LEMMA PlacedIs ==
    ASSUME CheckoutsInv, NEW kg \in Placed
    PROVE  LET c == co[kg[1]] IN
           /\ kg[1] \in Checkouts /\ kg[2] \in DOMAIN Percent /\ kg = <<kg[1], kg[2]>>
           /\ c.pc = "placed" /\ c.order # <<>> /\ CheckoutOK(kg[1], c, rates) /\ IsBasket(c.basket)
           /\ DOMAIN c.order = Groups(c.basket) /\ kg[2] \in DOMAIN c.order
           /\ c.order \in [DOMAIN c.order -> OrderRecords] /\ The(kg) = c.order[kg[2]] /\ The(kg) \in OrderRecords
<1> DEFINE c == co[kg[1]]
<1>1. kg[1] \in Checkouts /\ kg[2] \in DOMAIN Percent /\ kg = <<kg[1], kg[2]>> /\ c.pc = "placed" /\ kg[2] \in DOMAIN c.order
  BY DEF Placed
<1>2. CheckoutOK(kg[1], c, rates)
  BY <1>1 DEF CheckoutsInv
<1> HIDE DEF c
<1>3. IsCheckout(c) /\ Asked(kg[1], c) /\ Totalled(c, rates) /\ c.order # <<>>
  BY <1>1, <1>2 DEF CheckoutOK, Asked
<1>4. IsBasket(c.basket) /\ DOMAIN c.order = Groups(c.basket) /\ c.order \in [DOMAIN c.order -> OrderRecords]
  BY <1>1, <1>3, AskedFor, CheckoutIs DEF Totalled
<1>5. c.order[kg[2]] \in OrderRecords
  BY <1>1, <1>4
<1> QED BY <1>1, <1>2, <1>3, <1>4, <1>5 DEF The, c

\* What was placed stays placed, for the same amounts.
Kept ==
    \A k \in Checkouts : co[k].pc = "placed" => co'[k].pc = "placed" /\ SameAmounts(co[k].order, co'[k].order)

\* Orders that keep their amounts are worth the same together.
LEMMA NetOfKept ==
    ASSUME CheckoutsInv, Kept, NEW S, IsFiniteSet(S), \A kg \in S : kg \in Placed
    PROVE  /\ \A kg \in S : kg \in Placed'
           /\ NetOf(S)' = NetOf(S)
<1> DEFINE f == [kg \in S |-> The(kg).subtotal - The(kg).commission]
           g == [kg \in S |-> The(kg)'.subtotal - The(kg)'.commission]
<1>1. ASSUME NEW kg \in S
      PROVE  kg \in Placed' /\ f[kg] \in Int /\ g[kg] = f[kg]
  <2>1. kg \in Placed
    OBVIOUS
  <2>2. /\ kg[1] \in Checkouts /\ kg[2] \in DOMAIN Percent /\ kg = <<kg[1], kg[2]>> /\ co[kg[1]].pc = "placed"
        /\ kg[2] \in DOMAIN co[kg[1]].order /\ The(kg) \in OrderRecords
    BY <2>1, PlacedIs
  <2>3. co'[kg[1]].pc = "placed" /\ SameAmounts(co[kg[1]].order, co'[kg[1]].order)
    BY <2>2 DEF Kept
  <2>4. /\ kg[2] \in DOMAIN co'[kg[1]].order
        /\ The(kg)'.subtotal = The(kg).subtotal /\ The(kg)'.commission = The(kg).commission
    BY <2>2, <2>3 DEF SameAmounts, The
  <2>5. kg \in Placed'
    BY <2>2, <2>3, <2>4 DEF Placed
  <2>6. The(kg).subtotal \in Int /\ The(kg).commission \in Int
    BY <2>2 DEF OrderRecords
  <2> QED BY <2>4, <2>5, <2>6
<1>2. NetOf(S) = SumOver(S, f) /\ NetOf(S)' = SumOver(S, g)
  BY DEF NetOf
<1>3. \A kg \in S : f[kg] \in Int /\ g[kg] = f[kg]
  BY <1>1
<1>4. SumOver(S, f) = SumOver(S, g)
  <2> HIDE DEF f, g
  <2> QED BY <1>3, SumSame
<1> QED BY <1>1, <1>2, <1>4

\* At most one checkout begins.
LEMMA StartedIsFinite ==
    ASSUME PaidOut, NEW k, \A j \in Checkouts \ {k} : co'[j].pc # "start" => co[j].pc # "start"
    PROVE  IsFiniteSet({j \in Checkouts : co'[j].pc # "start"})
<1> DEFINE A == {j \in Checkouts : co[j].pc # "start"}
           B == {j \in Checkouts : co'[j].pc # "start"}
<1>1. IsFiniteSet(A)
  BY DEF PaidOut
<1>2. B \subseteq A \cup {k}
  OBVIOUS
<1> HIDE DEF A, B
<1>3. IsFiniteSet(A \cup {k})
  BY <1>1, FS_AddElement
<1>4. IsFiniteSet(B)
  BY <1>2, <1>3, FS_Subset
<1> QED BY <1>4 DEF B

\* What was paid stays the sum it was.
LEMMA PaidOutKept ==
    ASSUME CheckoutsInv, PaidOut, Kept, payouts' = payouts, NEW k,
           \A j \in Checkouts \ {k} : co'[j].pc # "start" => co[j].pc # "start"
    PROVE  PaidOut'
<1>1. IsFiniteSet({j \in Checkouts : co'[j].pc # "start"})
  BY StartedIsFinite
<1>2. ASSUME NEW p \in payouts
      PROVE  /\ p.seller \in DOMAIN Percent \ {Platform} /\ IsFiniteSet(p.of)
             /\ \A kg \in p.of : kg \in Placed' /\ kg[2] = p.seller
             /\ p.amount = NetOf(p.of)'
  <2> DEFINE S == p.of
  <2>1. /\ p.seller \in DOMAIN Percent \ {Platform} /\ IsFiniteSet(S)
        /\ \A kg \in S : kg \in Placed /\ kg[2] = p.seller
        /\ p.amount = NetOf(S)
    BY DEF PaidOut
  <2>2. /\ \A kg \in S : kg \in Placed'
        /\ NetOf(S)' = NetOf(S)
    <3> HIDE DEF S
    <3> QED BY <2>1, NetOfKept
  <2> QED BY <2>1, <2>2
<1> QED BY <1>1, <1>2 DEF PaidOut

\* One checkout changes, and the rates do not.
Changes(k, d) ==
    /\ co' = [j \in Checkouts |-> co'[j]] /\ DOMAIN co' = Checkouts
    /\ co'[k] = d /\ \A j \in Checkouts \ {k} : co'[j] = co[j]
    /\ rates' = rates /\ refreshes' = refreshes

\* A step of one checkout keeps the invariant if it keeps that of the checkout.
LEMMA InvAfter ==
    ASSUME CheckoutsInv, PaidOut, payouts' = payouts, NEW k \in Checkouts, NEW d, Changes(k, d),
           CheckoutOK(k, d, rates),
           co[k].pc = "placed" => d.pc = "placed" /\ SameAmounts(co[k].order, d.order)
    PROVE  CheckoutsInv' /\ PaidOut'
<1>1. ASSUME NEW j \in Checkouts
      PROVE  CheckoutOK(j, co'[j], rates')
  <2>1. CASE j = k
    BY <2>1 DEF Changes
  <2>2. CASE j # k
    <3>1. co'[j] = co[j] /\ rates' = rates
      BY <2>2 DEF Changes
    <3> QED BY <3>1 DEF CheckoutsInv
  <2> QED BY <2>1, <2>2
<1>2. CheckoutsInv'
  <2>1. rates' \in Tables /\ refreshes' \in 0 .. MaxRefreshes
    BY DEF CheckoutsInv, Changes
  <2>2. DOMAIN co' = Checkouts /\ co' = [j \in Checkouts |-> co'[j]]
    BY DEF Changes
  <2> QED BY <1>1, <2>1, <2>2 DEF CheckoutsInv
<1>3. Kept
  <2> SUFFICES ASSUME NEW j \in Checkouts, co[j].pc = "placed"
               PROVE  co'[j].pc = "placed" /\ SameAmounts(co[j].order, co'[j].order)
    BY DEF Kept
  <2>1. CASE j = k
    BY <2>1 DEF Changes
  <2>2. CASE j # k
    BY <2>2 DEF Changes, SameAmounts
  <2> QED BY <2>1, <2>2
<1>4. \A j \in Checkouts \ {k} : co'[j].pc # "start" => co[j].pc # "start"
  BY DEF Changes
<1> QED BY <1>2, <1>3, <1>4, PaidOutKept

\* The first state.
LEMMA InitInv == Init => CheckoutsInv /\ PaidOut
<1> SUFFICES ASSUME Init PROVE CheckoutsInv /\ PaidOut
  OBVIOUS
<1>1. ASSUME NEW k \in Checkouts
      PROVE  CheckoutOK(k, co[k], rates) /\ co[k].pc = "start"
  <2> DEFINE c == co[k]
  <2>1. PICK drift \in BOOLEAN : drift = FALSE
    OBVIOUS
  <2>2. c = Checkout("start", 0, 0, 0, drift, <<>>)
    BY <2>1 DEF Init, Start, Checkout
  <2> HIDE DEF c
  <2>3. c.pc = "start" /\ c.order = <<>> /\ IsCheckout(c)
    BY <2>2, CheckoutFields
  <2>4. Asked(k, c) /\ Totalled(c, rates) /\ Stored(c)
    BY <2>3 DEF Asked, Totalled, Stored
  <2> QED BY <2>3, <2>4 DEF CheckoutOK, c
<1>2. CheckoutsInv
  BY <1>1, MoneyAssumption DEF Init, CheckoutsInv
<1>3. {k \in Checkouts : co[k].pc # "start"} = {}
  BY <1>1
<1>4. PaidOut
  BY <1>3, FS_EmptySet DEF Init, PaidOut
<1> QED BY <1>2, <1>4

-----------------------------------------------------------------------------
(* The actions.                                                            *)

\* The checkout a step is about.
LEMMA TheCheckout ==
    ASSUME CheckoutsInv, NEW k \in Checkouts
    PROVE  /\ co = [j \in Checkouts |-> co[j]] /\ rates \in Tables
           /\ CheckoutOK(k, co[k], rates) /\ IsCheckout(co[k])
           /\ co[k] \in [pc : {co[k].pc}, basket : {co[k].basket}, discount : {co[k].discount},
                         charged : {co[k].charged}, drift : {co[k].drift}, order : {co[k].order}]
<1>1. CheckoutOK(k, co[k], rates) /\ IsCheckout(co[k])
  BY DEF CheckoutsInv, CheckoutOK
<1>2. co = [j \in Checkouts |-> co[j]] /\ rates \in Tables
  BY DEF CheckoutsInv
<1> QED BY <1>1, <1>2, CheckoutIs

\* The record an EXCEPT leaves.
LEMMA CheckoutFrom ==
    ASSUME NEW pc, NEW basket, NEW discount, NEW charged, NEW drift, NEW order,
           NEW d \in [pc : {pc}, basket : {basket}, discount : {discount}, charged : {charged}, drift : {drift}, order : {order}]
    PROVE  d = Checkout(pc, basket, discount, charged, drift, order)
  BY DEF Checkout

\* What an EXCEPT leaves of the other checkouts.
LEMMA QuoteWrites ==
    ASSUME CheckoutsInv, NEW k \in Checkouts, NEW basket, NEW pc, NEW discount,
           co' = [co EXCEPT ![k].basket = basket, ![k].pc = pc, ![k].discount = discount],
           UNCHANGED <<rates, refreshes>>
    PROVE  Changes(k, Checkout(pc, basket, discount, co[k].charged, co[k].drift, co[k].order))
<1> DEFINE d == [co[k] EXCEPT !.basket = basket, !.pc = pc, !.discount = discount]
<1>1. co'[k] = d /\ DOMAIN co' = Checkouts /\ \A j \in Checkouts \ {k} : co'[j] = co[j]
  BY TheCheckout
<1>2. d \in [pc : {pc}, basket : {basket}, discount : {discount}, charged : {co[k].charged}, drift : {co[k].drift},
             order : {co[k].order}]
  BY TheCheckout
<1>3. d = Checkout(pc, basket, discount, co[k].charged, co[k].drift, co[k].order)
  <2> HIDE DEF d
  <2> QED BY <1>2, CheckoutFrom
<1>4. co' = [j \in Checkouts |-> co'[j]]
  BY TheCheckout
<1> HIDE DEF d
<1> QED BY <1>1, <1>3, <1>4 DEF Changes

LEMMA TotalWrites ==
    ASSUME CheckoutsInv, NEW k \in Checkouts, NEW pc, NEW order, NEW charged,
           co' = [co EXCEPT ![k].pc = pc, ![k].order = order, ![k].charged = charged],
           UNCHANGED <<rates, refreshes>>
    PROVE  Changes(k, Checkout(pc, co[k].basket, co[k].discount, charged, co[k].drift, order))
<1> DEFINE d == [co[k] EXCEPT !.pc = pc, !.order = order, !.charged = charged]
<1>1. co'[k] = d /\ DOMAIN co' = Checkouts /\ \A j \in Checkouts \ {k} : co'[j] = co[j]
  BY TheCheckout
<1>2. d \in [pc : {pc}, basket : {co[k].basket}, discount : {co[k].discount}, charged : {charged}, drift : {co[k].drift},
             order : {order}]
  BY TheCheckout
<1>3. d = Checkout(pc, co[k].basket, co[k].discount, charged, co[k].drift, order)
  <2> HIDE DEF d
  <2> QED BY <1>2, CheckoutFrom
<1>4. co' = [j \in Checkouts |-> co'[j]]
  BY TheCheckout
<1> HIDE DEF d
<1> QED BY <1>1, <1>3, <1>4 DEF Changes

LEMMA PlaceWrites ==
    ASSUME CheckoutsInv, NEW k \in Checkouts, NEW pc, NEW order,
           co' = [co EXCEPT ![k].pc = pc, ![k].order = order],
           UNCHANGED <<rates, refreshes>>
    PROVE  Changes(k, Checkout(pc, co[k].basket, co[k].discount, co[k].charged, co[k].drift, order))
<1> DEFINE d == [co[k] EXCEPT !.pc = pc, !.order = order]
<1>1. co'[k] = d /\ DOMAIN co' = Checkouts /\ \A j \in Checkouts \ {k} : co'[j] = co[j]
  BY TheCheckout
<1>2. d \in [pc : {pc}, basket : {co[k].basket}, discount : {co[k].discount}, charged : {co[k].charged},
             drift : {co[k].drift}, order : {order}]
  BY TheCheckout
<1>3. d = Checkout(pc, co[k].basket, co[k].discount, co[k].charged, co[k].drift, order)
  <2> HIDE DEF d
  <2> QED BY <1>2, CheckoutFrom
<1>4. co' = [j \in Checkouts |-> co'[j]]
  BY TheCheckout
<1> HIDE DEF d
<1> QED BY <1>1, <1>3, <1>4 DEF Changes

LEMMA RefuseWrites ==
    ASSUME CheckoutsInv, NEW k \in Checkouts, NEW pc, co' = [co EXCEPT ![k].pc = pc], UNCHANGED <<rates, refreshes>>
    PROVE  Changes(k, Checkout(pc, co[k].basket, co[k].discount, co[k].charged, co[k].drift, co[k].order))
<1> DEFINE d == [co[k] EXCEPT !.pc = pc]
<1>1. co'[k] = d /\ DOMAIN co' = Checkouts /\ \A j \in Checkouts \ {k} : co'[j] = co[j]
  BY TheCheckout
<1>2. d \in [pc : {pc}, basket : {co[k].basket}, discount : {co[k].discount}, charged : {co[k].charged},
             drift : {co[k].drift}, order : {co[k].order}]
  BY TheCheckout
<1>3. d = Checkout(pc, co[k].basket, co[k].discount, co[k].charged, co[k].drift, co[k].order)
  <2> HIDE DEF d
  <2> QED BY <1>2, CheckoutFrom
<1>4. co' = [j \in Checkouts |-> co'[j]]
  BY TheCheckout
<1> HIDE DEF d
<1> QED BY <1>1, <1>3, <1>4 DEF Changes

\* Quote, then the other actions, keep the invariant.
LEMMA QuoteStep ==
    ASSUME CheckoutsInv, PaidOut, NEW k \in Checkouts, Quote(k)
    PROVE  CheckoutsInv' /\ PaidOut'
<1> DEFINE c == co[k]
<1>1. PICK b \in Baskets[k], up \in BOOLEAN :
          co' = [co EXCEPT ![k].basket = b,
                           ![k].pc = IF CartSubtotal(b) < b.coupon.min THEN "refused" ELSE "quoted",
                           ![k].discount = Discount(b, up)]
  BY DEF Quote
<1>2. c.pc = "start" /\ UNCHANGED <<rates, refreshes, payouts>>
  BY DEF Quote
<1> DEFINE pc == IF CartSubtotal(b) < b.coupon.min THEN "refused" ELSE "quoted"
           d == Checkout(pc, b, Discount(b, up), c.charged, c.drift, c.order)
<1>3. Changes(k, d)
  <2>1. co' = [co EXCEPT ![k].basket = b, ![k].pc = pc, ![k].discount = Discount(b, up)]
    BY <1>1
  <2> HIDE DEF pc
  <2> QED BY <1>2, <2>1, QuoteWrites
<1>4. pc \in {"refused", "quoted"}
  OBVIOUS
<1>5. CheckoutOK(k, c, rates) /\ c.order = <<>>
  BY <1>2, TheCheckout DEF CheckoutOK, Asked
<1> HIDE DEF pc
<1>6. CheckoutOK(k, d, rates)
  <2>1. d = Checkout(pc, b, Discount(b, up), c.charged, c.drift, <<>>)
    BY <1>5
  <2> HIDE DEF d, c
  <2> QED BY <1>2, <1>4, <1>5, <2>1, QuoteOK DEF c
<1> HIDE DEF d
<1> QED BY <1>2, <1>3, <1>6, InvAfter

LEMMA TotalStep ==
    ASSUME CheckoutsInv, PaidOut, NEW k \in Checkouts, Total(k)
    PROVE  CheckoutsInv' /\ PaidOut'
<1> DEFINE c == co[k]
           b == c.basket
<1>1. PICK last \in Groups(b), up \in BOOLEAN :
          co' = [co EXCEPT ![k].pc = "charging",
                    ![k].order = [g \in Groups(b) |-> Order(b, Allocation(b, c.discount, last, up), g, up)],
                    ![k].charged = Converted(Charge(b, Allocation(b, c.discount, last, up)), b.currency, rates, up)]
  BY DEF Total
<1>2. c.pc = "quoted" /\ UNCHANGED <<rates, refreshes, payouts>>
  BY DEF Total
<1> DEFINE alloc == Allocation(b, c.discount, last, up)
           order == [g \in Groups(b) |-> Order(b, alloc, g, up)]
           x == Converted(Charge(b, alloc), b.currency, rates, up)
           d == Checkout("charging", b, c.discount, x, c.drift, order)
<1>3. Changes(k, d)
  <2>1. co' = [co EXCEPT ![k].pc = "charging", ![k].order = order, ![k].charged = x]
    BY <1>1
  <2> HIDE DEF order, x
  <2> QED BY <1>2, <2>1, TotalWrites
<1>4. CheckoutOK(k, c, rates) /\ rates \in Tables
  BY TheCheckout
<1>5. CheckoutOK(k, d, rates)
  <2>1. /\ alloc = Allocation(c.basket, c.discount, last, up) /\ last \in Groups(c.basket)
        /\ order = [g \in Groups(c.basket) |-> Order(c.basket, alloc, g, up)]
        /\ x = Converted(Charge(c.basket, alloc), c.basket.currency, rates, up)
        /\ d = Checkout("charging", c.basket, c.discount, x, c.drift, order)
    OBVIOUS
  <2> HIDE DEF alloc, order, x, d, b, c
  <2> QED BY <1>2, <1>4, <2>1, TotalOK DEF c
<1> HIDE DEF d
<1> QED BY <1>2, <1>3, <1>5, InvAfter

LEMMA PlaceStep ==
    ASSUME CheckoutsInv, PaidOut, NEW k \in Checkouts, Place(k)
    PROVE  CheckoutsInv' /\ PaidOut'
<1> DEFINE c == co[k]
           b == c.basket
<1>1. c.pc = "charging" /\ UNCHANGED <<rates, refreshes, payouts>>
  BY DEF Place
<1>2. CheckoutOK(k, c, rates) /\ rates \in Tables
  BY TheCheckout
<1>3. CASE \A g \in Groups(b) : Accepts(c.order[g])
  <2>1. PICK up \in BOOLEAN :
          co' = [co EXCEPT ![k].pc = "placed", ![k].order = [g \in Groups(b) |->
                   PlacedAt(c.order[g], Converted(b.lines[g].unit, b.currency, rates, up))]]
    BY <1>3 DEF Place, PlacedAt
  <2> DEFINE order == [g \in Groups(b) |-> PlacedAt(c.order[g], Converted(b.lines[g].unit, b.currency, rates, up))]
             d == Checkout("placed", b, c.discount, c.charged, c.drift, order)
  <2>2. Changes(k, d)
    <3>1. co' = [co EXCEPT ![k].pc = "placed", ![k].order = order]
      BY <2>1
    <3> HIDE DEF order
    <3> QED BY <1>1, <3>1, PlaceWrites
  <2>3. CheckoutOK(k, d, rates)
    <3>1. /\ order = [g \in Groups(c.basket) |-> PlacedAt(c.order[g],
                                  Converted(c.basket.lines[g].unit, c.basket.currency, rates, up))]
          /\ d = Checkout("placed", c.basket, c.discount, c.charged, c.drift, order)
          /\ \A g \in Groups(c.basket) : Accepts(c.order[g])
      BY <1>3
    <3> HIDE DEF order, d, b, c
    <3> QED BY <1>1, <1>2, <3>1, PlaceOK DEF c
  <2> HIDE DEF d
  <2> QED BY <1>1, <2>2, <2>3, InvAfter
<1>4. CASE ~ \A g \in Groups(b) : Accepts(c.order[g])
  <2> DEFINE d == Checkout("refused", b, c.discount, c.charged, c.drift, c.order)
  <2>1. co' = [co EXCEPT ![k].pc = "refused"]
    BY <1>4 DEF Place
  <2>2. Changes(k, d)
    BY <1>1, <2>1, RefuseWrites
  <2>3. CheckoutOK(k, d, rates)
    <3>1. d = Checkout("refused", c.basket, c.discount, c.charged, c.drift, c.order)
      OBVIOUS
    <3> HIDE DEF d, b, c
    <3> QED BY <1>1, <1>2, <3>1, RefuseOK DEF c
  <2> HIDE DEF d
  <2> QED BY <1>1, <2>2, <2>3, InvAfter
<1> QED BY <1>3, <1>4

LEMMA DriftStep ==
    ASSUME CheckoutsInv, PaidOut, RefreshRates
    PROVE  CheckoutsInv' /\ PaidOut'
<1>1. ASSUME NEW k \in Checkouts
      PROVE  CheckoutOK(k, co'[k], rates') /\ co'[k].pc = co[k].pc /\ co'[k].order = co[k].order
  <2> DEFINE c == co[k]
             d == [c EXCEPT !.drift = c.drift \/ c.pc = "charging"]
  <2>1. co'[k] = d
    BY DEF RefreshRates
  <2>2. d \in [pc : {c.pc}, basket : {c.basket}, discount : {c.discount}, charged : {c.charged},
               drift : {c.drift \/ c.pc = "charging"}, order : {c.order}]
    BY TheCheckout
  <2>3. d.pc = c.pc /\ d.order = c.order
    BY <2>2
  <2>4. d = Checkout(c.pc, c.basket, c.discount, c.charged, c.drift \/ c.pc = "charging", c.order)
    BY <2>2 DEF Checkout
  <2>5. CheckoutOK(k, c, rates)
    BY TheCheckout
  <2>6. CheckoutOK(k, d, rates')
    <3> HIDE DEF c, d
    <3> QED BY <2>4, <2>5, DriftOK
  <2> HIDE DEF d
  <2> QED BY <2>1, <2>3, <2>6
<1>2. CheckoutsInv'
  <2>1. rates' \in Tables /\ refreshes' \in 0 .. MaxRefreshes
    BY MoneyAssumption DEF RefreshRates, CheckoutsInv
  <2>2. DOMAIN co' = Checkouts /\ co' = [k \in Checkouts |-> co'[k]]
    BY DEF RefreshRates
  <2> QED BY <1>1, <2>1, <2>2 DEF CheckoutsInv
<1>3. Kept
  BY <1>1 DEF Kept, SameAmounts
<1>4. payouts' = payouts
  BY DEF RefreshRates
<1>5. \A k \in Checkouts \ {Platform} : co'[k].pc # "start" => co[k].pc # "start"
  BY <1>1
<1> QED BY <1>2, <1>3, <1>4, <1>5, PaidOutKept

\* The order g of a checkout that was placed becomes o.
Becomes(c, g, o) == Checkout(c.pc, c.basket, c.discount, c.charged, c.drift, [c.order EXCEPT ![g] = o])

\* An order that moves on keeps its amounts, and so its checkout the invariant.
LEMMA BecomesOK ==
    ASSUME CheckoutsInv, NEW kg \in Placed, NEW o \in OrderRecords, NEW d, d = Becomes(co[kg[1]], kg[2], o),
           o.subtotal = The(kg).subtotal, o.shipping = The(kg).shipping, o.discount = The(kg).discount,
           o.base = The(kg).base, o.total = The(kg).total, o.commission = The(kg).commission,
           o.price = The(kg).price, o.st # "draft", o.refunded <= o.total
    PROVE  CheckoutOK(kg[1], d, rates) /\ d.pc = "placed" /\ SameAmounts(co[kg[1]].order, d.order)
<1> DEFINE k == kg[1]
           g == kg[2]
           c == co[k]
           order == [c.order EXCEPT ![g] = o]
<1>1. /\ k \in Checkouts /\ c.pc = "placed" /\ c.order # <<>> /\ CheckoutOK(k, c, rates)
      /\ DOMAIN c.order = Groups(c.basket) /\ g \in DOMAIN c.order
      /\ c.order \in [DOMAIN c.order -> OrderRecords] /\ The(kg) = c.order[g]
  BY PlacedIs
<1>2. Stored(c)
  BY <1>1 DEF CheckoutOK
<1>3. \A h \in DOMAIN c.order : c.order[h].st # "draft" /\ c.order[h].refunded <= c.order[h].total
  BY <1>1, <1>2 DEF Stored
<1> HIDE DEF c, k, g
<1>4. order \in [DOMAIN c.order -> OrderRecords]
  BY <1>1
<1>5. \A h \in DOMAIN c.order : h # g => order[h] = c.order[h]
  BY <1>1
<1>6. order[g] = o /\ DOMAIN order = DOMAIN c.order
  BY <1>1
<1> HIDE DEF order
<1>7. SameAmounts(c.order, order)
  <2> SUFFICES ASSUME NEW h \in DOMAIN c.order
               PROVE  /\ order[h].subtotal = c.order[h].subtotal /\ order[h].shipping = c.order[h].shipping
                      /\ order[h].discount = c.order[h].discount /\ order[h].base = c.order[h].base
                      /\ order[h].total = c.order[h].total /\ order[h].commission = c.order[h].commission
    BY <1>6 DEF SameAmounts
  <2>1. CASE h = g
    BY <1>1, <1>6, <2>1
  <2>2. CASE h # g
    BY <1>5, <2>2
  <2> QED BY <2>1, <2>2
<1>8. \A h \in DOMAIN c.order : order[h].price = c.order[h].price /\ order[h].st # "draft"
                                /\ order[h].refunded <= order[h].total
  <2> TAKE h \in DOMAIN c.order
  <2>1. CASE h = g
    BY <1>1, <1>6, <2>1
  <2>2. CASE h # g
    BY <1>3, <1>5, <2>2
  <2> QED BY <2>1, <2>2
<1>9. d = Checkout(c.pc, c.basket, c.discount, c.charged, c.drift, order)
  BY DEF Becomes, c, g, k, order
<1>10. CheckoutOK(k, d, rates)
  BY <1>1, <1>4, <1>7, <1>8, <1>9, LaterOK
<1>11. d.pc = "placed" /\ d.order = order
  BY <1>1, <1>9, CheckoutFields
<1> QED BY <1>7, <1>10, <1>11 DEF c, k

\* The fields a new state, and a refund, leave alone.
LEMMA StateMoves ==
    ASSUME NEW o \in OrderRecords, NEW st \in {"delivered", "paid_out", "refunded"}, NEW p, p = [o EXCEPT !.st = st]
    PROVE  /\ p \in OrderRecords /\ p.st = st /\ p.refunded = o.refunded /\ p.price = o.price
           /\ p.subtotal = o.subtotal /\ p.shipping = o.shipping /\ p.discount = o.discount
           /\ p.base = o.base /\ p.total = o.total /\ p.commission = o.commission
  BY DEF OrderRecords

LEMMA RefundMoves ==
    ASSUME NEW o \in OrderRecords, NEW x \in Int, NEW p, p = [o EXCEPT !.refunded = x]
    PROVE  /\ p \in OrderRecords /\ p.st = o.st /\ p.refunded = x /\ p.price = o.price
           /\ p.subtotal = o.subtotal /\ p.shipping = o.shipping /\ p.discount = o.discount
           /\ p.base = o.base /\ p.total = o.total /\ p.commission = o.commission
  BY DEF OrderRecords

LEMMA DeliverStep ==
    ASSUME CheckoutsInv, PaidOut, NEW kg \in Placed, Deliver(kg)
    PROVE  CheckoutsInv' /\ PaidOut'
<1> DEFINE k == kg[1]
           g == kg[2]
           c == co[k]
           o == c.order[g]
           p == [o EXCEPT !.st = "delivered"]
           d == Becomes(c, g, p)
<1>1. /\ k \in Checkouts /\ g \in DOMAIN c.order /\ The(kg) = o /\ o \in OrderRecords
      /\ c.order \in [DOMAIN c.order -> OrderRecords] /\ CheckoutOK(k, c, rates)
  BY PlacedIs
<1>2. UNCHANGED <<rates, refreshes, payouts>> /\ co' = [co EXCEPT ![k].order[g].st = "delivered"]
  BY DEF Deliver
<1>3. Changes(k, d)
  <2> DEFINE e == [c EXCEPT !.order = [c.order EXCEPT ![g] = p]]
  <2>1. co'[k] = e /\ DOMAIN co' = Checkouts /\ (\A j \in Checkouts \ {k} : co'[j] = co[j])
        /\ co' = [j \in Checkouts |-> co'[j]]
    BY <1>1, <1>2, TheCheckout
  <2>2. e \in [pc : {c.pc}, basket : {c.basket}, discount : {c.discount}, charged : {c.charged},
               drift : {c.drift}, order : {[c.order EXCEPT ![g] = p]}]
    <3>1. c \in [pc : {c.pc}, basket : {c.basket}, discount : {c.discount}, charged : {c.charged},
               drift : {c.drift}, order : {c.order}]
      BY <1>1, TheCheckout
    <3> HIDE DEF c, p, g
    <3> QED BY ONLY <3>1
  <2>3. e = d
    <3> HIDE DEF e
    <3> QED BY <2>2, CheckoutFrom DEF Becomes
  <2> HIDE DEF e, d
  <2> QED BY <1>2, <2>1, <2>3 DEF Changes
<1>4. Stored(c) /\ c.pc = "placed" /\ c.order # <<>> /\ DOMAIN c.order = Groups(c.basket)
  BY PlacedIs DEF CheckoutOK
<1>5. o.refunded <= o.total
  BY <1>1, <1>4 DEF Stored
<1>6. CheckoutOK(k, d, rates) /\ d.pc = "placed" /\ SameAmounts(c.order, d.order)
  <2>1. /\ p \in OrderRecords /\ p.st = "delivered" /\ p.refunded = o.refunded /\ p.price = o.price
        /\ p.subtotal = o.subtotal /\ p.shipping = o.shipping /\ p.discount = o.discount
        /\ p.base = o.base /\ p.total = o.total /\ p.commission = o.commission
    <3> HIDE DEF o
    <3> QED BY <1>1, StateMoves
  <2>2. d = Becomes(co[kg[1]], kg[2], p) /\ The(kg) = o
    BY <1>1
  <2> HIDE DEF p, d, o
  <2> QED BY <1>5, <2>1, <2>2, BecomesOK
<1> HIDE DEF d
<1> QED BY <1>1, <1>2, <1>3, <1>6, InvAfter

LEMMA RefundStep ==
    ASSUME CheckoutsInv, PaidOut, NEW kg \in Placed, ApproveRefund(kg)
    PROVE  CheckoutsInv' /\ PaidOut'
<1> DEFINE k == kg[1]
           g == kg[2]
           c == co[k]
           o == c.order[g]
<1>1. /\ k \in Checkouts /\ g \in DOMAIN c.order /\ The(kg) = o /\ o \in OrderRecords
      /\ c.order \in [DOMAIN c.order -> OrderRecords] /\ CheckoutOK(k, c, rates)
  BY PlacedIs
<1>2. PICK x \in {o.total, o.total + o.shipping + 1} :
          /\ x <= o.total /\ UNCHANGED <<rates, refreshes, payouts>>
          /\ co' = [co EXCEPT ![k].order[g].st = "refunded", ![k].order[g].refunded = x]
  BY <1>1 DEF ApproveRefund, RefundFits
<1>3. x \in Int
  <2>1. o.total \in Int /\ o.shipping \in Int
    BY <1>1 DEF OrderRecords
  <2> QED BY <2>1
<1> DEFINE q == [o EXCEPT !.st = "refunded"]
           p == [q EXCEPT !.refunded = x]
           d == Becomes(c, g, p)
<1>4. Changes(k, d)
  <2> DEFINE f == [co EXCEPT ![k].order[g].st = "refunded"]
             fk == [c EXCEPT !.order = [c.order EXCEPT ![g] = q]]
             e == [fk EXCEPT !.order = [fk.order EXCEPT ![g] = [fk.order[g] EXCEPT !.refunded = x]]]
  <2>1. f[k] = fk /\ DOMAIN f = Checkouts /\ (\A j \in Checkouts \ {k} : f[j] = co[j]) /\ f = [j \in Checkouts |-> f[j]]
    BY <1>1, TheCheckout
  <2>2. co' = [f EXCEPT ![k].order[g].refunded = x]
    BY <1>2
  <2>3. co'[k] = e /\ DOMAIN co' = Checkouts /\ (\A j \in Checkouts \ {k} : co'[j] = f[j])
        /\ co' = [j \in Checkouts |-> co'[j]]
    <3> HIDE DEF f, fk
    <3> QED BY <1>1, <2>1, <2>2
  <2>4. /\ fk \in [pc : {c.pc}, basket : {c.basket}, discount : {c.discount}, charged : {c.charged},
                   drift : {c.drift}, order : {[c.order EXCEPT ![g] = q]}]
    <3>1. c \in [pc : {c.pc}, basket : {c.basket}, discount : {c.discount}, charged : {c.charged},
               drift : {c.drift}, order : {c.order}]
      BY <1>1, TheCheckout
    <3> HIDE DEF c, q, g
    <3> QED BY ONLY <3>1
  <2>5. fk.order = [c.order EXCEPT ![g] = q] /\ fk.order[g] = q
    <3>1. fk.order = [c.order EXCEPT ![g] = q]
      <4> HIDE DEF fk
      <4> QED BY <2>4
    <3>2. [c.order EXCEPT ![g] = q][g] = q
      <4> HIDE DEF q
      <4> QED BY <1>1
    <3> QED BY <3>1, <3>2
  <2>6. [fk.order EXCEPT ![g] = [fk.order[g] EXCEPT !.refunded = x]] = [c.order EXCEPT ![g] = p]
    <3>1. [fk.order[g] EXCEPT !.refunded = x] = p
      <4> HIDE DEF fk, q
      <4> QED BY <2>5
    <3>2. [fk.order EXCEPT ![g] = p] = [c.order EXCEPT ![g] = p]
      <4> HIDE DEF fk, q, p
      <4>1. [[c.order EXCEPT ![g] = q] EXCEPT ![g] = p] = [c.order EXCEPT ![g] = p]
        OBVIOUS
      <4> QED BY <2>5, <4>1
    <3> HIDE DEF fk, p
    <3> QED BY <3>1, <3>2
  <2>7. e \in [pc : {c.pc}, basket : {c.basket}, discount : {c.discount}, charged : {c.charged},
               drift : {c.drift}, order : {[c.order EXCEPT ![g] = p]}]
    <3>1. e = [fk EXCEPT !.order = [c.order EXCEPT ![g] = p]]
      BY <2>6
    <3> HIDE DEF e, fk, c, q, p, g
    <3> QED BY ONLY <2>4, <3>1
  <2>8. e = d
    <3> HIDE DEF e, p
    <3> QED BY <2>7, CheckoutFrom DEF Becomes
  <2> HIDE DEF f, fk, e, d
  <2> QED BY <1>2, <2>1, <2>3, <2>8 DEF Changes
<1>5. CheckoutOK(k, d, rates) /\ d.pc = "placed" /\ SameAmounts(c.order, d.order)
  <2>1. /\ q \in OrderRecords /\ q.st = "refunded" /\ q.price = o.price
        /\ q.subtotal = o.subtotal /\ q.shipping = o.shipping /\ q.discount = o.discount
        /\ q.base = o.base /\ q.total = o.total /\ q.commission = o.commission
    <3> HIDE DEF o
    <3> QED BY <1>1, StateMoves
  <2>2. /\ p \in OrderRecords /\ p.st = q.st /\ p.refunded = x /\ p.price = q.price
        /\ p.subtotal = q.subtotal /\ p.shipping = q.shipping /\ p.discount = q.discount
        /\ p.base = q.base /\ p.total = q.total /\ p.commission = q.commission
    <3> HIDE DEF q
    <3> QED BY <1>3, <2>1, RefundMoves
  <2>3. d = Becomes(co[kg[1]], kg[2], p) /\ The(kg) = o
    BY <1>1
  <2>4. x <= o.total
    BY <1>2
  <2> HIDE DEF p, q, d, o
  <2> QED BY <2>1, <2>2, <2>3, <2>4, BecomesOK
<1> HIDE DEF d
<1> QED BY <1>1, <1>2, <1>4, <1>5, InvAfter

LEMMA PayoutStep ==
    ASSUME CheckoutsInv, PaidOut, NEW g \in DOMAIN Percent, CreatePayout(g)
    PROVE  CheckoutsInv' /\ PaidOut'
<1> DEFINE S == Payable(g)
           p(k) == [co[k].order[g] EXCEPT !.st = "paid_out"]
<1>1. PICK first \in S :
          payouts' = payouts \cup {[seller |-> g, of |-> S, amount |-> NetOf(S), currency |-> CurrencyOf(first)]}
  BY DEF CreatePayout
<1>2. /\ co' = [k \in Checkouts |-> IF <<k, g>> \in S THEN [co[k] EXCEPT !.order[g].st = "paid_out"] ELSE co[k]]
      /\ UNCHANGED <<rates, refreshes>>
  BY DEF CreatePayout
<1>3. \A kg \in S : kg \in Placed /\ kg[2] = g /\ g # Platform
  BY DEF Payable
<1>4. ASSUME NEW k \in Checkouts, <<k, g>> \in S
      PROVE  /\ CheckoutOK(k, co'[k], rates) /\ co'[k].pc = "placed"
             /\ SameAmounts(co[k].order, co'[k].order) /\ co[k].pc = "placed"
  <2> DEFINE kg == <<k, g>>
             c == co[k]
             o == c.order[g]
             d == Becomes(c, g, p(k))
  <2>1. /\ g \in DOMAIN c.order /\ The(kg) = o /\ o \in OrderRecords /\ kg \in Placed /\ c.pc = "placed"
        /\ c.order \in [DOMAIN c.order -> OrderRecords] /\ CheckoutOK(k, c, rates)
    <3>1. kg \in Placed
      BY <1>3, <1>4
    <3> QED BY <3>1, PlacedIs
  <2>2. co'[k] = [c EXCEPT !.order = [c.order EXCEPT ![g] = p(k)]]
    BY <1>2, <1>4
  <2>3. [c EXCEPT !.order = [c.order EXCEPT ![g] = p(k)]] \in [pc : {c.pc}, basket : {c.basket}, discount : {c.discount},
               charged : {c.charged}, drift : {c.drift}, order : {[c.order EXCEPT ![g] = p(k)]}]
    <3>1. c \in [pc : {c.pc}, basket : {c.basket}, discount : {c.discount}, charged : {c.charged},
               drift : {c.drift}, order : {c.order}]
      BY TheCheckout
    <3> HIDE DEF c, p
    <3> QED BY ONLY <3>1
  <2>4. co'[k] = d
    <3> HIDE DEF p
    <3> QED BY <2>2, <2>3, CheckoutFrom DEF Becomes
  <2>5. Stored(c) /\ c.pc = "placed" /\ c.order # <<>> /\ DOMAIN c.order = Groups(c.basket)
    BY <2>1, PlacedIs DEF CheckoutOK
  <2>6. o.refunded <= o.total
    BY <2>1, <2>5 DEF Stored
  <2>7. p(k) = [o EXCEPT !.st = "paid_out"]
    OBVIOUS
  <2>8. /\ p(k) \in OrderRecords /\ p(k).st = "paid_out" /\ p(k).refunded = o.refunded /\ p(k).price = o.price
        /\ p(k).subtotal = o.subtotal /\ p(k).shipping = o.shipping /\ p(k).discount = o.discount
        /\ p(k).base = o.base /\ p(k).total = o.total /\ p(k).commission = o.commission
    <3> HIDE DEF o, p
    <3> QED BY <2>1, <2>7, StateMoves
  <2>9. CheckoutOK(k, d, rates) /\ d.pc = "placed" /\ SameAmounts(c.order, d.order)
    <3>1. d = Becomes(co[kg[1]], kg[2], p(k)) /\ The(kg) = o /\ kg[1] = k
      BY <2>1
    <3> HIDE DEF p, d, o, kg
    <3> QED BY <2>1, <2>6, <2>8, <3>1, BecomesOK
  <2> HIDE DEF d
  <2> QED BY <2>1, <2>4, <2>9
<1>5. ASSUME NEW k \in Checkouts, <<k, g>> \notin S
      PROVE  co'[k] = co[k]
  BY <1>2, <1>5
<1>6. CheckoutsInv'
  <2>1. ASSUME NEW k \in Checkouts
        PROVE  CheckoutOK(k, co'[k], rates')
    <3>1. CheckoutOK(k, co[k], rates) /\ rates' = rates
      BY <1>2, TheCheckout
    <3> HIDE DEF S
    <3> QED BY <1>4, <1>5, <3>1
  <2>2. rates' \in Tables /\ refreshes' \in 0 .. MaxRefreshes
    BY <1>2 DEF CheckoutsInv
  <2>3. DOMAIN co' = Checkouts /\ co' = [k \in Checkouts |-> co'[k]]
    BY <1>2
  <2> QED BY <2>1, <2>2, <2>3 DEF CheckoutsInv
<1>7. Kept
  <2> SUFFICES ASSUME NEW k \in Checkouts, co[k].pc = "placed"
               PROVE  co'[k].pc = "placed" /\ SameAmounts(co[k].order, co'[k].order)
    BY DEF Kept
  <2>1. CASE <<k, g>> \in S
    BY <1>4, <2>1
  <2>2. CASE <<k, g>> \notin S
    BY <1>5, <2>2 DEF SameAmounts
  <2> QED BY <2>1, <2>2
<1>8. IsFiniteSet(S)
  <2> DEFINE A == {k \in Checkouts : co[k].pc # "start"}
  <2>1. IsFiniteSet(A) /\ IsFiniteSet({g})
    BY FS_Singleton DEF PaidOut
  <2>2. IsFiniteSet(A \X {g})
    <3> HIDE DEF A
    <3> QED BY <2>1, FS_Product
  <2>3. S \subseteq A \X {g}
    <3> SUFFICES ASSUME NEW kg \in S PROVE kg \in A \X {g}
      OBVIOUS
    <3>1. kg \in Placed /\ kg[2] = g
      BY <1>3
    <3>2. kg[1] \in Checkouts /\ kg = <<kg[1], kg[2]>> /\ co[kg[1]].pc = "placed"
      BY <3>1, PlacedIs
    <3> QED BY <3>1, <3>2
  <2> HIDE DEF A, S
  <2> QED BY <2>2, <2>3, FS_Subset
<1>9. PICK T : T = S
  OBVIOUS
<1>10. (\A kg \in T : kg \in Placed') /\ NetOf(T)' = NetOf(T)
  <2>1. IsFiniteSet(T) /\ \A kg \in T : kg \in Placed
    BY <1>3, <1>8, <1>9
  <2> QED BY <1>7, <2>1, NetOfKept
<1>11. IsFiniteSet({k \in Checkouts : co'[k].pc # "start"})
  <2>1. \A k \in Checkouts \ {Platform} : co'[k].pc # "start" => co[k].pc # "start"
    <3> TAKE k \in Checkouts \ {Platform}
    <3>1. CASE <<k, g>> \in S
      BY <1>4, <3>1
    <3>2. CASE <<k, g>> \notin S
      BY <1>5, <3>2
    <3> QED BY <3>1, <3>2
  <2> QED BY <2>1, StartedIsFinite
<1>12. ASSUME NEW q \in payouts'
       PROVE  /\ q.seller \in DOMAIN Percent \ {Platform} /\ IsFiniteSet(q.of)
              /\ \A kg \in q.of : kg \in Placed' /\ kg[2] = q.seller
              /\ q.amount = NetOf(q.of)'
  <2>1. CASE q \in payouts
    <3> DEFINE R == q.of
    <3>1. /\ q.seller \in DOMAIN Percent \ {Platform} /\ IsFiniteSet(R)
          /\ \A kg \in R : kg \in Placed /\ kg[2] = q.seller
          /\ q.amount = NetOf(R)
      BY <2>1 DEF PaidOut
    <3>2. (\A kg \in R : kg \in Placed') /\ NetOf(R)' = NetOf(R)
      <4> HIDE DEF R
      <4> QED BY <1>7, <3>1, NetOfKept
    <3> QED BY <3>1, <3>2
  <2>2. CASE q = [seller |-> g, of |-> T, amount |-> NetOf(T), currency |-> CurrencyOf(first)]
    <3>1. q.seller = g /\ q.of = T /\ q.amount = NetOf(T)
      BY <2>2
    <3>2. g # Platform /\ \A kg \in T : kg[2] = g
      BY <1>3, <1>9
    <3>3. IsFiniteSet(T)
      BY <1>8, <1>9
    <3>4. q.amount = NetOf(q.of)'
      BY <1>10, <3>1
    <3> QED BY <1>10, <3>1, <3>2, <3>3, <3>4
  <2> QED BY <1>1, <1>9, <2>1, <2>2
<1>13. PaidOut'
  BY <1>11, <1>12 DEF PaidOut
<1> QED BY <1>6, <1>13

\* The invariant, for every checkout and every payout.
THEOREM MoneyInvariant == Spec => [](CheckoutsInv /\ PaidOut)
<1>1. CheckoutsInv /\ PaidOut /\ [Next]_mvars => CheckoutsInv' /\ PaidOut'
  <2> SUFFICES ASSUME CheckoutsInv, PaidOut, [Next]_mvars
               PROVE  CheckoutsInv' /\ PaidOut'
    OBVIOUS
  <2>1. CASE \E k \in Checkouts : Quote(k) \/ Total(k) \/ Place(k)
    BY <2>1, QuoteStep, TotalStep, PlaceStep
  <2>2. CASE \E kg \in Placed : Deliver(kg) \/ ApproveRefund(kg)
    BY <2>2, DeliverStep, RefundStep
  <2>3. CASE \E g \in DOMAIN Percent : CreatePayout(g)
    BY <2>3, PayoutStep
  <2>4. CASE RefreshRates
    BY <2>4, DriftStep
  <2>5. CASE UNCHANGED mvars
    BY <2>5 DEF mvars, CheckoutsInv, PaidOut, Placed, NetOf, The
  <2> QED BY <2>1, <2>2, <2>3, <2>4, <2>5 DEF Next
<1> QED BY <1>1, InitInv, PTL DEF Spec

-----------------------------------------------------------------------------
(* What the invariant says of the orders.                                  *)

\* The facts about a checkout that has its orders.
LEMMA OrdersOf ==
    ASSUME CheckoutsInv, NEW k \in Checkouts, co[k].order # <<>>
    PROVE  LET c == co[k] IN
           /\ IsBasket(c.basket) /\ IsDiscount(c.discount, c.basket)
           /\ Totalled(c, rates) /\ Stored(c) /\ SplitOf(Parts(c), c.basket, c.discount)
           /\ DOMAIN c.order = Groups(c.basket) /\ c.order \in [Groups(c.basket) -> OrderRecords]
           /\ \A g \in Groups(c.basket) : Parts(c)[g] = c.order[g].base /\ c.order[g].base \in Int
<1> DEFINE c == co[k]
<1>1. IsCheckout(c) /\ Asked(k, c) /\ Totalled(c, rates) /\ Stored(c)
  BY TheCheckout DEF CheckoutOK
<1> HIDE DEF c
<1>2. c.order # <<>>
  BY DEF c
<1>3. c.pc # "start"
  BY <1>1, <1>2 DEF Asked
<1>4. IsBasket(c.basket) /\ IsDiscount(c.discount, c.basket)
  BY <1>1, <1>3, AskedFor
<1>5. SplitOf(Parts(c), c.basket, c.discount) /\ DOMAIN c.order = Groups(c.basket)
  BY <1>1, <1>2 DEF Totalled
<1>6. c.order \in [Groups(c.basket) -> OrderRecords]
  BY <1>1, <1>2, <1>5, CheckoutIs
<1>7. \A g \in Groups(c.basket) : Parts(c)[g] = c.order[g].base
  BY DEF Parts
<1>8. \A g \in Groups(c.basket) : c.order[g].base \in Int
  BY <1>5, <1>7 DEF SplitOf
<1> QED BY <1>1, <1>4, <1>5, <1>6, <1>7, <1>8 DEF c

\* No negative amount is stored: the schema refused it, or there was none.
LEMMA TypeFollows == CheckoutsInv => MoneyTypeOK
<1> SUFFICES ASSUME CheckoutsInv PROVE MoneyTypeOK
  OBVIOUS
<1>1. ASSUME NEW kg \in Placed
      PROVE  /\ {The(kg).subtotal, The(kg).shipping, The(kg).discount, The(kg).total, The(kg).price} \subseteq Nat
             /\ The(kg).st \in {"placed", "delivered", "paid_out", "refunded"}
  <2> DEFINE c == co[kg[1]]
             o == c.order[kg[2]]
  <2>1. /\ c.pc = "placed" /\ c.order # <<>> /\ CheckoutOK(kg[1], c, rates) /\ kg[2] \in Groups(c.basket)
        /\ The(kg) = o /\ o \in OrderRecords
    BY PlacedIs
  <2>2. Accepts(o) /\ o.price \in Nat /\ o.st # "draft"
    BY <2>1 DEF CheckoutOK, Stored
  <2>3. /\ {o.subtotal, o.shipping, o.discount, o.total} \subseteq Int
        /\ o.st \in {"draft", "placed", "delivered", "paid_out", "refunded"}
    BY <2>1 DEF OrderRecords
  <2> HIDE DEF o
  <2> QED BY <2>1, <2>2, <2>3 DEF Accepts
<1>2. rates \in Tables /\ refreshes \in 0 .. MaxRefreshes
  BY DEF CheckoutsInv
<1> QED BY <1>1, <1>2 DEF MoneyTypeOK

\* The discount is split exactly.
LEMMA SplitFollows == CheckoutsInv => DiscountSplitExactly
<1> SUFFICES ASSUME CheckoutsInv, NEW k \in Checkouts, co[k].order # <<>>
             PROVE  LET b == co[k].basket
                        parts == [g \in Groups(b) |-> co[k].order[g].base]
                        n == Cardinality(Groups(b))
                        S == CartSubtotal(b)
                    IN  /\ SumOver(Groups(b), parts) = co[k].discount
                        /\ \A g \in Groups(b) :
                             2 * Abs(parts[g] * S - Subtotals(b)[g] * co[k].discount) <= (n - 1) * S
  BY DEF DiscountSplitExactly
<1> DEFINE c == co[k]
           b == c.basket
           parts == Parts(c)
           n == Cardinality(Groups(b))
           S == CartSubtotal(b)
           d == c.discount
<1>1. SplitOf(parts, b, d) /\ IsBasket(b) /\ IsDiscount(d, b)
  BY OrdersOf
<1>2. parts = [g \in Groups(b) |-> c.order[g].base]
  BY DEF Parts
<1>3. n \in Nat /\ S \in Nat /\ d \in Nat /\ \A g \in Groups(b) : Subtotals(b)[g] \in Nat
  BY <1>1, BasketAmounts DEF IsDiscount
<1> HIDE DEF parts
<1>4. SumOver(Groups(b), parts) = d
  BY <1>1 DEF SplitOf
<1>5. ASSUME NEW g \in Groups(b)
      PROVE  2 * Abs(parts[g] * S - Subtotals(b)[g] * d) <= (n - 1) * S
  <2> DEFINE x == parts[g] * S
             y == Subtotals(b)[g] * d
             z == (n - 1) * S
  <2>1. parts[g] \in Int /\ 2 * (x - y) <= z /\ 2 * (y - x) <= z
    BY <1>1 DEF SplitOf
  <2>2. x \in Int /\ y \in Int /\ z \in Int
    <3> HIDE DEF n, S, b, d
    <3> QED BY <1>3, <2>1
  <2> HIDE DEF x, y, z
  <2>3. 2 * Abs(x - y) <= z
    BY <2>1, <2>2 DEF Abs
  <2> QED BY <2>3 DEF x, y, z
<1> QED BY <1>2, <1>4, <1>5

\* A discount stays within its order but for the rounding.
LEMMA WithinFollows == CheckoutsInv => DiscountWithinOrder
<1> SUFFICES ASSUME CheckoutsInv, NEW k \in Checkouts, co[k].order # <<>>
             PROVE  LET b == co[k].basket
                        c == b.currency
                        n == Cardinality(Groups(b))
                    IN  \E t \in Tables : \A g \in Groups(b) :
                          LET o == co[k].order[g] IN
                          /\ 2 * (Grain * o.base - Subtotals(b)[g]) <= n * Grain
                          /\ IF Known(c, t)
                             THEN 2 * (o.discount - o.subtotal) * t[Base] <= n * t[c] + 2 * Unit(c) * t[Base]
                             ELSE 2 * (o.discount - o.subtotal) <= n + 1
  BY DEF DiscountWithinOrder
<1> DEFINE c == co[k]
           b == c.basket
           n == Cardinality(Groups(b))
<1>1. /\ IsBasket(b) /\ IsDiscount(c.discount, b) /\ SplitOf(Parts(c), b, c.discount)
      /\ \A g \in Groups(b) : Parts(c)[g] = c.order[g].base /\ c.order[g].base \in Int
      /\ Totalled(c, rates)
  BY OrdersOf
<1>2. CartSubtotal(b) = 0 => \A g \in Groups(b) : Parts(c)[g] = 0
  BY <1>1 DEF Totalled
<1>3. PICK t \in Tables, up \in BOOLEAN : \A g \in Groups(b) : TotalledOrder(c.order[g], b, g, t, up)
  BY <1>1 DEF Totalled
<1>4. n \in Int
  BY <1>1, BasketAmounts
<1>5. ASSUME NEW g \in Groups(b)
      PROVE  /\ 2 * (Grain * c.order[g].base - Subtotals(b)[g]) <= n * Grain
             /\ IF Known(b.currency, t)
                THEN 2 * (c.order[g].discount - c.order[g].subtotal) * t[Base]
                        <= n * t[b.currency] + 2 * Unit(b.currency) * t[Base]
                ELSE 2 * (c.order[g].discount - c.order[g].subtotal) <= n + 1
  <2>1. 2 * (Grain * Parts(c)[g] - Subtotals(b)[g]) <= n * Grain
    <3> HIDE DEF b, c
    <3> QED BY <1>1, <1>2, PartsWithin
  <2>2. 2 * (Grain * c.order[g].base - Subtotals(b)[g]) <= n * Grain /\ c.order[g].base \in Int
    BY <1>1, <2>1
  <2>3. TotalledOrder(c.order[g], b, g, t, up)
    BY <1>3
  <2> DEFINE o == c.order[g]
  <2> HIDE DEF b, c, n
  <2>4. IF Known(b.currency, t)
        THEN 2 * (o.discount - o.subtotal) * t[Base] <= n * t[b.currency] + 2 * Unit(b.currency) * t[Base]
        ELSE 2 * (o.discount - o.subtotal) <= n + 1
    <3>1. o.base \in Int /\ TotalledOrder(o, b, g, t, up) /\ 2 * (Grain * o.base - Subtotals(b)[g]) <= n * Grain
      BY <2>2, <2>3
    <3> HIDE DEF o
    <3> QED BY <1>1, <1>4, <3>1, DiscountExcess
  <2> QED BY <2>2, <2>4
<1> HIDE DEF n
<1>6. \E u \in Tables : \A g \in Groups(b) :
             /\ 2 * (Grain * c.order[g].base - Subtotals(b)[g]) <= n * Grain
             /\ IF Known(b.currency, u)
                THEN 2 * (c.order[g].discount - c.order[g].subtotal) * u[Base]
                        <= n * u[b.currency] + 2 * Unit(b.currency) * u[Base]
                ELSE 2 * (c.order[g].discount - c.order[g].subtotal) <= n + 1
  BY <1>5
<1> QED BY <1>6 DEF n

\* Every order adds up.
LEMMA SumsFollow == CheckoutsInv => OrdersAddUp
<1> SUFFICES ASSUME CheckoutsInv, NEW kg \in Placed
             PROVE  LET o == The(kg)
                        b == co[kg[1]].basket
                        sum == o.subtotal + o.shipping - o.discount
                    IN  /\ Abs(o.total - Clipped(sum)) <= 2 * Unit(b.currency)
                        /\ b.currency = Base => 2 * Abs(Grain * o.subtotal - Subtotals(b)[kg[2]]) <= Grain
                        /\ NothingToRound(b) => o.total = Clipped(sum) /\ Grain * o.subtotal = Subtotals(b)[kg[2]]
  BY DEF OrdersAddUp
<1> DEFINE c == co[kg[1]]
           b == c.basket
           g == kg[2]
           o == c.order[g]
<1>1. kg[1] \in Checkouts /\ c.order # <<>> /\ g \in Groups(b) /\ The(kg) = o
  BY PlacedIs
<1>2. IsBasket(b) /\ Totalled(c, rates) /\ o.base \in Int
  BY <1>1, OrdersOf
<1>3. PICK t \in Tables, up \in BOOLEAN : TotalledOrder(o, b, g, t, up)
  BY <1>1, <1>2 DEF Totalled
<1> HIDE DEF o, g, b
<1>4. Abs(o.total - Clipped(o.subtotal + o.shipping - o.discount)) <= 2 * Unit(b.currency)
  BY <1>1, <1>2, <1>3, OrderAddsUp
<1>5. b.currency = Base => 2 * Abs(Grain * o.subtotal - Subtotals(b)[g]) <= Grain
  BY <1>1, <1>2, <1>3, SubtotalNear
<1>6. NothingToRound(b) =>
          o.total = Clipped(o.subtotal + o.shipping - o.discount) /\ Grain * o.subtotal = Subtotals(b)[g]
  BY <1>1, <1>2, <1>3, OrderIsExact
<1> QED BY <1>1, <1>4, <1>5, <1>6 DEF b, g

\* The prices of the items give the subtotal.
LEMMA ItemsFollow == CheckoutsInv => ItemsMatchSubtotal
<1> SUFFICES ASSUME CheckoutsInv, NEW kg \in Placed
             PROVE  LET l == co[kg[1]].basket.lines[kg[2]] IN
                    \/ co[kg[1]].drift
                    \/ 2 * Abs(l.qty * The(kg).price - The(kg).subtotal) <= (l.qty + 1) * Unit(CurrencyOf(kg))
  BY DEF ItemsMatchSubtotal
<1> DEFINE c == co[kg[1]]
<1>1. c.pc = "placed" /\ c.order # <<>> /\ CheckoutOK(kg[1], c, rates) /\ kg[2] \in Groups(c.basket)
  BY PlacedIs
<1>2. ItemsMatch(c, kg[2])
  BY <1>1 DEF CheckoutOK, Stored
<1> QED BY <1>2 DEF ItemsMatch, The, CurrencyOf

\* The charge, and what can be asked back of it.
LEMMA ChargeFollows == CheckoutsInv => ChargeMatchesOrders
<1> SUFFICES ASSUME CheckoutsInv, NEW k \in Checkouts, co[k].order # <<>>
             PROVE  LET b == co[k].basket IN
                    IF NothingToRound(b) THEN co[k].charged = TotalOf(k)
                    ELSE 2 * Abs(co[k].charged - TotalOf(k)) <= (Cardinality(Groups(b)) + 1) * Unit(b.currency)
  BY DEF ChargeMatchesOrders
<1> DEFINE c == co[k]
           b == c.basket
           G == Groups(b)
           T == [g \in G |-> TotalBase(b, Parts(c), g)]
           o == [g \in DOMAIN c.order |-> c.order[g].total]
           x == c.charged
<1>1. /\ IsBasket(b) /\ Totalled(c, rates) /\ DOMAIN c.order = G
      /\ \A g \in G : Parts(c)[g] = c.order[g].base /\ c.order[g].base \in Int
  BY OrdersOf
<1>2. PICK t \in Tables, up \in BOOLEAN :
          /\ x = Converted(Charge(b, Parts(c)), b.currency, t, up)
          /\ \A g \in G : TotalledOrder(c.order[g], b, g, t, up)
  BY <1>1 DEF Totalled
<1>3. ASSUME NEW g \in G
      PROVE  T[g] \in Nat /\ o[g] = Converted(T[g], b.currency, t, up)
  <2> DEFINE s == Subtotals(b)[g]
             f == ShippingFee(b, s)
             a == Grain * c.order[g].base
  <2>1. T[g] = Clipped(s + f - a)
    BY <1>1 DEF TotalBase
  <2>2. s \in Nat /\ f \in Nat /\ a \in Int
    BY <1>1, BasketAmounts, MoneyAssumption
  <2>3. c.order[g].total = Converted(Clipped(s + f - a), b.currency, t, up)
    BY <1>2 DEF TotalledOrder
  <2>4. o[g] = c.order[g].total
    BY <1>1
  <2> HIDE DEF s, f, a, T, o, b
  <2>5. T[g] \in Nat
    BY <2>1, <2>2 DEF Clipped
  <2> QED BY <2>1, <2>3, <2>4, <2>5
<1>4. Charge(b, Parts(c)) = SumOver(G, T)
  BY DEF Charge
<1>5. TotalOf(k) = SumOver(G, o)
  BY <1>1 DEF TotalOf
<1> HIDE DEF T, o, x, b, c
<1>6. x = Converted(SumOver(Groups(b), T), b.currency, t, up)
  BY <1>2, <1>4
<1>7. \A g \in Groups(b) : T[g] \in Nat /\ o[g] = Converted(T[g], b.currency, t, up)
  BY <1>3
<1>8. ASSUME NothingToRound(b), NEW g \in Groups(b)
      PROVE  IsWhole(T[g])
  <2>1. T[g] = Clipped(Subtotals(b)[g] + ShippingFee(b, Subtotals(b)[g]) - Grain * c.order[g].base)
    BY <1>1, <1>8 DEF TotalBase, T
  <2>2. c.order[g].base \in Int
    BY <1>1, <1>8
  <2> QED BY <1>1, <1>8, <2>1, <2>2, WholeAmounts
<1>9. /\ b.currency = Base /\ (\A g \in Groups(b) : IsWhole(T[g])) => x = SumOver(G, o)
      /\ 2 * Abs(x - SumOver(G, o)) <= (Cardinality(G) + 1) * Unit(b.currency)
  BY <1>1, <1>6, <1>7, ChargeNear
<1>10. NothingToRound(b) => x = SumOver(G, o)
  BY <1>8, <1>9 DEF NothingToRound
<1> QED BY <1>5, <1>9, <1>10 DEF x, b, c

\* Each order is refunded its total at most, so the orders the charge.
LEMMA RefundsFollow == CheckoutsInv => RefundsWithinCharge
<1> SUFFICES ASSUME CheckoutsInv, NEW k \in Checkouts, co[k].pc = "placed"
             PROVE  LET o == co[k].order
                        back == SumOver(DOMAIN o, [g \in DOMAIN o |-> o[g].refunded])
                        b == co[k].basket
                    IN  2 * (back - co[k].charged) <=
                            IF NothingToRound(b) THEN 0 ELSE (Cardinality(DOMAIN o) + 1) * Unit(b.currency)
  BY DEF RefundsWithinCharge
<1> DEFINE c == co[k]
           b == c.basket
           G == DOMAIN c.order
           r == [g \in G |-> c.order[g].refunded]
           t == [g \in G |-> c.order[g].total]
           x == c.charged
           bound == (Cardinality(G) + 1) * Unit(b.currency)
<1>1. c.order # <<>> /\ x \in Int
  BY TheCheckout, CheckoutIs DEF CheckoutOK, Asked
<1>2. IsBasket(b) /\ G = Groups(b) /\ c.order \in [G -> OrderRecords] /\ Stored(c)
  BY <1>1, OrdersOf
<1>3. IsFiniteSet(G) /\ Cardinality(G) \in Nat /\ bound \in Int
  <2>1. IsFiniteSet(G) /\ Cardinality(G) \in Nat
    BY <1>2, BasketAmounts
  <2>2. Unit(b.currency) \in Int
    BY DEF Unit
  <2> HIDE DEF G, b
  <2> QED BY <2>1, <2>2
<1>4. \A g \in G : r[g] \in Int /\ t[g] \in Int /\ r[g] <= t[g]
  <2> TAKE g \in G
  <2>1. c.order[g] \in OrderRecords /\ c.order[g].refunded <= c.order[g].total
    BY <1>1, <1>2 DEF Stored
  <2> QED BY <2>1 DEF OrderRecords
<1> DEFINE all == SumOver(G, t)
           back == SumOver(G, r)
<1>5. all \in Int /\ back \in Int
  <2> HIDE DEF G, r, t
  <2> QED BY <1>3, <1>4, SumInt
<1> DEFINE p == 2
           m == -2
           zero == 0
<1>6. p * back + m * all + zero * all <= zero * Cardinality(G)
  <2> HIDE DEF G, r, t
  <2>1. p \in Int /\ m \in Int /\ zero \in Int
    OBVIOUS
  <2>2. \A g \in G : p * r[g] + m * t[g] + zero * t[g] <= zero
    BY <1>4
  <2>3. \A g \in G : r[g] \in Int /\ t[g] \in Int
    BY <1>4
  <2> HIDE DEF p, m, zero
  <2> QED BY ONLY <1>3, <2>1, <2>2, <2>3, SumWithin
<1>7. back <= all
  <2> HIDE DEF all, back, G
  <2> QED BY <1>3, <1>5, <1>6
<1>8. IF NothingToRound(b) THEN x = all ELSE 2 * Abs(x - all) <= bound
  <2>1. TotalOf(k) = all
    BY DEF TotalOf
  <2> HIDE DEF all
  <2> QED BY <1>1, <1>2, <2>1, ChargeFollows DEF ChargeMatchesOrders
<1>9. 2 * (back - x) <= IF NothingToRound(b) THEN 0 ELSE bound
  <2> HIDE DEF all, back, bound, x, b
  <2>1. CASE NothingToRound(b)
    BY <1>1, <1>5, <1>7, <1>8, <2>1
  <2>2. CASE ~ NothingToRound(b)
    <3>1. 2 * Abs(x - all) <= bound
      BY <1>8, <2>2
    <3>2. 2 * (all - x) <= bound
      BY <1>1, <1>3, <1>5, <3>1 DEF Abs
    <3> QED BY <1>1, <1>3, <1>5, <1>7, <2>2, <3>2
  <2> QED BY <2>1, <2>2
<1> QED BY <1>9

\* What a payout pays for its orders, from what each of them is worth.
LEMMA ShareFollows == CheckoutsInv /\ PaidOut => SellersGetTheirShare
<1> SUFFICES ASSUME CheckoutsInv, PaidOut, NEW p \in payouts
             PROVE  LET sold == SumOver(p.of, [kg \in p.of |-> The(kg).subtotal])
                        n == Cardinality(p.of)
                        rate == Percent[p.seller]
                    IN  /\ 100 * p.amount >= (100 - rate) * sold - 50 * n
                        /\ 100 * p.amount <= 100 * sold + rate * SumOver(p.of, [kg \in p.of |-> Excess(kg)]) + 50 * n
  BY DEF SellersGetTheirShare
<1> DEFINE S == p.of
           f == [kg \in S |-> The(kg).subtotal - The(kg).commission]
           s == [kg \in S |-> The(kg).subtotal]
           e == [kg \in S |-> Excess(kg)]
           rate == Percent[p.seller]
<1>1. /\ p.seller \in DOMAIN Percent \ {Platform} /\ IsFiniteSet(S)
      /\ \A kg \in S : kg \in Placed /\ kg[2] = p.seller
      /\ p.amount = SumOver(S, f)
  BY DEF PaidOut, NetOf
<1>2. rate \in 0 .. 100
  BY <1>1, MoneyAssumption
<1>3. ASSUME NEW kg \in S
      PROVE  /\ f[kg] \in Int /\ s[kg] \in Int /\ e[kg] \in Int
             /\ 100 * f[kg] >= (100 - rate) * s[kg] - 50
             /\ 100 * f[kg] <= 100 * s[kg] + rate * e[kg] + 50
  <2> DEFINE c == co[kg[1]]
             o == The(kg)
             g == p.seller
  <2>1. /\ kg[1] \in Checkouts /\ c.pc = "placed" /\ c.order # <<>> /\ kg[2] \in Groups(c.basket)
        /\ o = c.order[kg[2]] /\ kg[2] = g /\ o \in OrderRecords
    BY <1>1, PlacedIs
  <2>2. Totalled(c, rates) /\ Stored(c)
    BY <2>1, OrdersOf
  <2>3. PICK t \in Tables, up \in BOOLEAN : TotalledOrder(o, c.basket, g, t, up)
    BY <2>1, <2>2 DEF Totalled
  <2>4. o.commission = Commission(g, o.subtotal, o.shipping, o.discount, up)
    BY <2>3 DEF TotalledOrder
  <2>5. Accepts(o)
    BY <2>1, <2>2 DEF Stored
  <2>6. o.subtotal \in Int /\ o.discount \in Nat
    BY <2>1, <2>5 DEF OrderRecords, Accepts
  <2>7. f[kg] = o.subtotal - o.commission /\ s[kg] = o.subtotal /\ e[kg] = Clipped(o.discount - o.subtotal)
    BY DEF Excess
  <2>8. /\ o.commission \in Int
        /\ 100 * (o.subtotal - o.commission) >= (100 - rate) * o.subtotal - 50
        /\ 100 * (o.subtotal - o.commission) <= 100 * o.subtotal + rate * Clipped(o.discount - o.subtotal) + 50
    <3> HIDE DEF o, g
    <3> QED BY <1>1, <2>4, <2>6, CommissionBounds DEF g
  <2>9. Clipped(o.discount - o.subtotal) \in Int
    <3> HIDE DEF o
    <3> QED BY <2>6 DEF Clipped
  <2> HIDE DEF o, f, s, e
  <2> QED BY <2>6, <2>7, <2>8, <2>9
<1> DEFINE F == SumOver(S, f)
           A == SumOver(S, s)
           E == SumOver(S, e)
           n == Cardinality(S)
           h == 100
           m == -100
           q == 100 - rate
           r == -rate
           z == 0
           v == 50
<1>4. F \in Int /\ A \in Int /\ E \in Int /\ n \in Nat
  <2>1. \A kg \in S : f[kg] \in Int /\ s[kg] \in Int /\ e[kg] \in Int
    BY <1>3
  <2> HIDE DEF S, f, s, e
  <2> QED BY <1>1, <2>1, SumInt, FS_CardinalityType
<1>5. h \in Int /\ m \in Int /\ q \in Int /\ r \in Int /\ z \in Int /\ v \in Int
  BY <1>2
<1>6. \A kg \in S : f[kg] \in Int /\ s[kg] \in Int /\ e[kg] \in Int
  BY <1>3
<1>7. m * F + q * A + z * E <= v * n
  <2>1. \A kg \in S : m * f[kg] + q * s[kg] + z * e[kg] <= v
    <3> TAKE kg \in S
    <3>1. 100 * f[kg] >= q * s[kg] - 50 /\ f[kg] \in Int /\ s[kg] \in Int /\ e[kg] \in Int
      BY <1>3
    <3>2. q * s[kg] \in Int /\ m * f[kg] = -(100 * f[kg]) /\ z * e[kg] = 0
      <4> HIDE DEF f, s, e, q
      <4> QED BY <1>5, <3>1
    <3> HIDE DEF f, s, e, q, m, z
    <3> QED BY <3>1, <3>2
  <2> HIDE DEF S, f, s, e, h, m, q, r, z, v
  <2> QED BY ONLY <1>1, <1>5, <1>6, <2>1, SumWithin
<1>8. h * F + m * A + r * E <= v * n
  <2>1. \A kg \in S : h * f[kg] + m * s[kg] + r * e[kg] <= v
    <3> TAKE kg \in S
    <3>1. 100 * f[kg] <= 100 * s[kg] + rate * e[kg] + 50 /\ f[kg] \in Int /\ s[kg] \in Int /\ e[kg] \in Int
      BY <1>3
    <3>2. r * e[kg] = -(rate * e[kg]) /\ rate * e[kg] \in Int
      <4> HIDE DEF e, rate
      <4> QED BY <1>2, <3>1
    <3> HIDE DEF f, s, e, rate, r
    <3> QED BY <3>1, <3>2
  <2> HIDE DEF S, f, s, e, h, m, q, r, z, v
  <2> QED BY ONLY <1>1, <1>5, <1>6, <2>1, SumWithin
<1> HIDE DEF F, A, E, n, rate
<1>9. 100 * F >= (100 - rate) * A - 50 * n
  <2>1. q * A = (100 - rate) * A /\ q * A \in Int
    BY <1>2, <1>4
  <2> HIDE DEF q
  <2> QED BY <1>4, <1>7, <2>1
<1>10. 100 * F <= 100 * A + rate * E + 50 * n
  <2>1. r * E = -(rate * E) /\ rate * E \in Int
    BY <1>2, <1>4
  <2> HIDE DEF r
  <2> QED BY <1>4, <1>8, <2>1
<1> QED BY <1>1, <1>9, <1>10 DEF F, A, E, n, rate

\* Every order of a split cart is right by itself, for every basket, table of
\* rates and rounding (placeOrder, allocateProportionally, convertAmount).
THEOREM SplitSafety == Spec => []SplitInv
<1>1. CheckoutsInv => SplitInv
  BY TypeFollows, SplitFollows, WithinFollows, SumsFollow, ItemsFollow DEF SplitInv
<1> QED BY <1>1, MoneyInvariant, PTL

\* The one charge is what the orders say, and refunds stay within it
\* (placeOrder, approveRefund).
THEOREM ChargeSafety == Spec => []ChargeInv
<1>1. CheckoutsInv => ChargeInv
  BY ChargeFollows, RefundsFollow DEF ChargeInv
<1> QED BY <1>1, MoneyInvariant, PTL

\* A payout is the subtotals of its orders less the seller's commission
\* (createPayout, placeOrder: commissionAmount).
THEOREM ShareSafety == Spec => []SellersGetTheirShare
<1> QED BY MoneyInvariant, ShareFollows, PTL
=============================================================================
