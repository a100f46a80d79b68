----------------------------- MODULE NumberSets -----------------------------
(***************************************************************************)
(* Facts that several components need, about finite sets of numbers (the   *)
(* lowest free frame, the first slab that passes a test, the members of a  *)
(* set in ascending order), sums over finite sets, and what a sequence has *)
(* at a set of places.                                                     *)
(***************************************************************************)
EXTENDS Integers, Sequences, FiniteSets, FiniteSetsExt, FiniteSetTheorems,
        SequenceTheorems, TLAPS

\* The position of p among the members of F, from 1.
Rank(F, p) == Cardinality({q \in F : q <= p})

\* Ranks are between 1 and the number of members, and grow with the members.
LEMMA RankGrows ==
  ASSUME NEW F \in SUBSET Nat, IsFiniteSet(F)
  PROVE  /\ \A p \in F : Rank(F, p) \in 1 .. Cardinality(F)
         /\ \A p, r \in F : p < r => Rank(F, p) < Rank(F, r)
  <1> DEFINE Below(p) == {q \in F : q <= p}
  <1>1. \A p : IsFiniteSet(Below(p)) /\ Cardinality(Below(p)) \in Nat
    <2> TAKE p
    <2>1. Below(p) \in SUBSET F
      OBVIOUS
    <2> QED
      BY <2>1, FS_Subset, FS_CardinalityType
  <1>2. \A p \in F : Rank(F, p) \in 1 .. Cardinality(F)
    <2> TAKE p \in F
    <2>1. Below(p) \in SUBSET F /\ p \in Below(p)
      OBVIOUS
    <2>2. Cardinality(Below(p)) <= Cardinality(F)
      BY <2>1, FS_Subset
    <2>3. Cardinality(Below(p)) # 0
      BY <1>1, <2>1, FS_EmptySet
    <2>4. Cardinality(F) \in Nat
      BY FS_CardinalityType
    <2> QED
      BY <1>1, <2>2, <2>3, <2>4 DEF Rank
  <1>3. ASSUME NEW p \in F, NEW r \in F, p < r
        PROVE  Rank(F, p) < Rank(F, r)
    <2>0. p \in Nat /\ r \in Nat /\ \A q \in F : q \in Nat
      OBVIOUS
    <2>1. Below(p) \in SUBSET Below(r)
      <3>1. \A q \in F : q <= p => q <= r
        BY <1>3, <2>0
      <3> QED
        BY <3>1
    <2>2. r \in Below(r) /\ r \notin Below(p)
      BY <1>3, <2>0
    <2>3. Cardinality(Below(p)) <= Cardinality(Below(r))
      BY <1>1, <2>1, FS_Subset
    <2>4. Cardinality(Below(p)) # Cardinality(Below(r))
      BY <1>1, <2>1, <2>2, FS_Subset
    <2> QED
      BY <1>1, <2>3, <2>4 DEF Rank
  <1> QED
    BY <1>2, <1>3

\* Every position is the rank of exactly one member: the members of a finite
\* set can be numbered in ascending order.
LEMMA RankUnique ==
  ASSUME NEW F \in SUBSET Nat, IsFiniteSet(F)
  PROVE  /\ \A p, r \in F : Rank(F, p) = Rank(F, r) => p = r
         /\ \A j \in 1 .. Cardinality(F) : \E p \in F : Rank(F, p) = j
  <1> DEFINE n == Cardinality(F)
             f == [p \in F |-> Rank(F, p)]
  <1>0. n \in Nat
    BY FS_CardinalityType
  <1>1. \A p, r \in F : Rank(F, p) = Rank(F, r) => p = r
    <2> SUFFICES ASSUME NEW p \in F, NEW r \in F, Rank(F, p) = Rank(F, r)
                 PROVE  p = r
      OBVIOUS
    <2>1. p \in Nat /\ r \in Nat /\ Rank(F, p) \in Nat
      BY <1>0, RankGrows
    <2>2. ~ p < r /\ ~ r < p
      BY <2>1, RankGrows
    <2> QED
      BY <2>1, <2>2
  <1>2. f \in [F -> 1 .. n]
    BY RankGrows
  <1>3. f \in Injection(F, 1 .. n)
    BY <1>1, <1>2 DEF Injection, IsInjective
  <1>4. IsFiniteSet(1 .. n) /\ Cardinality(1 .. n) = n
    BY <1>0, FS_Interval
  <1>5. f \in Surjection(F, 1 .. n)
    BY <1>3, <1>4, FS_Injection
  <1>6. \A j \in 1 .. n : \E p \in F : Rank(F, p) = j
    BY <1>5 DEF Surjection
  <1> QED
    BY <1>1, <1>6

\* A finite, nonempty set of naturals has a least member, and Min is it.
LEMMA MinIsLeast ==
  ASSUME NEW F \in SUBSET Nat, IsFiniteSet(F), F # {}
  PROVE  Min(F) \in F /\ \A q \in F : Min(F) <= q
  <1>1. Cardinality(F) \in Nat /\ Cardinality(F) # 0
    BY FS_CardinalityType, FS_EmptySet
  <1>2. PICK p \in F : Rank(F, p) = 1
    BY <1>1, RankUnique
  <1>3. \A q \in F : p <= q
    <2> SUFFICES ASSUME NEW q \in F, ~ p <= q PROVE FALSE
      OBVIOUS
    <2>1. q < p /\ Rank(F, q) \in 1 .. Cardinality(F)
      BY RankGrows
    <2> QED
      BY <1>2, <2>1, RankGrows
  <1> QED
    BY <1>3 DEF Min

\* A set of numbers below n has at most n members.
LEMMA BoundedSet ==
  ASSUME NEW n \in Nat, NEW F \in SUBSET (0 .. (n - 1))
  PROVE  IsFiniteSet(F) /\ Cardinality(F) \in 0 .. n
  <1> DEFINE I == 0 .. (n - 1)
  <1>1. n - 1 \in Int /\ 0 \in Int
    OBVIOUS
  <1>2. IsFiniteSet(I) /\ Cardinality(I) = IF 0 > n - 1 THEN 0 ELSE (n - 1) - 0 + 1
    BY <1>1, FS_Interval
  <1>3. Cardinality(I) = n
    BY <1>2
  <1> HIDE DEF I
  <1>4. IsFiniteSet(F) /\ Cardinality(F) <= Cardinality(I)
    BY <1>2, FS_Subset DEF I
  <1>5. Cardinality(F) \in Nat
    BY <1>4, FS_CardinalityType
  <1> QED
    BY <1>3, <1>4, <1>5

\* Two sets with nothing in common have as many members as both together.
LEMMA DisjointCount ==
  ASSUME NEW S, IsFiniteSet(S), NEW T, IsFiniteSet(T), S \cap T = {}
  PROVE  Cardinality(S \cup T) = Cardinality(S) + Cardinality(T)
  <1>1. Cardinality(S) \in Nat /\ Cardinality(T) \in Nat
    BY FS_CardinalityType
  <1>2. Cardinality({}) = 0
    BY FS_EmptySet
  <1>3. Cardinality(S \cup T) = Cardinality(S) + Cardinality(T) - Cardinality(S \cap T)
    BY FS_Union
  <1>4. Cardinality(S \cap T) = 0
    BY <1>2
  <1> QED
    BY <1>1, <1>3, <1>4

-----------------------------------------------------------------------------
(* Induction over an interval, with a set in the place of the predicate,   *)
(* and the functions that are defined by it.                               *)

\* A set that has 0 and with every number the next one has all up to n.
LEMMA IntervalInduction ==
  ASSUME NEW n \in Nat, NEW S, 0 \in S, \A k \in 0 .. (n - 1) : k \in S => k + 1 \in S
  PROVE  \A k \in 0 .. n : k \in S
  <1> DEFINE B == {k \in 0 .. n : k \notin S}
  <1> SUFFICES ASSUME B # {} PROVE FALSE
    OBVIOUS
  <1>1. B \in SUBSET Nat /\ B \in SUBSET (0 .. ((n + 1) - 1)) /\ n + 1 \in Nat
    OBVIOUS
  <1>2. IsFiniteSet(B)
    <2> HIDE DEF B
    <2> QED
      BY <1>1, BoundedSet
  <1>3. Min(B) \in B /\ \A q \in B : Min(B) <= q
    BY <1>1, <1>2, MinIsLeast
  <1> DEFINE m == Min(B)
  <1>4. m \in 0 .. n /\ m \notin S /\ \A q \in 0 .. n : q \notin S => m <= q
    BY <1>3
  <1> HIDE DEF m, B
  <1>5. m # 0
    BY <1>4
  <1>6. m - 1 \in 0 .. (n - 1) /\ m - 1 \in S
    BY <1>4, <1>5
  <1>7. (m - 1) + 1 \in S
    BY <1>6
  <1> QED
    BY <1>4, <1>7

\* f starts with a and goes on by the table step, up to n.
Iterates(f, n, a, step) == f[0] = a /\ \A k \in 1 .. n : f[k] = step[<<k, f[k - 1]>>]

\* Every start and every table has such a function.
LEMMA RecursionExists ==
  ASSUME NEW n \in Nat, NEW V, NEW a \in V, NEW step \in [(1 .. n) \X V -> V]
  PROVE  \E f \in [0 .. n -> V] : Iterates(f, n, a, step)
  <1> DEFINE P(m, f) == f[0] = a /\ \A k \in 1 .. m : f[k] = step[<<k, f[k - 1]>>]
             S == {m \in 0 .. n : \E f \in [0 .. m -> V] : P(m, f)}
  <1>1. 0 \in S
    <2> DEFINE f == [k \in 0 .. 0 |-> a]
    <2>1. f \in [0 .. 0 -> V] /\ f[0] = a /\ 0 \in 0 .. n
      OBVIOUS
    <2>2. \A k \in 1 .. 0 : FALSE
      OBVIOUS
    <2> HIDE DEF f
    <2>3. P(0, f)
      BY <2>1, <2>2
    <2> QED
      BY <2>1, <2>3
  <1>2. ASSUME NEW m \in 0 .. (n - 1), m \in S PROVE m + 1 \in S
    <2>1. PICK f \in [0 .. m -> V] : P(m, f)
      BY <1>2
    <2>2. m \in Nat /\ m + 1 \in 1 .. n /\ m \in 0 .. m
      OBVIOUS
    <2> DEFINE v == step[<<m + 1, f[m]>>]
               g == [k \in 0 .. (m + 1) |-> IF k = m + 1 THEN v ELSE f[k]]
    <2>3. v \in V
      <3>1. f[m] \in V
        BY <2>2
      <3>2. <<m + 1, f[m]>> \in (1 .. n) \X V
        BY <2>2, <3>1
      <3> QED
        BY <3>2
    <2>4. \A k \in 0 .. m : f[k] \in V /\ k \in 0 .. (m + 1) /\ k # m + 1
      BY <2>2
    <2>5. \A k \in 0 .. (m + 1) : k = m + 1 \/ k \in 0 .. m
      BY <2>2
    <2>6. g \in [0 .. (m + 1) -> V]
      <3> HIDE DEF v
      <3> QED
        BY <2>3, <2>4, <2>5
    <2>7. \A k \in 0 .. m : g[k] = f[k]
      BY <2>4
    <2>8. g[m + 1] = v
      BY <2>2
    <2> HIDE DEF g
    <2>9. P(m + 1, g)
      <3>1. g[0] = a
        BY <2>1, <2>2, <2>7
      <3>2. ASSUME NEW k \in 1 .. (m + 1) PROVE g[k] = step[<<k, g[k - 1]>>]
        <4>1. CASE k = m + 1
          <5>1. k - 1 = m
            BY <2>2, <4>1
          <5>2. g[k - 1] = f[m]
            BY <2>2, <2>7, <5>1
          <5> QED
            BY <2>8, <4>1, <5>2
        <4>2. CASE k # m + 1
          <5>1. k \in 1 .. m /\ k \in 0 .. m /\ k - 1 \in 0 .. m
            BY <2>2, <4>2
          <5> QED
            BY <2>1, <2>7, <5>1
        <4> QED
          BY <4>1, <4>2
      <3> QED
        BY <3>1, <3>2
    <2> QED
      BY <2>2, <2>6, <2>9
  <1>3. \A k \in 0 .. n : k \in S
    <2> HIDE DEF S
    <2> QED
      BY <1>1, <1>2, IntervalInduction
  <1>4. n \in S
    BY <1>3
  <1> QED
    BY <1>4 DEF Iterates

\* A finite, nonempty set of naturals has a greatest member, and Max is it.
LEMMA MaxIsGreatest ==
  ASSUME NEW F \in SUBSET Nat, IsFiniteSet(F), F # {}
  PROVE  Max(F) \in F /\ \A q \in F : q <= Max(F)
  <1>1. Cardinality(F) \in Nat /\ Cardinality(F) # 0
    BY FS_CardinalityType, FS_EmptySet
  <1>2. PICK p \in F : Rank(F, p) = Cardinality(F)
    BY <1>1, RankUnique
  <1>3. \A q \in F : q <= p
    <2> SUFFICES ASSUME NEW q \in F, ~ q <= p PROVE FALSE
      OBVIOUS
    <2>1. p < q /\ Rank(F, q) \in 1 .. Cardinality(F)
      BY RankGrows
    <2>2. Rank(F, p) < Rank(F, q)
      BY <2>1, RankGrows
    <2> QED
      BY <1>1, <1>2, <2>1, <2>2
  <1>4. \E x \in F : \A y \in F : x >= y
    BY <1>3
  <1>5. \A x, y \in F : x >= y <=> y <= x
    OBVIOUS
  <1> QED
    BY <1>4, <1>5 DEF Max

-----------------------------------------------------------------------------
(* Sums over the members of a finite set.                                  *)

\* One step of a sum over the members of s: the weight of one, and the rest.
SumStep(g, W, S) ==
    [s \in SUBSET S |->
        IF s = {} THEN 0
        ELSE W[CHOOSE x \in s : TRUE] + g[s \ {CHOOSE x \in s : TRUE}]]

\* What the sets of a family have together.
Joined(D, s) == UNION {D[x] : x \in s}

\* Finitely many finite sets are finite together, and a set that has nothing
\* in common with the others adds its members to theirs.
LEMMA JoinedCount ==
  ASSUME NEW S, IsFiniteSet(S), NEW D, \A x \in S : IsFiniteSet(D[x]),
         \A x, y \in S : x # y => D[x] \cap D[y] = {}
  PROVE  /\ \A s \in SUBSET S : /\ IsFiniteSet(Joined(D, s))
                                /\ Cardinality(Joined(D, s)) \in Nat
         /\ Joined(D, {}) = {}
         /\ \A s \in SUBSET S : \A x \in s :
               Cardinality(Joined(D, s)) = Cardinality(D[x]) + Cardinality(Joined(D, s \ {x}))
  <1>1. ASSUME NEW s \in SUBSET S
        PROVE  IsFiniteSet(Joined(D, s)) /\ Cardinality(Joined(D, s)) \in Nat
    <2> DEFINE T == {D[x] : x \in s}
               f == [x \in s |-> D[x]]
    <2>1. IsFiniteSet(s)
      BY FS_Subset
    <2>2. f \in Surjection(s, T)
      BY DEF Surjection
    <2>3. IsFiniteSet(T)
      <3> HIDE DEF T, f
      <3> QED
        BY <2>1, <2>2, FS_Surjection
    <2>4. \A t \in T : IsFiniteSet(t)
      OBVIOUS
    <2>5. IsFiniteSet(UNION T)
      <3> HIDE DEF T
      <3> QED
        BY <2>3, <2>4, FS_UNION
    <2>6. Joined(D, s) = UNION T
      BY DEF Joined
    <2> HIDE DEF T
    <2> QED
      BY <2>5, <2>6, FS_CardinalityType
  <1>2. Joined(D, {}) = {}
    BY DEF Joined
  <1>3. ASSUME NEW s \in SUBSET S, NEW x \in s
        PROVE  Cardinality(Joined(D, s)) = Cardinality(D[x]) + Cardinality(Joined(D, s \ {x}))
    <2>1. s \ {x} \in SUBSET S /\ x \in S
      OBVIOUS
    <2>2. Joined(D, s) = D[x] \cup Joined(D, s \ {x})
      BY DEF Joined
    <2>3. D[x] \cap Joined(D, s \ {x}) = {}
      BY <2>1 DEF Joined
    <2>4. IsFiniteSet(Joined(D, s \ {x})) /\ IsFiniteSet(D[x])
      BY <1>1, <2>1
    <2> QED
      BY <2>2, <2>3, <2>4, DisjointCount
  <1> QED
    BY <1>1, <1>2, <1>3

\* The sum of the sizes of disjoint sets is the size of what they have
\* together: there is a function that sums step by step, and every such
\* function yields that size.
LEMMA SumOfSizes ==
  ASSUME NEW S, IsFiniteSet(S), NEW D, \A x \in S : IsFiniteSet(D[x]),
         \A x, y \in S : x # y => D[x] \cap D[y] = {},
         NEW W, \A x \in S : W[x] = Cardinality(D[x])
  PROVE  /\ \E h : h = SumStep(h, W, S)
         /\ \A g : g = SumStep(g, W, S) => g[S] = Cardinality(Joined(D, S))
  <1> DEFINE C(s) == Cardinality(Joined(D, s))
             ch(s) == CHOOSE x \in s : TRUE
  <1>1. /\ \A s \in SUBSET S : C(s) \in Nat
        /\ C({}) = 0
        /\ \A s \in SUBSET S : \A x \in s : C(s) = Cardinality(D[x]) + C(s \ {x})
    BY JoinedCount, FS_EmptySet
  <1>2. \A s \in SUBSET S : s # {} => ch(s) \in s /\ s \ {ch(s)} \in SUBSET S
    OBVIOUS
  <1>3. \A s \in SUBSET S : s # {} => C(s) = W[ch(s)] + C(s \ {ch(s)})
    <2> HIDE DEF C, ch
    <2> QED
      BY <1>1, <1>2
  <1>4. \E h : h = SumStep(h, W, S)
    <2> DEFINE h == [s \in SUBSET S |-> C(s)]
    <2>1. \A s \in SUBSET S : h[s] = C(s)
      OBVIOUS
    <2>2. ASSUME NEW s \in SUBSET S
          PROVE  h[s] = IF s = {} THEN 0 ELSE W[ch(s)] + h[s \ {ch(s)}]
      <3> HIDE DEF C, ch, h
      <3> QED
        BY <1>1, <1>2, <1>3, <2>1
    <2>3. h = [s \in SUBSET S |-> h[s]]
      OBVIOUS
    <2>4. h = SumStep(h, W, S)
      <3>1. h = [s \in SUBSET S |-> IF s = {} THEN 0 ELSE W[ch(s)] + h[s \ {ch(s)}]]
        <4> HIDE DEF h, ch
        <4> QED
          BY <2>2, <2>3
      <3> HIDE DEF h
      <3> QED
        BY <3>1 DEF SumStep
    <2> HIDE DEF h
    <2> QED
      BY <2>4
  <1>5. ASSUME NEW g, g = SumStep(g, W, S)
        PROVE  g[S] = C(S)
    <2>1. ASSUME NEW s \in SUBSET S
          PROVE  g[s] = IF s = {} THEN 0 ELSE W[ch(s)] + g[s \ {ch(s)}]
      BY <1>5 DEF SumStep
    <2> DEFINE N == Cardinality(S)
               P == {k \in Nat : \A s \in SUBSET S : Cardinality(s) = k => g[s] = C(s)}
    <2>2. \A s \in SUBSET S : IsFiniteSet(s) /\ Cardinality(s) \in Nat
      BY FS_Subset, FS_CardinalityType
    <2>3. 0 \in P
      <3>1. \A s \in SUBSET S : Cardinality(s) = 0 => s = {}
        BY <2>2, FS_EmptySet
      <3> HIDE DEF C, ch
      <3> QED
        BY <1>1, <2>1, <3>1
    <2>4. ASSUME NEW k \in 0 .. (N - 1), k \in P PROVE k + 1 \in P
      <3>1. ASSUME NEW s \in SUBSET S, Cardinality(s) = k + 1
            PROVE  g[s] = C(s)
        <4>1. s # {}
          <5>1. k + 1 # 0
            BY <2>4
          <5>2. Cardinality({}) = 0
            BY FS_EmptySet
          <5> QED
            BY <3>1, <5>1, <5>2
        <4> DEFINE r == s \ {ch(s)}
        <4>2. r \in SUBSET S /\ ch(s) \in s
          BY <4>1
        <4>3. Cardinality(r) = k
          <5>1. Cardinality(r) = Cardinality(s) - 1
            <6> HIDE DEF ch
            <6> QED
              BY <2>2, <4>2, FS_RemoveElement
          <5> HIDE DEF r
          <5> QED
            BY <2>4, <3>1, <5>1
        <4>4. g[r] = C(r)
          <5> HIDE DEF r, C
          <5> QED
            BY <2>4, <4>2, <4>3
        <4>5. g[s] = W[ch(s)] + g[r] /\ C(s) = W[ch(s)] + C(r)
          <5> HIDE DEF ch, C
          <5> QED
            BY <1>3, <2>1, <4>1
        <4> QED
          BY <4>4, <4>5
      <3> HIDE DEF C
      <3> QED
        BY <2>4, <3>1
    <2>5. N \in Nat
      BY FS_CardinalityType
    <2>6. \A k \in 0 .. N : k \in P
      <3> HIDE DEF P, N
      <3> QED
        BY <2>3, <2>4, <2>5, IntervalInduction
    <2>7. N \in P
      <3> HIDE DEF P, N
      <3> QED
        BY <2>5, <2>6
    <2> HIDE DEF C
    <2> QED
      BY <2>7
  <1> QED
    BY <1>4, <1>5

-----------------------------------------------------------------------------
(* Folds over the members of a finite set.                                 *)

\* g folds the members of S, one chosen at a time, by the table q.
Folds(g, S, b, ch, q) ==
    \A s \in SUBSET S :
        g[s] = IF s = {} THEN b ELSE q[<<ch[s], g[s \ {ch[s]}]>>]

\* A finite set and every table have such a function.
LEMMA FoldExists ==
  ASSUME NEW S, IsFiniteSet(S), NEW V, NEW b \in V, NEW q \in [S \X V -> V],
         NEW ch, \A s \in SUBSET S : s # {} => ch[s] \in s
  PROVE  \E g \in [SUBSET S -> V] : Folds(g, S, b, ch, q)
  <1> DEFINE N == Cardinality(S)
             T == [SUBSET S -> V]
             Turn(F) == [s \in SUBSET S |->
                           IF s = {} THEN b ELSE q[<<ch[s], F[s \ {ch[s]}]>>]]
             step == [p \in (1 .. (N + 1)) \X T |-> Turn(p[2])]
             a == [s \in SUBSET S |-> b]
  <1>1. N \in Nat /\ N + 1 \in Nat
    BY FS_CardinalityType
  <1>2. \A s \in SUBSET S : s # {} => ch[s] \in S /\ s \ {ch[s]} \in SUBSET S
    OBVIOUS
  <1>3. \A F \in T : Turn(F) \in T
    <2> TAKE F \in T
    <2>1. \A s \in SUBSET S : (IF s = {} THEN b ELSE q[<<ch[s], F[s \ {ch[s]}]>>]) \in V
      <3> TAKE s \in SUBSET S
      <3>1. CASE s # {}
        <4>1. F[s \ {ch[s]}] \in V
          BY <1>2, <3>1
        <4> QED
          BY <1>2, <3>1, <4>1
      <3> QED
        BY <3>1
    <2> QED
      BY <2>1
  <1>4. a \in T
    OBVIOUS
  <1>5. step \in [(1 .. (N + 1)) \X T -> T]
    <2> HIDE DEF T, Turn, N
    <2> QED
      BY <1>3
  <1>6. PICK f \in [0 .. (N + 1) -> T] : Iterates(f, N + 1, a, step)
    <2> HIDE DEF T, step, N, a
    <2> QED
      BY <1>1, <1>4, <1>5, RecursionExists
  <1>7. \A k \in 0 .. N : f[k] \in T /\ k + 1 \in 1 .. (N + 1) /\ f[k + 1] \in T
    <2> HIDE DEF T, N
    <2> QED
      BY <1>1, <1>6
  <1>8. \A k \in 0 .. N : f[k + 1] = Turn(f[k])
    <2> TAKE k \in 0 .. N
    <2>1. k + 1 \in 1 .. (N + 1) /\ (k + 1) - 1 = k /\ f[k] \in T
      <3> HIDE DEF T, N
      <3> QED
        BY <1>1, <1>7
    <2>2. f[k + 1] = step[<<k + 1, f[k]>>]
      <3> HIDE DEF step, N, T
      <3> QED
        BY <1>6, <2>1 DEF Iterates
    <2>3. <<k + 1, f[k]>> \in (1 .. (N + 1)) \X T
      BY <2>1
    <2> HIDE DEF N, T, Turn
    <2> QED
      BY <2>2, <2>3
  <1>9. \A k \in 0 .. N : \A s \in SUBSET S :
           f[k + 1][s] = IF s = {} THEN b ELSE q[<<ch[s], f[k][s \ {ch[s]}]>>]
    <2>1. \A F : \A s \in SUBSET S :
             Turn(F)[s] = IF s = {} THEN b ELSE q[<<ch[s], F[s \ {ch[s]}]>>]
      OBVIOUS
    <2> HIDE DEF N, Turn
    <2> QED
      BY <1>8, <2>1
  <1>10. \A s \in SUBSET S : IsFiniteSet(s) /\ Cardinality(s) \in 0 .. N
    BY <1>1, FS_Subset, FS_CardinalityType
  <1> DEFINE P == {k \in 0 .. N : \A s \in SUBSET S :
                                    Cardinality(s) <= k => f[k + 1][s] = f[k][s]}
  <1>11. 0 \in P
    <2>1. \A s \in SUBSET S : Cardinality(s) <= 0 => s = {}
      <3> TAKE s \in SUBSET S
      <3>1. Cardinality(s) <= 0 => Cardinality(s) = 0
        BY <1>1, <1>10
      <3> QED
        BY <1>10, <3>1, FS_EmptySet
    <2>2. 0 \in 0 .. N /\ 0 + 1 = 1
      BY <1>1
    <2>3. f[0] = a
      BY <1>6 DEF Iterates
    <2>4. f[0][{}] = b
      BY <2>3
    <2>5. f[0 + 1][{}] = b
      <3> HIDE DEF N
      <3> QED
        BY <1>9, <2>2
    <2> HIDE DEF N
    <2> QED
      BY <2>1, <2>2, <2>4, <2>5
  <1>12. ASSUME NEW k \in 0 .. (N - 1), k \in P PROVE k + 1 \in P
    <2>1. k \in 0 .. N /\ k + 1 \in 0 .. N /\ k \in Nat
      BY <1>1
    <2>2. ASSUME NEW s \in SUBSET S, Cardinality(s) <= k + 1
          PROVE  f[(k + 1) + 1][s] = f[k + 1][s]
      <3>1. CASE s = {}
        <4> HIDE DEF N
        <4> QED
          BY <1>9, <2>1, <3>1
      <3>2. CASE s # {}
        <4> DEFINE r == s \ {ch[s]}
        <4>1. r \in SUBSET S /\ ch[s] \in s
          BY <3>2
        <4>2. Cardinality(r) = Cardinality(s) - 1
          BY <1>10, <4>1, FS_RemoveElement
        <4>3. Cardinality(r) <= k
          <5> HIDE DEF r
          <5> QED
            BY <1>1, <1>10, <2>1, <2>2, <4>2
        <4> HIDE DEF r, N
        <4>4. f[k + 1][r] = f[k][r]
          BY <1>12, <4>1, <4>3
        <4>5. f[(k + 1) + 1][s] = q[<<ch[s], f[k + 1][r]>>] /\ f[k + 1][s] = q[<<ch[s], f[k][r]>>]
          BY <1>9, <2>1, <3>2 DEF r
        <4> QED
          BY <4>4, <4>5
      <3> QED
        BY <3>1, <3>2
    <2> HIDE DEF N
    <2> QED
      BY <2>1, <2>2
  <1>13. N \in P
    <2> HIDE DEF P, N
    <2>1. \A k \in 0 .. N : k \in P
      BY <1>1, <1>11, <1>12, IntervalInduction
    <2> QED
      BY <1>1, <2>1
  <1> DEFINE g == f[N + 1]
  <1>14. g \in T /\ N \in 0 .. N
    <2> HIDE DEF T, N
    <2> QED
      BY <1>1, <1>7
  <1>15. ASSUME NEW s \in SUBSET S
         PROVE  g[s] = IF s = {} THEN b ELSE q[<<ch[s], g[s \ {ch[s]}]>>]
    <2>1. CASE s = {}
      <3> HIDE DEF N
      <3> QED
        BY <1>9, <1>14, <2>1
    <2>2. CASE s # {}
      <3> DEFINE r == s \ {ch[s]}
      <3>1. r \in SUBSET S
        OBVIOUS
      <3>2. Cardinality(r) <= N
        <4> HIDE DEF r
        <4> QED
          BY <1>1, <1>10, <3>1
      <3> HIDE DEF r, N
      <3>3. f[N + 1][r] = f[N][r]
        BY <1>13, <3>1, <3>2
      <3>4. f[N + 1][s] = q[<<ch[s], f[N][r]>>]
        BY <1>9, <1>14, <2>2 DEF r
      <3> QED
        BY <2>2, <3>3, <3>4 DEF r
    <2> QED
      BY <2>1, <2>2
  <1> HIDE DEF g
  <1> QED
    BY <1>14, <1>15 DEF Folds

\* What holds of the empty set, and with every smaller set of a set one member
\* larger, holds of the whole.
LEMMA FoldInduction ==
  ASSUME NEW S, IsFiniteSet(S), NEW V, NEW g, NEW ch, g[{}] \in V,
         \A s \in SUBSET S : s # {} => ch[s] \in s /\ (g[s \ {ch[s]}] \in V => g[s] \in V)
  PROVE  g[S] \in V
  <1> DEFINE N == Cardinality(S)
             P == {k \in Nat : \A s \in SUBSET S : Cardinality(s) = k => g[s] \in V}
  <1>1. N \in Nat
    BY FS_CardinalityType
  <1>2. \A s \in SUBSET S : IsFiniteSet(s) /\ Cardinality(s) \in Nat
    BY FS_Subset, FS_CardinalityType
  <1>3. 0 \in P
    BY <1>2, FS_EmptySet
  <1>4. ASSUME NEW k \in 0 .. (N - 1), k \in P PROVE k + 1 \in P
    <2>1. ASSUME NEW s \in SUBSET S, Cardinality(s) = k + 1 PROVE g[s] \in V
      <3>1. s # {}
        <4>1. k + 1 # 0 /\ Cardinality({}) = 0
          BY FS_EmptySet
        <4> QED
          BY <2>1, <4>1
      <3> DEFINE r == s \ {ch[s]}
      <3>2. r \in SUBSET S /\ ch[s] \in s
        BY <3>1
      <3>3. Cardinality(r) = Cardinality(s) - 1
        BY <1>2, <3>2, FS_RemoveElement
      <3> HIDE DEF r
      <3>4. Cardinality(r) = k
        BY <2>1, <3>3
      <3>5. g[r] \in V
        BY <1>4, <3>2, <3>4
      <3> QED
        BY <3>1, <3>5 DEF r
    <2> QED
      BY <2>1
  <1>5. N \in P
    <2> HIDE DEF P, N
    <2>1. \A k \in 0 .. N : k \in P
      BY <1>1, <1>3, <1>4, IntervalInduction
    <2> QED
      BY <1>1, <2>1
  <1> QED
    BY <1>5

-----------------------------------------------------------------------------
(* The elements of a sequence at a set of places, in ascending order.      *)

Selected(s, I) == [j \in 1 .. Cardinality(I) |-> s[CHOOSE k \in I : Rank(I, k) = j]]

\* A set of places has a number of members.
LEMMA PlacesFinite ==
  ASSUME NEW n \in Nat, NEW I \in SUBSET (1 .. n)
  PROVE  I \in SUBSET Nat /\ IsFiniteSet(I) /\ Cardinality(I) \in Nat
  <1>1. IsFiniteSet(1 .. n) /\ I \in SUBSET Nat
    BY FS_Interval
  <1> QED
    BY <1>1, FS_Subset, FS_CardinalityType

\* A sequence read at places of it is one.
LEMMA SelectedIsSeq ==
  ASSUME NEW S, NEW s \in Seq(S), NEW I \in SUBSET (1 .. Len(s))
  PROVE  Selected(s, I) \in Seq(S) /\ Len(Selected(s, I)) = Cardinality(I)
  <1>1. Len(s) \in Nat
    BY LenProperties
  <1>2. I \in SUBSET Nat /\ IsFiniteSet(I) /\ Cardinality(I) \in Nat
    BY <1>1, PlacesFinite
  <1>3. \A j \in 1 .. Cardinality(I) : s[CHOOSE k \in I : Rank(I, k) = j] \in S
    <2> TAKE j \in 1 .. Cardinality(I)
    <2> DEFINE c == CHOOSE k \in I : Rank(I, k) = j
    <2>1. c \in I
      BY <1>2, RankUnique
    <2> HIDE DEF c
    <2> QED
      BY <2>1, ElementOfSeq DEF c
  <1> DEFINE c == Cardinality(I)
             f == Selected(s, I)
  <1>4. f \in [1 .. c -> S]
    BY <1>3 DEF Selected
  <1> HIDE DEF f, c
  <1>5. c \in Nat
    BY <1>2 DEF c
  <1>6. f \in Seq(S) /\ Len(f) = c
    BY <1>4, <1>5
  <1> QED
    BY <1>6 DEF f, c

\* A place beyond all others adds its entry at the end.
LEMMA SelectedGrows ==
  ASSUME NEW S, NEW s \in Seq(S), NEW n \in Nat, n + 1 \in 1 .. Len(s), NEW I \in SUBSET (1 .. n)
  PROVE  Selected(s, I \cup {n + 1}) = Append(Selected(s, I), s[n + 1])
  <1> DEFINE J == I \cup {n + 1}
             c == Cardinality(I)
  <1>0. Len(s) \in Nat /\ n \in Nat /\ n + 1 \in Nat
    BY LenProperties
  <1>1. I \in SUBSET Nat /\ IsFiniteSet(I) /\ c \in Nat /\ n + 1 \notin I
    <2>1. I \in SUBSET Nat /\ IsFiniteSet(I) /\ Cardinality(I) \in Nat
      BY PlacesFinite
    <2>2. n + 1 \notin 1 .. n
      OBVIOUS
    <2> QED
      BY <2>1, <2>2
  <1>2. J \in SUBSET (1 .. Len(s)) /\ J \in SUBSET Nat /\ I \in SUBSET (1 .. Len(s))
    BY <1>0
  <1>3. IsFiniteSet(J) /\ Cardinality(J) = c + 1
    BY <1>1, FS_AddElement
  <1>4. \A k \in I : Rank(J, k) = Rank(I, k)
    <2> TAKE k \in I
    <2>1. k \in 1 .. n /\ ~ n + 1 <= k
      OBVIOUS
    <2>2. {q \in J : q <= k} = {q \in I : q <= k}
      BY <2>1
    <2> QED
      BY <2>2 DEF Rank
  <1>5. Rank(J, n + 1) = c + 1
    <2>1. \A q \in J : q <= n + 1
      BY <1>0
    <2>2. {q \in J : q <= n + 1} = J
      BY <2>1
    <2> QED
      BY <1>3, <2>2 DEF Rank
  <1> HIDE DEF J
  <1>6. \A j \in 1 .. (c + 1) : Selected(s, J)[j] = s[CHOOSE k \in J : Rank(J, k) = j]
    BY <1>3 DEF Selected
  <1>7. \A j \in 1 .. c : Selected(s, I)[j] = s[CHOOSE k \in I : Rank(I, k) = j]
    BY DEF Selected
  <1>8. ASSUME NEW j \in 1 .. c PROVE Selected(s, J)[j] = Selected(s, I)[j]
    <2> DEFINE k == CHOOSE p \in I : Rank(I, p) = j
               m == CHOOSE p \in J : Rank(J, p) = j
    <2>1. k \in I /\ Rank(I, k) = j
      BY <1>1, RankUnique
    <2>2. k \in J /\ Rank(J, k) = j
      BY <1>4, <2>1 DEF J
    <2>3. m \in J /\ Rank(J, m) = j
      BY <2>2
    <2> HIDE DEF k, m
    <2>4. m = k
      BY <1>2, <1>3, <2>2, <2>3, RankUnique
    <2>5. j \in 1 .. (c + 1)
      BY <1>1
    <2> QED
      BY <1>6, <1>7, <2>4, <2>5 DEF k, m
  <1>9. Selected(s, J)[c + 1] = s[n + 1]
    <2> DEFINE m == CHOOSE k \in J : Rank(J, k) = c + 1
    <2>1. n + 1 \in J
      BY DEF J
    <2>2. m \in J /\ Rank(J, m) = c + 1
      BY <1>5, <2>1
    <2> HIDE DEF m
    <2>3. m = n + 1
      BY <1>2, <1>3, <1>5, <2>1, <2>2, RankUnique
    <2>4. c + 1 \in 1 .. (c + 1)
      BY <1>1
    <2> QED
      BY <1>6, <2>3, <2>4 DEF m
  <1>10. Selected(s, J) \in Seq(S) /\ Len(Selected(s, J)) = c + 1 /\ Selected(s, I) \in Seq(S) /\ Len(Selected(s, I)) = c
    BY <1>2, <1>3, SelectedIsSeq
  <1> DEFINE a == Selected(s, J)
             b == Selected(s, I)
             e == s[n + 1]
  <1> HIDE DEF c
  <1>11. a = Append(b, e)
    <2>0. a \in Seq(S) /\ Len(a) = c + 1 /\ b \in Seq(S) /\ Len(b) = c /\ c \in Nat
          /\ a[c + 1] = e /\ e \in S /\ \A j \in 1 .. c : a[j] = b[j]
      BY <1>1, <1>8, <1>9, <1>10, ElementOfSeq
    <2> HIDE DEF a, b, e
    <2> QED
      BY <2>0
  <1> QED
    BY <1>11 DEF J

\* What is appended to a sequence does not change what stands at its places.
LEMMA SelectedOfAppend ==
  ASSUME NEW S, NEW s \in Seq(S), NEW e \in S, NEW I \in SUBSET (1 .. Len(s))
  PROVE  Selected(Append(s, e), I) = Selected(s, I)
  <1>1. Len(s) \in Nat
    BY LenProperties
  <1>2. I \in SUBSET Nat /\ IsFiniteSet(I) /\ Cardinality(I) \in Nat
    BY <1>1, PlacesFinite
  <1>3. ASSUME NEW j \in 1 .. Cardinality(I)
        PROVE  Append(s, e)[CHOOSE k \in I : Rank(I, k) = j] = s[CHOOSE k \in I : Rank(I, k) = j]
    <2> DEFINE c == CHOOSE k \in I : Rank(I, k) = j
    <2>1. c \in I
      BY <1>2, RankUnique
    <2> HIDE DEF c
    <2>2. Append(s, e)[c] = s[c]
      BY <2>1, AppendProperties
    <2> QED
      BY <2>2 DEF c
  <1> QED
    BY <1>3 DEF Selected
=============================================================================
