--------------------------- MODULE TotalsProofs ---------------------------
(***************************************************************************)
(* Folds and sums over finite sets, for any sets and amounts.  The provers do *)
(* not know what such a fold computes: it is proved here, by induction over *)
(* the size of the set, and cited where a component counts something.      *)
(***************************************************************************)
EXTENDS Totals, Sequences, FiniteSetTheorems, WellFoundedInduction, TLAPS

----------------------------------------------------------------------------
(* Induction, folds and totals.                                            *)

\* A set of naturals with 0 and every successor has every natural.
LEMMA NatSet ==
    ASSUME NEW T, 0 \in T, \A n \in Nat : n \in T => n + 1 \in T
    PROVE  \A n \in Nat : n \in T
  <1> SUFFICES ASSUME NEW k \in Nat, k \notin T PROVE FALSE
    OBVIOUS
  <1>1. PICK n \in Nat \ T : \A m \in Nat \ T : ~(<<m, n>> \in OpToRel(<, Nat))
    <2>1. Nat \ T \subseteq Nat /\ Nat \ T # {}
      OBVIOUS
    <2> QED BY <2>1, NatLessThanWellFounded, WFMin, Zenon
  <1>2. n # 0 /\ n - 1 \in Nat /\ n - 1 < n
    OBVIOUS
  <1>3. n - 1 \notin T
    <2>1. (n - 1) + 1 = n
      OBVIOUS
    <2> QED BY <2>1, <1>2, <1>1
  <1> QED BY <1>1, <1>2, <1>3 DEF OpToRel

\* A set of naturals that is not empty has a least element.
LEMMA LeastNat ==
    ASSUME NEW T, T \subseteq Nat, T # {}
    PROVE  \E n \in T : \A m \in T : n <= m
  <1>1. PICK n \in T : \A m \in T : ~(<<m, n>> \in OpToRel(<, Nat))
    BY NatLessThanWellFounded, WFMin, Zenon
  <1>2. ASSUME NEW m \in T PROVE n <= m
    <2>1. ~(<<m, n>> \in OpToRel(<, Nat))
      BY <1>1
    <2>2. ~(m < n)
      BY <2>1 DEF OpToRel
    <2> QED BY <2>2
  <1> QED BY <1>2
----------------------------------------------------------------------------
(* Folds over finite sets.                                                 *)

\* A finite set without one of its elements.
LEMMA OneLess ==
    ASSUME NEW S, IsFiniteSet(S), NEW s \in SUBSET S
    PROVE  /\ IsFiniteSet(s) /\ Cardinality(s) \in Nat
           /\ Cardinality(s) = 0 => s = {}
           /\ \A x \in s : /\ s \ {x} \in SUBSET S
                           /\ Cardinality(s \ {x}) = Cardinality(s) - 1
                           /\ Cardinality(s \ {x}) \in Nat
<1>1. IsFiniteSet(s)
  BY FS_Subset
<1>2. Cardinality(s) \in Nat /\ (Cardinality(s) = 0 => s = {})
  BY <1>1, FS_EmptySet, FS_CardinalityType
<1>3. ASSUME NEW x \in s
      PROVE  /\ s \ {x} \in SUBSET S
             /\ Cardinality(s \ {x}) = Cardinality(s) - 1
             /\ Cardinality(s \ {x}) \in Nat
  <2>1. IsFiniteSet(s \ {x}) /\ Cardinality(s \ {x}) = Cardinality(s) - 1
    BY <1>1, FS_RemoveElement
  <2>2. Cardinality(s \ {x}) \in Nat
    BY <2>1, FS_CardinalityType
  <2> QED BY <2>1, <2>2
<1> QED BY <1>1, <1>2, <1>3

\* A set of subsets that has {} and, with some smaller set, every other.
LEMMA SetInduction ==
    ASSUME NEW S, IsFiniteSet(S), NEW G, {} \in G,
           \A s \in SUBSET S : s # {} => \E x \in s : (s \ {x} \in G => s \in G)
    PROVE  \A s \in SUBSET S : s \in G
<1> DEFINE T == {n \in Nat : \A s \in SUBSET S : Cardinality(s) <= n => s \in G}
<1>1. 0 \in T
  <2>1. ASSUME NEW s \in SUBSET S, Cardinality(s) <= 0 PROVE s \in G
    <3>1. Cardinality(s) \in Nat /\ (Cardinality(s) = 0 => s = {})
      BY OneLess
    <3>2. Cardinality(s) = 0
      BY <2>1, <3>1
    <3> QED BY <3>1, <3>2
  <2> QED BY <2>1
<1>2. ASSUME NEW n \in Nat, n \in T PROVE n + 1 \in T
  <2>1. ASSUME NEW s \in SUBSET S, Cardinality(s) <= n + 1 PROVE s \in G
    <3>1. CASE s = {}
      BY <3>1
    <3>2. CASE s # {}
      <4>1. PICK x \in s : s \ {x} \in G => s \in G
        BY <3>2
      <4>2. /\ Cardinality(s) \in Nat /\ s \ {x} \in SUBSET S
            /\ Cardinality(s \ {x}) = Cardinality(s) - 1
        BY OneLess
      <4>3. Cardinality(s \ {x}) <= n
        BY <2>1, <4>2
      <4> QED BY <1>2, <4>1, <4>2, <4>3
    <3> QED BY <3>1, <3>2
  <2> QED BY <2>1
<1>3. \A n \in Nat : n \in T
  <2> HIDE DEF T
  <2> QED BY <1>1, <1>2, NatSet
<1>4. Cardinality(S) \in T
  BY <1>3, OneLess
<1> SUFFICES ASSUME NEW s \in SUBSET S PROVE s \in G
  OBVIOUS
<1>5. Cardinality(s) <= Cardinality(S)
  BY FS_Subset
<1> QED BY <1>4, <1>5

\* One step of a fold that takes pick[s] out of s and applies op, a function.
FoldStep(g, op, base, pick, s) ==
    IF s = {} THEN base ELSE op[<<pick[s], g[s \ {pick[s]}]>>]

\* g folds op over the subsets of S.
Folds(g, op, base, pick, S) == \A s \in SUBSET S : g[s] = FoldStep(g, op, base, pick, s)

\* A fold over S that stays in V.
Foldable(S, V, op, pick) ==
    /\ \A s \in SUBSET S : s # {} => pick[s] \in s
    /\ \A x \in S, v \in V : op[<<x, v>>] \in V

\* The function that a fold over a finite set computes exists.
LEMMA FoldExists ==
    ASSUME NEW S, IsFiniteSet(S), NEW V, NEW base \in V, NEW pick, NEW op,
           Foldable(S, V, op, pick)
    PROVE  \E g \in [SUBSET S -> V] : Folds(g, op, base, pick, S)
<1>0. /\ \A s \in SUBSET S : s # {} => pick[s] \in s
      /\ \A x \in S, v \in V : op[<<x, v>>] \in V
  BY Zenon DEF Foldable
<1> DEFINE Sub(n) == {s \in SUBSET S : Cardinality(s) <= n}
           Good(n) == \E g \in [Sub(n) -> V] :
                          \A s \in Sub(n) : g[s] = FoldStep(g, op, base, pick, s)
           T == {n \in Nat : Good(n)}
<1>1. Good(0)
  <2> DEFINE g == [s \in Sub(0) |-> base]
  <2>1. g \in [Sub(0) -> V]
    OBVIOUS
  <2>2. ASSUME NEW s \in Sub(0) PROVE g[s] = FoldStep(g, op, base, pick, s)
    <3>1. s \in SUBSET S /\ Cardinality(s) <= 0
      OBVIOUS
    <3>2. Cardinality(s) \in Nat /\ (Cardinality(s) = 0 => s = {})
      BY <3>1, OneLess
    <3>3. s = {}
      BY <3>1, <3>2
    <3> QED BY <3>3 DEF FoldStep
  <2> HIDE DEF g
  <2> QED BY <2>1, <2>2
<1>2. ASSUME NEW n \in Nat, Good(n) PROVE Good(n + 1)
  <2>1. PICK g \in [Sub(n) -> V] : \A s \in Sub(n) : g[s] = FoldStep(g, op, base, pick, s)
    BY <1>2
  <2> DEFINE h == [s \in Sub(n + 1) |-> FoldStep(g, op, base, pick, s)]
  <2>2. ASSUME NEW s \in Sub(n + 1), s # {}
        PROVE  pick[s] \in S /\ s \ {pick[s]} \in Sub(n) /\ s \ {pick[s]} \in Sub(n + 1)
    <3>1. pick[s] \in s /\ s \in SUBSET S /\ Cardinality(s) <= n + 1
      BY <1>0, <2>2
    <3>2. /\ Cardinality(s) \in Nat /\ s \ {pick[s]} \in SUBSET S
          /\ Cardinality(s \ {pick[s]}) = Cardinality(s) - 1
      BY <3>1, OneLess
    <3>3. Cardinality(s \ {pick[s]}) <= n /\ Cardinality(s \ {pick[s]}) <= n + 1
      BY <3>1, <3>2
    <3> QED BY <3>1, <3>2, <3>3
  <2>3. ASSUME NEW s \in Sub(n + 1) PROVE FoldStep(g, op, base, pick, s) \in V
    <3>1. CASE s = {}
      BY <3>1 DEF FoldStep
    <3>2. CASE s # {}
      <4>1. pick[s] \in S /\ g[s \ {pick[s]}] \in V
        BY <2>2, <3>2
      <4>2. op[<<pick[s], g[s \ {pick[s]}]>>] \in V
        BY <1>0, <4>1
      <4> QED BY <3>2, <4>2 DEF FoldStep
    <3> QED BY <3>1, <3>2
  <2>4. h \in [Sub(n + 1) -> V]
    BY <2>3
  <2>5. ASSUME NEW s \in Sub(n + 1) PROVE h[s] = FoldStep(h, op, base, pick, s)
    <3>1. CASE s = {}
      BY <3>1 DEF FoldStep
    <3>2. CASE s # {}
      <4>1. s \ {pick[s]} \in Sub(n) /\ s \ {pick[s]} \in Sub(n + 1)
        BY <2>2, <3>2
      <4>2. h[s \ {pick[s]}] = g[s \ {pick[s]}]
        BY <2>1, <4>1
      <4> QED BY <3>2, <4>2 DEF FoldStep
    <3> QED BY <3>1, <3>2
  <2> HIDE DEF h
  <2> QED BY <2>4, <2>5
<1>3. \A n \in Nat : n \in T
  <2> HIDE DEF Good
  <2>1. 0 \in T
    BY <1>1
  <2>2. \A n \in Nat : n \in T => n + 1 \in T
    BY <1>2
  <2> HIDE DEF T
  <2> QED BY <2>1, <2>2, NatSet
<1>4. Cardinality(S) \in Nat
  BY OneLess
<1>5. Sub(Cardinality(S)) = SUBSET S
  <2>1. \A s \in SUBSET S : Cardinality(s) <= Cardinality(S)
    BY FS_Subset
  <2> QED BY <2>1
<1>6. Good(Cardinality(S))
  BY <1>3, <1>4
<1> QED BY <1>5, <1>6 DEF Folds

\* A finite set has a last element of every order.
LEMMA LastExists ==
    ASSUME NEW S, IsFiniteSet(S), NEW R,
           \A a, b \in S : a # b => <<a, b>> \in R \/ <<b, a>> \in R,
           \A a, b, c \in S : <<a, b>> \in R /\ <<b, c>> \in R => <<a, c>> \in R
    PROVE  \A s \in SUBSET S : s # {} => \E m \in s : \A x \in s \ {m} : <<x, m>> \in R
<1> DEFINE IsLastOf(s) == \E m \in s : \A x \in s \ {m} : <<x, m>> \in R
           G == {s \in SUBSET S : s # {} => IsLastOf(s)}
<1>1. {} \in G
  OBVIOUS
<1>2. ASSUME NEW s \in SUBSET S, s # {}
      PROVE  \E x \in s : (s \ {x} \in G => s \in G)
  <2>1. PICK x \in s : TRUE
    BY <1>2
  <2>2. ASSUME s \ {x} \in G PROVE IsLastOf(s)
    <3>1. CASE s \ {x} = {}
      BY <3>1
    <3>2. CASE s \ {x} # {}
      <4>1. PICK m \in s \ {x} : \A y \in (s \ {x}) \ {m} : <<y, m>> \in R
        BY <2>2, <3>2
      <4>2. CASE <<x, m>> \in R
        <5>1. \A y \in s \ {m} : <<y, m>> \in R
          BY <4>1, <4>2
        <5> QED BY <5>1
      <4>3. CASE <<m, x>> \in R
        <5>1. ASSUME NEW y \in s \ {x} PROVE <<y, x>> \in R
          BY <4>1, <4>3
        <5> QED BY <5>1
      <4> QED BY <4>1, <4>2, <4>3
    <3> QED BY <3>1, <3>2
  <2> QED BY <2>2
<1>3. \A s \in SUBSET S : s \in G
  <2> HIDE DEF G
  <2> QED BY <1>1, <1>2, SetInduction
<1> QED BY <1>3

\* The positions of a sequence have a last one, whichever are left.
LEMMA PositionsKnown ==
    ASSUME NEW T, NEW q \in Seq(T)
    PROVE  /\ IsFiniteSet(DOMAIN q)
           /\ \A s \in SUBSET DOMAIN q : s # {} => Max(s) \in s
<1> DEFINE P == DOMAIN q
           R == {p \in Nat \X Nat : p[1] <= p[2]}
<1>2. P = 1 .. Len(q) /\ Len(q) \in Nat
  OBVIOUS
<1>3. IsFiniteSet(P)
  BY <1>2, FS_Interval
<1>4. \A i \in P : i \in Nat
  BY <1>2
<1>5. \A a, b \in P : <<a, b>> \in R <=> a <= b
  BY <1>4
<1>6. \A a, b \in P : a # b => <<a, b>> \in R \/ <<b, a>> \in R
  BY <1>4, <1>5
<1>7. \A a, b, c \in P : <<a, b>> \in R /\ <<b, c>> \in R => <<a, c>> \in R
  BY <1>4, <1>5
<1> HIDE DEF P, R
<1>8. \A s \in SUBSET P : s # {} => \E m \in s : \A x \in s \ {m} : <<x, m>> \in R
  BY <1>3, <1>6, <1>7, LastExists
<1>9. ASSUME NEW s \in SUBSET P, s # {} PROVE Max(s) \in s
  <2>1. PICK m \in s : \A x \in s \ {m} : <<x, m>> \in R
    BY <1>8, <1>9
  <2>2. ASSUME NEW x \in s PROVE m >= x
    <3>1. m \in P /\ x \in P /\ m \in Nat /\ x \in Nat
      BY <1>4
    <3>2. CASE x = m
      BY <3>1, <3>2
    <3>3. CASE x # m
      <4>1. x <= m
        BY <1>5, <2>1, <3>1, <3>3
      <4> QED BY <3>1, <4>1
    <3> QED BY <3>2, <3>3
  <2> QED BY <2>2 DEF Max
<1> QED BY <1>3, <1>9 DEF P
----------------------------------------------------------------------------
(* Totals of weights.                                                      *)

\* The element a sum takes next.
AnyOf(s) == CHOOSE x \in s : TRUE

\* One step of a sum.
SumStep(f, g, s) == IF s = {} THEN 0 ELSE f[AnyOf(s)] + g[s \ {AnyOf(s)}]

\* g sums f over the subsets of S.
Sums(f, g, S) == g = [s \in SUBSET S |-> SumStep(f, g, s)]

\* Every amount is an integer.
Whole(f, S) == \A x \in S : f[x] \in Int

\* A sum of whole amounts exists, and its values are whole.
LEMMA SumsExist ==
    ASSUME NEW S, IsFiniteSet(S), NEW f, Whole(f, S)
    PROVE  \E g \in [SUBSET S -> Int] : Sums(f, g, S)
<1> DEFINE pick == [s \in SUBSET S |-> AnyOf(s)]
           op == [p \in S \X Int |-> f[p[1]] + p[2]]
<1>1. \A s \in SUBSET S : s # {} => pick[s] \in s
  BY DEF AnyOf
<1>2. \A x \in S, v \in Int : op[<<x, v>>] = f[x] + v
  OBVIOUS
<1>5. \A s \in SUBSET S : pick[s] = AnyOf(s)
  OBVIOUS
<1> HIDE DEF pick, op
<1>3. \A x \in S, v \in Int : op[<<x, v>>] \in Int
  <2> SUFFICES ASSUME NEW x \in S, NEW v \in Int PROVE op[<<x, v>>] \in Int
    OBVIOUS
  <2>1. op[<<x, v>>] = f[x] + v
    BY <1>2
  <2>2. f[x] \in Int
    BY DEF Whole
  <2> QED BY <2>1, <2>2
<1>4. 0 \in Int
  OBVIOUS
<1>9. Foldable(S, Int, op, pick)
  BY <1>1, <1>3, Zenon DEF Foldable
<1>10. PICK g \in [SUBSET S -> Int] : Folds(g, op, 0, pick, S)
  BY <1>4, <1>9, FoldExists
<1>6. \A s \in SUBSET S : g[s] = FoldStep(g, op, 0, pick, s)
  BY <1>10, Zenon DEF Folds
<1>7. ASSUME NEW s \in SUBSET S PROVE g[s] = SumStep(f, g, s)
  <2>1. CASE s = {}
    BY <1>6, <2>1 DEF FoldStep, SumStep
  <2>2. CASE s # {}
    <3>1. pick[s] \in S /\ s \ {pick[s]} \in SUBSET S
      BY <1>1, <2>2
    <3>2. g[s] = op[<<pick[s], g[s \ {pick[s]}]>>]
      BY <1>6, <2>2 DEF FoldStep
    <3>3. g[s] = f[pick[s]] + g[s \ {pick[s]}]
      BY <1>2, <3>1, <3>2
    <3> QED BY <1>5, <2>2, <3>3 DEF SumStep
  <2> QED BY <2>1, <2>2
<1>8. g = [s \in SUBSET S |-> SumStep(f, g, s)]
  BY <1>7
<1> QED BY <1>8 DEF Sums

\* Two sums agree where both are defined.
LEMMA SumsAgree ==
    ASSUME NEW S, IsFiniteSet(S), NEW f, NEW V \in SUBSET S,
           NEW g, Sums(f, g, S), NEW h, Sums(f, h, V)
    PROVE  \A s \in SUBSET V : g[s] = h[s]
<1> DEFINE G == {s \in SUBSET V : g[s] = h[s]}
<1>0. IsFiniteSet(V)
  BY FS_Subset
<1>1. ASSUME NEW s \in SUBSET V
      PROVE  g[s] = SumStep(f, g, s) /\ h[s] = SumStep(f, h, s)
  BY Zenon DEF Sums
<1>2. {} \in G
  <2>1. g[{}] = h[{}]
    BY <1>1 DEF SumStep
  <2> QED BY <2>1
<1>3. ASSUME NEW s \in SUBSET V, s # {}
      PROVE  \E x \in s : (s \ {x} \in G => s \in G)
  <2>1. AnyOf(s) \in s
    BY <1>3 DEF AnyOf
  <2>2. s \ {AnyOf(s)} \in G => s \in G
    BY <1>1, <1>3 DEF SumStep
  <2> QED BY <2>1, <2>2
<1>4. \A s \in SUBSET V : s \in G
  <2> HIDE DEF G
  <2> QED BY <1>0, <1>2, <1>3, SetInduction
<1> QED BY <1>4

\* Total applies the function that its fold chooses.
LEMMA TotalIsChosen ==
    ASSUME NEW f, NEW S
    PROVE  Total(f, S) = (CHOOSE g : Sums(f, g, S))[S]
  BY Zenon DEF Total, MapThenSumSet, MapThenFoldSet, Sums, SumStep, AnyOf

\* The total over a subset is what a sum over the set says of it.
LEMMA TotalIsSum ==
    ASSUME NEW S, IsFiniteSet(S), NEW f, Whole(f, S),
           NEW g, Sums(f, g, S), NEW s \in SUBSET S
    PROVE  Total(f, s) = g[s]
<1> DEFINE c == CHOOSE h : Sums(f, h, s)
<1>1. IsFiniteSet(s) /\ Whole(f, s)
  BY FS_Subset DEF Whole
<1>2. \E h : Sums(f, h, s)
  BY <1>1, SumsExist
<1>3. Sums(f, c, s)
  BY <1>2
<1>4. Total(f, s) = c[s]
  BY TotalIsChosen
<1> HIDE DEF c
<1> QED BY <1>3, <1>4, SumsAgree

\* A total is whole; of nothing it is zero, and an element adds its own amount,
\* whichever the fold takes first.
LEMMA TotalOf ==
    ASSUME NEW S, IsFiniteSet(S), NEW f, Whole(f, S)
    PROVE  /\ Total(f, S) \in Int
           /\ Total(f, {}) = 0
           /\ \A s \in SUBSET S : \A x \in s :
                 /\ Total(f, s) = f[x] + Total(f, s \ {x})
                 /\ f[x] \in Int /\ Total(f, s) \in Int /\ Total(f, s \ {x}) \in Int
<1>1. PICK g \in [SUBSET S -> Int] : Sums(f, g, S)
  BY SumsExist
<1>2. \A s \in SUBSET S : Total(f, s) = g[s] /\ g[s] \in Int
  BY <1>1, TotalIsSum
<1>3. \A s \in SUBSET S : g[s] = SumStep(f, g, s)
  BY <1>1, Zenon DEF Sums
<1>4. g[{}] = 0
  BY <1>3 DEF SumStep
<1> DEFINE G == {s \in SUBSET S : \A x \in s : g[s] = f[x] + g[s \ {x}]}
           T == {n \in Nat : \A s \in SUBSET S : Cardinality(s) <= n => s \in G}
<1>5. 0 \in T
  <2>1. ASSUME NEW s \in SUBSET S, Cardinality(s) <= 0 PROVE s \in G
    <3>1. s = {}
      BY <2>1, OneLess
    <3> QED BY <3>1
  <2> QED BY <2>1
<1>6. ASSUME NEW n \in Nat, n \in T PROVE n + 1 \in T
  <2>1. ASSUME NEW s \in SUBSET S, Cardinality(s) <= n + 1, NEW x \in s
        PROVE  g[s] = f[x] + g[s \ {x}]
    <3> DEFINE y == AnyOf(s)
    <3>1. y \in s /\ g[s] = f[y] + g[s \ {y}]
      BY <1>3 DEF SumStep, AnyOf
    <3> HIDE DEF y
    <3>2. CASE x = y
      BY <3>1, <3>2
    <3>3. CASE x # y
      <4>1. \A z \in s : /\ s \ {z} \in SUBSET S /\ Cardinality(s) \in Nat
                         /\ Cardinality(s \ {z}) = Cardinality(s) - 1
        BY OneLess
      <4>2. \A z \in s : Cardinality(s \ {z}) <= n
        BY <2>1, <4>1
      <4>3. s \ {x} \in G /\ s \ {y} \in G
        BY <1>6, <3>1, <4>1, <4>2
      <4>4. g[s \ {y}] = f[x] + g[(s \ {y}) \ {x}]
        BY <3>3, <4>3
      <4>5. g[s \ {x}] = f[y] + g[(s \ {x}) \ {y}]
        BY <3>1, <3>3, <4>3
      <4>6. (s \ {x}) \ {y} = (s \ {y}) \ {x} /\ (s \ {x}) \ {y} \in SUBSET S
        OBVIOUS
      <4>7. g[(s \ {x}) \ {y}] \in Int /\ f[x] \in Int /\ f[y] \in Int
        BY <3>1, <4>6 DEF Whole
      <4> DEFINE rest == g[(s \ {x}) \ {y}]
      <4>8. g[s] = f[y] + (f[x] + rest)
        BY <3>1, <4>4, <4>6
      <4>9. g[s \ {x}] = f[y] + rest /\ rest \in Int
        BY <4>5, <4>7
      <4> HIDE DEF rest
      <4>10. f[y] + (f[x] + rest) = f[x] + (f[y] + rest)
        BY <4>7, <4>9
      <4> QED BY <4>8, <4>9, <4>10
    <3> QED BY <3>2, <3>3
  <2> QED BY <2>1
<1>7. \A n \in Nat : n \in T
  <2> HIDE DEF T
  <2> QED BY <1>5, <1>6, NatSet
<1>8. ASSUME NEW s \in SUBSET S, NEW x \in s
      PROVE  /\ Total(f, s) = f[x] + Total(f, s \ {x})
             /\ f[x] \in Int /\ Total(f, s) \in Int /\ Total(f, s \ {x}) \in Int
  <2>1. Cardinality(s) \in Nat /\ Cardinality(s) <= Cardinality(s)
    BY OneLess
  <2>2. Cardinality(s) \in T
    BY <1>7, <2>1
  <2>3. s \in G
    BY <2>1, <2>2
  <2>4. g[s] = f[x] + g[s \ {x}]
    BY <2>3
  <2>5. s \ {x} \in SUBSET S /\ f[x] \in Int
    BY DEF Whole
  <2> QED BY <1>2, <2>4, <2>5
<1> QED BY <1>2, <1>4, <1>8

\* Larger amounts have a larger total.
LEMMA TotalMonotone ==
    ASSUME NEW S, IsFiniteSet(S), NEW f, Whole(f, S), NEW g, Whole(g, S),
           \A x \in S : f[x] <= g[x]
    PROVE  Total(f, S) <= Total(g, S)
<1>4. /\ Total(f, {}) = 0 /\ Total(g, {}) = 0
      /\ \A s \in SUBSET S : \A x \in s :
            /\ Total(f, s) = f[x] + Total(f, s \ {x})
            /\ f[x] \in Int /\ Total(f, s \ {x}) \in Int
      /\ \A s \in SUBSET S : \A x \in s :
            /\ Total(g, s) = g[x] + Total(g, s \ {x})
            /\ g[x] \in Int /\ Total(g, s \ {x}) \in Int
  BY TotalOf
<1> DEFINE G == {s \in SUBSET S : Total(f, s) <= Total(g, s)}
<1>1. {} \in G
  BY <1>4
<1>2. ASSUME NEW s \in SUBSET S, s # {}
      PROVE  \E x \in s : (s \ {x} \in G => s \in G)
  <2>1. PICK x \in s : TRUE
    BY <1>2
  <2>2. /\ Total(f, s) = f[x] + Total(f, s \ {x})
        /\ f[x] \in Int /\ Total(f, s \ {x}) \in Int
    BY <1>4
  <2>3. /\ Total(g, s) = g[x] + Total(g, s \ {x})
        /\ g[x] \in Int /\ Total(g, s \ {x}) \in Int
    BY <1>4
  <2>4. f[x] <= g[x]
    OBVIOUS
  <2>5. Total(f, s \ {x}) <= Total(g, s \ {x}) => Total(f, s) <= Total(g, s)
    BY <2>2, <2>3, <2>4
  <2> QED BY <2>5
<1>3. \A s \in SUBSET S : s \in G
  <2> HIDE DEF G
  <2> QED BY <1>1, <1>2, SetInduction
<1> QED BY <1>3

\* Equal amounts have the same total.
LEMMA TotalSame ==
    ASSUME NEW S, IsFiniteSet(S), NEW f, Whole(f, S), NEW g, \A x \in S : f[x] = g[x]
    PROVE  Total(f, S) = Total(g, S)
<1>1. Whole(g, S) /\ \A x \in S : f[x] <= g[x] /\ g[x] <= f[x]
  BY DEF Whole
<1>2. Total(f, S) <= Total(g, S) /\ Total(g, S) <= Total(f, S)
  BY <1>1, TotalMonotone
<1>3. Total(f, S) \in Int /\ Total(g, S) \in Int
  BY <1>1, TotalOf
<1> QED BY <1>2, <1>3

\* What is zero outside T adds nothing to the total over T.
LEMMA TotalOutside ==
    ASSUME NEW S, IsFiniteSet(S), NEW f, Whole(f, S), NEW T \in SUBSET S,
           \A x \in S \ T : f[x] = 0
    PROVE  Total(f, S) = Total(f, T)
<1>4. /\ Total(f, {}) = 0
      /\ \A s \in SUBSET S : \A x \in s :
            /\ Total(f, s) = f[x] + Total(f, s \ {x})
            /\ f[x] \in Int /\ Total(f, s) \in Int /\ Total(f, s \ {x}) \in Int
  <2> HIDE DEF Whole
  <2> QED BY TotalOf
<1> DEFINE D == S \ T
<1>0. /\ IsFiniteSet(D) /\ T \cup D = S
      /\ \A s \in SUBSET D : \A x \in s :
            T \cup s \in SUBSET S /\ (T \cup s) \ {x} = T \cup (s \ {x}) /\ f[x] = 0
  BY FS_Subset
<1> HIDE DEF D
<1> DEFINE G == {s \in SUBSET D : Total(f, T \cup s) = Total(f, T)}
<1>1. {} \in G
  <2>1. T \cup {} = T
    OBVIOUS
  <2> QED BY <2>1
<1>2. ASSUME NEW s \in SUBSET D, s # {}
      PROVE  \E x \in s : (s \ {x} \in G => s \in G)
  <2>1. PICK x \in s : TRUE
    BY <1>2
  <2>2. /\ T \cup s \in SUBSET S /\ (T \cup s) \ {x} = T \cup (s \ {x})
        /\ f[x] = 0 /\ x \in T \cup s
    BY <1>0
  <2>3. /\ Total(f, T \cup s) = f[x] + Total(f, (T \cup s) \ {x})
        /\ Total(f, (T \cup s) \ {x}) \in Int
    BY <1>4, <2>2
  <2>4. Total(f, T \cup s) = Total(f, T \cup (s \ {x}))
    <3>1. Total(f, T \cup s) = 0 + Total(f, (T \cup s) \ {x})
      BY <2>2, <2>3
    <3>2. Total(f, T \cup s) = Total(f, (T \cup s) \ {x})
      BY <2>3, <3>1
    <3> QED BY <2>2, <3>2
  <2> QED BY <2>4
<1>3. \A s \in SUBSET D : s \in G
  <2> HIDE DEF G
  <2> QED BY <1>0, <1>1, <1>2, SetInduction
<1>5. D \in G
  BY <1>3
<1> QED BY <1>0, <1>5

\* A changed amount changes the total by the difference.
LEMMA TotalChanged ==
    ASSUME NEW S, IsFiniteSet(S), NEW f, Whole(f, S), NEW g, Whole(g, S), NEW x \in S,
           \A y \in S \ {x} : g[y] = f[y]
    PROVE  Total(g, S) = Total(f, S) - f[x] + g[x]
<1>1. Total(f, S) = f[x] + Total(f, S \ {x}) /\ f[x] \in Int /\ Total(f, S \ {x}) \in Int
  BY TotalOf
<1>2. Total(g, S) = g[x] + Total(g, S \ {x}) /\ g[x] \in Int /\ Total(g, S \ {x}) \in Int
  BY TotalOf
<1>3. Total(f, S \ {x}) = Total(g, S \ {x})
  <2>1. IsFiniteSet(S \ {x}) /\ Whole(f, S \ {x}) /\ \A y \in S \ {x} : f[y] = g[y]
    BY FS_Subset DEF Whole
  <2> HIDE DEF Whole
  <2> QED BY <2>1, TotalSame
<1> QED BY <1>1, <1>2, <1>3

\* The total of zeros is zero.
LEMMA TotalZero ==
    ASSUME NEW S, IsFiniteSet(S), NEW f, \A x \in S : f[x] = 0
    PROVE  Total(f, S) = 0
<1>1. Whole(f, S) /\ {} \in SUBSET S
  BY DEF Whole
<1>2. Total(f, S) = Total(f, {})
  BY <1>1, TotalOutside
<1> QED BY <1>1, <1>2, TotalOf

\* Natural amounts have a natural total.
LEMMA NatTotalOf ==
    ASSUME NEW U, IsFiniteSet(U), NEW f \in [U -> Nat], NEW S \in SUBSET U
    PROVE  /\ Total(f, S) \in Nat
           /\ Total(f, {}) = 0
           /\ \A x \in S : Total(f, S) = f[x] + Total(f, S \ {x})
<1>1. IsFiniteSet(S) /\ Whole(f, S) /\ S \in SUBSET S
  BY FS_Subset DEF Whole
<1>2. /\ Total(f, S) \in Int /\ Total(f, {}) = 0
      /\ \A s \in SUBSET S : \A x \in s : Total(f, s) = f[x] + Total(f, s \ {x})
  BY <1>1, TotalOf
<1> DEFINE none == [x \in S |-> 0]
<1>3. Whole(none, S) /\ (\A x \in S : none[x] <= f[x]) /\ \A x \in S : none[x] = 0
  BY DEF Whole
<1>4. Total(none, S) <= Total(f, S) /\ Total(none, S) = 0
  <2> HIDE DEF none
  <2> QED BY <1>1, <1>3, TotalMonotone, TotalZero
<1>5. Total(f, S) \in Nat
  BY <1>2, <1>4
<1> QED BY <1>1, <1>2, <1>5

\* A total depends on the amounts of its own elements only.
LEMMA NatTotalSame ==
    ASSUME NEW U, IsFiniteSet(U), NEW f \in [U -> Nat], NEW h \in [U -> Nat],
           NEW S \in SUBSET U, \A x \in S : f[x] = h[x]
    PROVE  Total(f, S) = Total(h, S)
<1>1. IsFiniteSet(S) /\ Whole(f, S)
  BY FS_Subset DEF Whole
<1> QED BY <1>1, TotalSame

\* A new element adds its amount.
LEMMA TotalJoined ==
    ASSUME NEW U, IsFiniteSet(U), NEW f \in [U -> Nat], NEW S \in SUBSET U, NEW x \in U \ S
    PROVE  Total(f, S \cup {x}) = Total(f, S) + f[x]
  <1>1. S \cup {x} \in SUBSET U /\ x \in S \cup {x} /\ (S \cup {x}) \ {x} = S
    OBVIOUS
  <1>2. Total(f, S \cup {x}) = f[x] + Total(f, (S \cup {x}) \ {x})
    BY <1>1, NatTotalOf
  <1>3. Total(f, S) \in Nat
    BY NatTotalOf
  <1>4. f[x] \in Nat
    OBVIOUS
  <1>5. Total(f, S \cup {x}) = f[x] + Total(f, S)
    BY <1>1, <1>2, Zenon
  <1>6. \A a, b \in Nat : a + b = b + a
    OBVIOUS
  <1> QED BY <1>3, <1>4, <1>5, <1>6, Zenon

=============================================================================
