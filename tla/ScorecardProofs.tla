-------------------------- MODULE ScorecardProofs --------------------------
(* Proofs about the scorecard, for any dimensions, rulesets, policies and     *)
(* numbers of records.                                                        *)
EXTENDS Scorecard, FiniteSetTheorems, WellFoundedInduction, TLAPS

----------------------------------------------------------------------------
(* Induction over finite sets, with a set of subsets for the predicate *)

\* A set P of subsets that holds a set whenever it holds every set with one element
\* fewer holds the finite set S: induction along the size, with no operator parameter.
LEMMA SubsetInduction ==
  ASSUME NEW S, IsFiniteSet(S), NEW P,
         \A s \in SUBSET S : (\A x \in s : s \ {x} \in P) => s \in P
  PROVE  S \in P
<1> DEFINE Sizes == {Cardinality(s) : s \in {t \in SUBSET S : t \notin P}}
<1> SUFFICES ASSUME S \notin P PROVE FALSE
  OBVIOUS
<1>1. \A s \in SUBSET S : IsFiniteSet(s) /\ Cardinality(s) \in Nat
  BY FS_Subset, FS_CardinalityType
<1>2. Sizes \subseteq Nat /\ Sizes # {}
  BY <1>1
<1>3. PICK n \in Sizes : \A m \in Sizes : ~(<<m, n>> \in OpToRel(<, Nat))
  <2> HIDE DEF Sizes
  <2> QED BY <1>2, WFMin, NatLessThanWellFounded
<1>4. PICK s \in SUBSET S : s \notin P /\ Cardinality(s) = n
  BY <1>3
<1>5. ASSUME NEW x \in s
      PROVE  s \ {x} \in P
  <2>1. Cardinality(s \ {x}) = n - 1 /\ Cardinality(s \ {x}) \in Nat
    BY <1>1, <1>4, FS_RemoveElement
  <2>2. <<n - 1, n>> \in OpToRel(<, Nat)
    BY <1>1, <1>4, <2>1 DEF OpToRel
  <2>3. n - 1 \notin Sizes
    BY <1>3, <2>2
  <2> QED BY <2>1, <2>3
<1> QED BY <1>4, <1>5

----------------------------------------------------------------------------
(* Sums over finite sets *)

\* The recursion behind FoldFunctionOnSet.
Pick(s) == CHOOSE x \in s : TRUE
Folds(F, f, S) ==
  F = [s \in SUBSET S |-> IF s = {} THEN <<0, 1>> ELSE Plus(f[Pick(s)], F[s \ {Pick(s)}])]

\* A set with 0 and with the successor of each of its naturals has every natural.
LEMMA Counting ==
  ASSUME NEW K, 0 \in K, \A n \in Nat : n \in K => n + 1 \in K
  PROVE  Nat \subseteq K
<1> DEFINE Gaps == {n \in Nat : n \notin K}
<1> SUFFICES ASSUME Gaps # {} PROVE FALSE
  OBVIOUS
<1>1. PICK n \in Gaps : \A m \in Gaps : ~(<<m, n>> \in OpToRel(<, Nat))
  <2>1. Gaps \subseteq Nat
    OBVIOUS
  <2> HIDE DEF Gaps
  <2> QED BY <2>1, WFMin, NatLessThanWellFounded
<1>2. n - 1 \in Nat /\ n - 1 \in K
  <2>1. n \in Nat /\ n # 0
    BY <1>1
  <2>2. <<n - 1, n>> \in OpToRel(<, Nat)
    BY <2>1 DEF OpToRel
  <2>3. n - 1 \notin Gaps
    BY <1>1, <2>2
  <2> QED BY <2>1, <2>3
<1>3. PICK m \in Nat : m \in K /\ n = m + 1
  <2>1. n \in Nat /\ n = (n - 1) + 1
    OBVIOUS
  <2> WITNESS n - 1 \in Nat
  <2> QED BY <1>2, <2>1
<1>4. m + 1 \in K
  BY <1>3
<1> QED BY <1>1, <1>3, <1>4

\* The recursion a fold is defined by has a solution over a finite set.
LEMMA FoldExists ==
  ASSUME NEW f, NEW S, IsFiniteSet(S)
  PROVE  \E F : Folds(F, f, S)
<1> DEFINE Again(F) == [s \in SUBSET S |->
                         IF s = {} THEN <<0, 1>> ELSE Plus(f[Pick(s)], F[s \ {Pick(s)}])]
           Good(F, n) == \A t \in SUBSET S : Cardinality(t) <= n => F[t] = Again(F)[t]
           K == {n \in Nat : \E F : Good(F, n)}
<1>1. \A s \in SUBSET S : /\ IsFiniteSet(s) /\ Cardinality(s) \in Nat
                          /\ Cardinality(s) <= Cardinality(S)
                          /\ Cardinality(s) = 0 <=> s = {}
  BY FS_Subset, FS_CardinalityType, FS_EmptySet
<1>2. 0 \in K
  <2>1. Good([s \in SUBSET S |-> <<0, 1>>], 0)
    BY <1>1
  <2> QED BY <2>1
<1>3. ASSUME NEW n \in Nat, n \in K
      PROVE  n + 1 \in K
  <2>1. PICK F : Good(F, n)
    BY <1>3
  <2>2. ASSUME NEW s \in SUBSET S, Cardinality(s) <= n + 1
        PROVE  Again(F)[s] = Again(Again(F))[s]
    <3>1. CASE s = {}
      BY <3>1
    <3>2. CASE s # {}
      <4>1. Pick(s) \in s /\ s \ {Pick(s)} \in SUBSET S
        BY <3>2 DEF Pick
      <4>2. Cardinality(s \ {Pick(s)}) <= n
        BY <1>1, <2>2, <4>1, FS_RemoveElement
      <4>3. F[s \ {Pick(s)}] = Again(F)[s \ {Pick(s)}]
        BY <2>1, <4>1, <4>2
      <4>4. /\ Again(F)[s] = Plus(f[Pick(s)], F[s \ {Pick(s)}])
            /\ Again(Again(F))[s] = Plus(f[Pick(s)], Again(F)[s \ {Pick(s)}])
        BY <3>2
      <4> QED BY <4>3, <4>4
    <3> QED BY <3>1, <3>2
  <2>3. Good(Again(F), n + 1)
    BY <2>2
  <2> HIDE DEF Again
  <2> QED BY <2>3
<1>4. Cardinality(S) \in K
  <2> HIDE DEF K
  <2> QED BY <1>1, <1>2, <1>3, Counting
<1>5. PICK F : Good(F, Cardinality(S))
  BY <1>4
<1>6. \A s \in SUBSET S : F[s] = Again(F)[s]
  BY <1>1, <1>5
<1>7. Folds([s \in SUBSET S |-> F[s]], f, S)
  <2> DEFINE G == [s \in SUBSET S |-> F[s]]
  <2>1. ASSUME NEW s \in SUBSET S, s # {}
        PROVE  s \ {Pick(s)} \in SUBSET S
    OBVIOUS
  <2>2. \A s \in SUBSET S : G[s] = Again(G)[s]
    BY <1>6, <2>1
  <2>3. G = Again(G)
    BY <2>2
  <2> QED BY <2>3 DEF Folds
<1> QED BY <1>7

\* Total, the sum behind every mean (dimension_scoring.py), obeys that recursion.
LEMMA TotalFolds ==
  ASSUME NEW f, NEW S, IsFiniteSet(S)
  PROVE  \E F : Folds(F, f, S) /\ Total(f, S) = F[S]
<1> DEFINE F == CHOOSE it : it = [s \in SUBSET S |->
                   IF s = {} THEN <<0, 1>>
                   ELSE Plus(f[CHOOSE x \in s : TRUE], it[s \ {CHOOSE x \in s : TRUE}])]
<1>1. Total(f, S) = F[S]
  BY DEF Total, FoldFunctionOnSet, MapThenFoldSet
<1>2. Folds(F, f, S)
  <2>1. \E it : it = [s \in SUBSET S |->
                   IF s = {} THEN <<0, 1>>
                   ELSE Plus(f[CHOOSE x \in s : TRUE], it[s \ {CHOOSE x \in s : TRUE}])]
    <3>1. PICK it : Folds(it, f, S)
      BY FoldExists
    <3> QED BY <3>1 DEF Folds, Pick
  <2>2. F = [s \in SUBSET S |->
                   IF s = {} THEN <<0, 1>>
                   ELSE Plus(f[CHOOSE x \in s : TRUE], F[s \ {CHOOSE x \in s : TRUE}])]
    BY <2>1
  <2> QED BY <2>2 DEF Folds, Pick
<1> HIDE DEF F
<1> QED BY <1>1, <1>2

\* Two folds agree on a set where the functions they sum agree.
LEMMA FoldsAgree ==
  ASSUME NEW S, NEW T, IsFiniteSet(S), NEW f, NEW g, NEW F, NEW G, Folds(F, f, S), Folds(G, g, T),
         S \subseteq T, \A x \in S : f[x] = g[x]
  PROVE  F[S] = G[S]
<1> DEFINE P == {s \in SUBSET S : F[s] = G[s]}
<1>1. ASSUME NEW s \in SUBSET S, \A x \in s : s \ {x} \in P
      PROVE  s \in P
  <2>1. F[s] = IF s = {} THEN <<0, 1>> ELSE Plus(f[Pick(s)], F[s \ {Pick(s)}])
    BY DEF Folds
  <2>2. G[s] = IF s = {} THEN <<0, 1>> ELSE Plus(g[Pick(s)], G[s \ {Pick(s)}])
    BY DEF Folds
  <2>3. CASE s # {}
    <3>1. Pick(s) \in s
      BY <2>3 DEF Pick
    <3>2. s \ {Pick(s)} \in P /\ f[Pick(s)] = g[Pick(s)]
      BY <1>1, <3>1
    <3> QED BY <2>1, <2>2, <2>3, <3>2
  <2> QED BY <2>1, <2>2, <2>3
<1>2. S \in P
  <2> HIDE DEF P
  <2> QED BY <1>1, SubsetInduction
<1> QED BY <1>2

\* A sum depends on the function's values on the set and on nothing else.
LEMMA TotalAgrees ==
  ASSUME NEW S, IsFiniteSet(S), NEW f, NEW g, \A x \in S : f[x] = g[x]
  PROVE  Total(f, S) = Total(g, S)
BY TotalFolds, FoldsAgree

\* The sum over no element is 0.
LEMMA TotalOfNone ==
  ASSUME NEW f
  PROVE  Total(f, {}) = <<0, 1>>
<1>1. PICK F : Folds(F, f, {}) /\ Total(f, {}) = F[{}]
  BY TotalFolds, FS_EmptySet
<1>2. {} \in SUBSET {}
  OBVIOUS
<1> QED BY <1>1, <1>2 DEF Folds

\* A sum is the chosen element's term plus the sum over the rest.
LEMMA TotalPicks ==
  ASSUME NEW f, NEW S, IsFiniteSet(S), S # {}
  PROVE  Pick(S) \in S /\ Total(f, S) = Plus(f[Pick(S)], Total(f, S \ {Pick(S)}))
<1> DEFINE R == S \ {Pick(S)}
<1>1. PICK F : Folds(F, f, S) /\ Total(f, S) = F[S]
  BY TotalFolds
<1>2. IsFiniteSet(R)
  BY FS_RemoveElement
<1>3. PICK G : Folds(G, f, R) /\ Total(f, R) = G[R]
  BY <1>2, TotalFolds
<1>4. G[R] = F[R]
  <2>1. R \subseteq S
    OBVIOUS
  <2> HIDE DEF R
  <2> QED BY <1>1, <1>2, <1>3, <2>1, FoldsAgree
<1>5. F[S] = Plus(f[Pick(S)], F[R])
  BY <1>1 DEF Folds
<1> QED BY <1>1, <1>3, <1>4, <1>5 DEF Pick

----------------------------------------------------------------------------
(* Fractions *)

Fraction == {a \in Int \X Int : a[2] > 0}

\* The sum of two fractions is a fraction.
LEMMA PlusType ==
  ASSUME NEW a \in Fraction, NEW b \in Fraction
  PROVE  Plus(a, b) \in Fraction
<1>1. a[2] * b[2] > 0
  BY DEF Fraction
<1> QED BY <1>1 DEF Fraction, Plus

\* Two terms enter a sum in either order.
LEMMA PlusCommutes ==
  ASSUME NEW a \in Fraction, NEW b \in Fraction, NEW c \in Fraction
  PROVE  Plus(a, Plus(b, c)) = Plus(b, Plus(a, c))
BY DEF Fraction, Plus

\* The order of fractions is transitive.
LEMMA AtLeastTransitive ==
  ASSUME NEW a \in Fraction, NEW b \in Fraction, NEW c \in Fraction, AtLeast(a, b), AtLeast(b, c)
  PROVE  AtLeast(a, c)
<1> USE DEF Fraction, AtLeast
<1>1. a[1] * b[2] * c[2] >= b[1] * a[2] * c[2]
  OBVIOUS
<1>2. b[1] * c[2] * a[2] >= c[1] * b[2] * a[2]
  OBVIOUS
<1>3. b[2] * (a[1] * c[2] - c[1] * a[2]) >= 0
  BY <1>1, <1>2
<1>4. a[1] * c[2] - c[1] * a[2] >= 0
  BY <1>3
<1> QED BY <1>4

\* A sum of fractions is a fraction.
LEMMA TotalType ==
  ASSUME NEW S, IsFiniteSet(S), NEW f, \A x \in S : f[x] \in Fraction
  PROVE  Total(f, S) \in Fraction
<1> DEFINE P == {s \in SUBSET S : Total(f, s) \in Fraction}
<1>1. ASSUME NEW s \in SUBSET S, \A x \in s : s \ {x} \in P
      PROVE  s \in P
  <2>1. CASE s = {}
    BY <2>1, TotalOfNone DEF Fraction
  <2>2. CASE s # {}
    <3>1. IsFiniteSet(s)
      BY FS_Subset
    <3>2. Pick(s) \in s /\ Total(f, s) = Plus(f[Pick(s)], Total(f, s \ {Pick(s)}))
      BY <2>2, <3>1, TotalPicks
    <3> QED BY <1>1, <3>2, PlusType
  <2> QED BY <2>1, <2>2
<1>2. S \in P
  <2> HIDE DEF P
  <2> QED BY <1>1, SubsetInduction
<1> QED BY <1>2

\* A sum is the term of ANY element plus the sum over the rest: the order in which the
\* code adds up the scores does not matter.
LEMMA TotalAdds ==
  ASSUME NEW S, IsFiniteSet(S), NEW f, \A x \in S : f[x] \in Fraction, NEW x \in S
  PROVE  Total(f, S) = Plus(f[x], Total(f, S \ {x}))
<1> DEFINE P == {s \in SUBSET S : \A y \in s : Total(f, s) = Plus(f[y], Total(f, s \ {y}))}
<1>1. ASSUME NEW s \in SUBSET S, \A y \in s : s \ {y} \in P
      PROVE  s \in P
  <2> SUFFICES ASSUME NEW y \in s
               PROVE  Total(f, s) = Plus(f[y], Total(f, s \ {y}))
    OBVIOUS
  <2> DEFINE c == Pick(s)
  <2>1. IsFiniteSet(s) /\ IsFiniteSet(s \ {y})
    BY FS_Subset
  <2>2. c \in s /\ Total(f, s) = Plus(f[c], Total(f, s \ {c}))
    BY <2>1, TotalPicks
  <2> HIDE DEF c
  <2>3. CASE c # y
    <3>1. Total(f, s \ {c}) = Plus(f[y], Total(f, (s \ {c}) \ {y}))
      BY <1>1, <2>2, <2>3
    <3>2. Total(f, s \ {y}) = Plus(f[c], Total(f, (s \ {y}) \ {c}))
      BY <1>1, <2>2, <2>3
    <3>3. (s \ {c}) \ {y} = (s \ {y}) \ {c}
      OBVIOUS
    <3> DEFINE rest == Total(f, (s \ {y}) \ {c})
    <3>4. rest \in Fraction
      <4>1. IsFiniteSet((s \ {y}) \ {c})
        BY <2>1, FS_RemoveElement
      <4> QED BY <4>1, TotalType
    <3>5. f[c] \in Fraction /\ f[y] \in Fraction
      BY <2>2
    <3>6. Plus(f[c], Plus(f[y], rest)) = Plus(f[y], Plus(f[c], rest))
      <4> HIDE DEF rest
      <4> QED BY <3>4, <3>5, PlusCommutes
    <3> QED BY <2>2, <3>1, <3>2, <3>3, <3>6
  <2> QED BY <2>2, <2>3
<1>2. S \in P
  <2> HIDE DEF P
  <2> QED BY <1>1, SubsetInduction
<1> QED BY <1>2

\* Adding the same term keeps the order.
LEMMA PlusKeepsOrder ==
  ASSUME NEW a \in Fraction, NEW b \in Fraction, NEW c \in Fraction, AtLeast(a, b)
  PROVE  AtLeast(Plus(a, c), Plus(b, c))
<1> USE DEF Fraction, AtLeast, Plus
<1>1. (a[1] * b[2] - b[1] * a[2]) * (c[2] * c[2]) >= 0
  <2>1. c[2] * c[2] > 0 /\ c[2] * c[2] \in Int /\ a[1] * b[2] - b[1] * a[2] >= 0
    OBVIOUS
  <2> QED BY <2>1
<1> QED BY <1>1

\* Weighting two scores alike keeps the order.
LEMMA ScaleKeepsOrder ==
  ASSUME NEW a \in Fraction, NEW b \in Fraction, NEW k \in Nat, AtLeast(a, b)
  PROVE  AtLeast(Scale(k, a), Scale(k, b))
<1> USE DEF Fraction, AtLeast, Scale
<1>1. k * (a[1] * b[2] - b[1] * a[2]) >= 0
  <2>1. a[1] * b[2] - b[1] * a[2] >= 0
    OBVIOUS
  <2> QED BY <2>1
<1> QED BY <1>1

\* Dividing by the same total weight keeps the order.
LEMMA QuotientKeepsOrder ==
  ASSUME NEW a \in Fraction, NEW b \in Fraction, NEW n \in Nat \ {0}, AtLeast(a, b)
  PROVE  AtLeast(Quotient(a, <<n, 1>>), Quotient(b, <<n, 1>>))
<1> USE DEF Fraction, AtLeast, Quotient
<1>1. n * (a[1] * b[2] - b[1] * a[2]) >= 0
  <2>1. a[1] * b[2] - b[1] * a[2] >= 0
    OBVIOUS
  <2> QED BY <2>1
<1> QED BY <1>1

----------------------------------------------------------------------------
(* Weighted means *)

\* The numerator of Weighted, and when a mean over S makes sense.
Terms(value, weight, S) == Total([x \in S |-> Scale(weight[x], value[x])], S)
Weighable(value, weight, S) ==
  IsFiniteSet(S) /\ \A x \in S : value[x] \in Fraction /\ weight[x] \in Nat \ {0}

\* The numerator of a weighted mean is one element's weighted value plus the rest.
LEMMA TermsAdd ==
  ASSUME NEW S, NEW value, NEW weight, Weighable(value, weight, S), NEW x \in S
  PROVE  /\ Weighable(value, weight, S \ {x})
         /\ Scale(weight[x], value[x]) \in Fraction
         /\ Terms(value, weight, S) \in Fraction
         /\ Terms(value, weight, S) = Plus(Scale(weight[x], value[x]), Terms(value, weight, S \ {x}))
<1> DEFINE f == [y \in S |-> Scale(weight[y], value[y])]
           g == [y \in S \ {x} |-> Scale(weight[y], value[y])]
<1>1. \A y \in S : f[y] \in Fraction
  <2> SUFFICES ASSUME NEW y \in S
               PROVE  f[y] \in Fraction
    OBVIOUS
  <2>1. value[y] \in Fraction /\ weight[y] \in Nat
    BY DEF Weighable
  <2> QED BY <2>1 DEF Fraction, Scale
<1>2. IsFiniteSet(S) /\ IsFiniteSet(S \ {x})
  BY FS_RemoveElement DEF Weighable
<1>3. Total(f, S) = Plus(f[x], Total(f, S \ {x})) /\ Total(f, S) \in Fraction
  <2> HIDE DEF f
  <2> QED BY <1>1, <1>2, TotalAdds, TotalType
<1>4. Total(f, S \ {x}) = Total(g, S \ {x})
  <2>1. \A y \in S \ {x} : f[y] = g[y]
    OBVIOUS
  <2> HIDE DEF f, g
  <2> QED BY <1>2, <2>1, TotalAgrees
<1>5. f[x] = Scale(weight[x], value[x])
  OBVIOUS
<1> QED BY <1>1, <1>2, <1>3, <1>4, <1>5 DEF Terms, Weighable

\* A total weight is one element's weight plus the rest.
LEMMA WeightAdds ==
  ASSUME NEW S, IsFiniteSet(S), NEW weight, \A y \in S : weight[y] \in Nat, NEW x \in S
  PROVE  WeightOf(weight, S) = Plus(<<weight[x], 1>>, WeightOf(weight, S \ {x}))
<1> DEFINE f == [y \in S |-> <<weight[y], 1>>]
           g == [y \in S \ {x} |-> <<weight[y], 1>>]
<1>1. \A y \in S : f[y] \in Fraction
  BY DEF Fraction
<1>2. IsFiniteSet(S \ {x})
  BY FS_RemoveElement
<1>3. Total(f, S) = Plus(f[x], Total(f, S \ {x}))
  <2> HIDE DEF f
  <2> QED BY <1>1, <1>2, TotalAdds
<1>4. Total(f, S \ {x}) = Total(g, S \ {x})
  <2>1. \A y \in S \ {x} : f[y] = g[y]
    OBVIOUS
  <2> HIDE DEF f, g
  <2> QED BY <1>2, <2>1, TotalAgrees
<1> QED BY <1>3, <1>4 DEF WeightOf

\* A total weight is a natural number over 1.
LEMMA WeightType ==
  ASSUME NEW S, IsFiniteSet(S), NEW weight, \A x \in S : weight[x] \in Nat
  PROVE  \E n \in Nat : WeightOf(weight, S) = <<n, 1>>
<1> DEFINE P == {s \in SUBSET S : \E n \in Nat : WeightOf(weight, s) = <<n, 1>>}
<1>1. ASSUME NEW s \in SUBSET S, \A x \in s : s \ {x} \in P
      PROVE  s \in P
  <2>1. CASE s = {}
    BY <2>1, TotalOfNone DEF WeightOf
  <2>2. CASE s # {}
    <3>1. PICK x \in s : TRUE
      BY <2>2
    <3>2. IsFiniteSet(s) /\ \A y \in s : weight[y] \in Nat
      BY FS_Subset
    <3>3. WeightOf(weight, s) = Plus(<<weight[x], 1>>, WeightOf(weight, s \ {x}))
      BY <3>1, <3>2, WeightAdds
    <3>4. PICK n \in Nat : WeightOf(weight, s \ {x}) = <<n, 1>>
      BY <1>1, <3>1
    <3>5. WeightOf(weight, s) = <<weight[x] + n, 1>> /\ weight[x] + n \in Nat
      BY <3>1, <3>2, <3>3, <3>4 DEF Plus
    <3> QED BY <3>5
  <2> QED BY <2>1, <2>2
<1>2. S \in P
  <2> HIDE DEF P
  <2> QED BY <1>1, SubsetInduction
<1> QED BY <1>2

\* Taking an element in adds its weight to the total.
LEMMA WeightGrows ==
  ASSUME NEW S, IsFiniteSet(S), NEW weight, \A x \in S : weight[x] \in Nat, NEW y \in S
  PROVE  \E n \in Nat : /\ WeightOf(weight, S \ {y}) = <<n, 1>>
                        /\ WeightOf(weight, S) = <<weight[y] + n, 1>>
<1>1. IsFiniteSet(S \ {y})
  BY FS_RemoveElement
<1>2. PICK n \in Nat : WeightOf(weight, S \ {y}) = <<n, 1>>
  BY <1>1, WeightType
<1>3. WeightOf(weight, S) = Plus(<<weight[y], 1>>, <<n, 1>>)
  BY <1>2, WeightAdds
<1> QED BY <1>2, <1>3 DEF Plus

\* A mean over at least one element with positive weight is a fraction: no division by 0.
LEMMA MeanType ==
  ASSUME NEW S, S # {}, NEW value, NEW weight, Weighable(value, weight, S)
  PROVE  /\ \E n \in Nat \ {0} : WeightOf(weight, S) = <<n, 1>>
         /\ Terms(value, weight, S) \in Fraction
         /\ Weighted(value, weight, S) = Quotient(Terms(value, weight, S), WeightOf(weight, S))
         /\ Weighted(value, weight, S) \in Fraction
<1>1. PICK x \in S : TRUE
  OBVIOUS
<1>0. IsFiniteSet(S) /\ (\A y \in S : weight[y] \in Nat) /\ weight[x] > 0
  BY DEF Weighable
<1>2. PICK m \in Nat : /\ WeightOf(weight, S \ {x}) = <<m, 1>>
                       /\ WeightOf(weight, S) = <<weight[x] + m, 1>>
  BY <1>0, WeightGrows
<1>3. weight[x] + m \in Nat \ {0}
  BY <1>0
<1>4. Terms(value, weight, S) \in Fraction
  BY TermsAdd
<1>5. Weighted(value, weight, S) = Quotient(Terms(value, weight, S), WeightOf(weight, S))
  BY DEF Weighted, Terms
<1>6. ASSUME NEW a \in Fraction, NEW n \in Nat \ {0}
      PROVE  Quotient(a, <<n, 1>>) \in Fraction
  BY DEF Fraction, Quotient
<1> QED BY <1>2, <1>3, <1>4, <1>5, <1>6

\* t is at least n times b; the bound that the induction over a mean's elements keeps.
Over(t, b, n) == t[1] * b[2] >= b[1] * n * t[2]
WellOver(t, b, n) == t[1] * b[2] > b[1] * n * t[2]

\* Where every value so far is over b on average, a value above b keeps it so, strictly.
LEMMA HigherTerm ==
  ASSUME NEW v \in Fraction, NEW t \in Fraction, NEW b \in Fraction,
         NEW w \in Nat \ {0}, NEW n \in Nat, ~AtLeast(b, v), Over(t, b, n)
  PROVE  LET s == Plus(Scale(w, v), t)
         IN  Over(s, b, w + n) /\ WellOver(s, b, w + n)
<1> USE DEF Fraction
<1>1. (w * t[2]) * (v[1] * b[2] - b[1] * v[2]) > 0
  <2>1. w * t[2] > 0 /\ w * t[2] \in Int /\ v[1] * b[2] - b[1] * v[2] > 0
    BY DEF AtLeast
  <2> QED BY <2>1
<1>2. v[2] * (t[1] * b[2] - b[1] * n * t[2]) >= 0
  <2>1. t[1] * b[2] - b[1] * n * t[2] >= 0
    BY DEF Over
  <2> QED BY <2>1
<1>3. (w * v[1] * t[2] + t[1] * v[2]) * b[2] - b[1] * (w + n) * (v[2] * t[2])
        = (w * t[2]) * (v[1] * b[2] - b[1] * v[2]) + v[2] * (t[1] * b[2] - b[1] * n * t[2])
  OBVIOUS
<1>4. (w * v[1] * t[2] + t[1] * v[2]) * b[2] - b[1] * (w + n) * (v[2] * t[2]) > 0
  BY <1>1, <1>2, <1>3
<1> QED BY <1>4 DEF Over, WellOver, Plus, Scale

\* t is at most n times b.
Under(t, b, n) == t[1] * b[2] <= b[1] * n * t[2]
WellUnder(t, b, n) == t[1] * b[2] < b[1] * n * t[2]

\* The mirror image: a value below b keeps the average under b, strictly.
LEMMA LowerTerm ==
  ASSUME NEW v \in Fraction, NEW t \in Fraction, NEW b \in Fraction,
         NEW w \in Nat \ {0}, NEW n \in Nat, ~AtLeast(v, b), Under(t, b, n)
  PROVE  LET s == Plus(Scale(w, v), t)
         IN  Under(s, b, w + n) /\ WellUnder(s, b, w + n)
<1> USE DEF Fraction
<1>1. (w * t[2]) * (b[1] * v[2] - v[1] * b[2]) > 0
  <2>1. w * t[2] > 0 /\ w * t[2] \in Int /\ b[1] * v[2] - v[1] * b[2] > 0
    BY DEF AtLeast
  <2> QED BY <2>1
<1>2. v[2] * (b[1] * n * t[2] - t[1] * b[2]) >= 0
  <2>1. b[1] * n * t[2] - t[1] * b[2] >= 0
    BY DEF Under
  <2> QED BY <2>1
<1>3. b[1] * (w + n) * (v[2] * t[2]) - (w * v[1] * t[2] + t[1] * v[2]) * b[2]
        = (w * t[2]) * (b[1] * v[2] - v[1] * b[2]) + v[2] * (b[1] * n * t[2] - t[1] * b[2])
  OBVIOUS
<1>4. b[1] * (w + n) * (v[2] * t[2]) - (w * v[1] * t[2] + t[1] * v[2]) * b[2] > 0
  BY <1>1, <1>2, <1>3
<1> QED BY <1>4 DEF Under, WellUnder, Plus, Scale

\* The numerator of a weighted mean is a fraction.
LEMMA TermsType ==
  ASSUME NEW S, NEW value, NEW weight, Weighable(value, weight, S)
  PROVE  Terms(value, weight, S) \in Fraction
<1>1. CASE S = {}
  BY <1>1, TotalOfNone DEF Terms, Fraction
<1>2. CASE S # {}
  <2>1. PICK x \in S : TRUE
    BY <1>2
  <2> QED BY <2>1, TermsAdd
<1> QED BY <1>1, <1>2

\* A mean of values that are all above b is above b.
LEMMA MeanNotBelow ==
  ASSUME NEW S, S # {}, NEW value, NEW weight, Weighable(value, weight, S),
         NEW b \in Fraction, \A x \in S : ~AtLeast(b, value[x])
  PROVE  ~AtLeast(b, Weighted(value, weight, S))
<1> DEFINE P == {s \in SUBSET S : \A n \in Nat : WeightOf(weight, s) = <<n, 1>> =>
                   /\ Over(Terms(value, weight, s), b, n)
                   /\ s # {} => WellOver(Terms(value, weight, s), b, n)}
<1>1. ASSUME NEW s \in SUBSET S, \A x \in s : s \ {x} \in P
      PROVE  s \in P
  <2> SUFFICES ASSUME NEW n \in Nat, WeightOf(weight, s) = <<n, 1>>
               PROVE  /\ Over(Terms(value, weight, s), b, n)
                      /\ s # {} => WellOver(Terms(value, weight, s), b, n)
    OBVIOUS
  <2> HIDE DEF P
  <2>1. CASE s = {}
    <3>1. WeightOf(weight, s) = <<0, 1>> /\ Terms(value, weight, s) = <<0, 1>>
      BY <2>1, TotalOfNone DEF WeightOf, Terms
    <3>2. n = 0 /\ b[1] \in Int /\ b[2] \in Int
      BY <3>1 DEF Fraction
    <3> QED BY <2>1, <3>1, <3>2 DEF Over
  <2>2. CASE s # {}
    <3>1. PICK x \in s : TRUE
      BY <2>2
    <3>2. Weighable(value, weight, s) /\ Weighable(value, weight, s \ {x})
      BY FS_Subset DEF Weighable
    <3>3. PICK m \in Nat : WeightOf(weight, s \ {x}) = <<m, 1>> /\ WeightOf(weight, s) = <<weight[x] + m, 1>>
      <4>1. IsFiniteSet(s) /\ \A y \in s : weight[y] \in Nat
        BY <3>2 DEF Weighable
      <4> QED BY <4>1, WeightGrows
    <3>4. n = weight[x] + m /\ weight[x] \in Nat \ {0} /\ value[x] \in Fraction
      BY <3>2, <3>3 DEF Weighable
    <3> DEFINE rest == Terms(value, weight, s \ {x})
    <3>5. Terms(value, weight, s) = Plus(Scale(weight[x], value[x]), rest)
      BY <3>2, TermsAdd
    <3>6. rest \in Fraction
      BY <3>2, TermsType
    <3>7. Over(rest, b, m)
      BY <1>1, <3>1, <3>3 DEF P
    <3>8. ~AtLeast(b, value[x])
      BY <3>1
    <3> HIDE DEF rest
    <3> QED BY <3>4, <3>5, <3>6, <3>7, <3>8, HigherTerm
  <2> QED BY <2>1, <2>2
<1>2. S \in P
  <2> HIDE DEF P
  <2> QED BY <1>1, SubsetInduction DEF Weighable
<1>3. PICK n \in Nat \ {0} : WeightOf(weight, S) = <<n, 1>>
  BY MeanType
<1> DEFINE t == Terms(value, weight, S)
<1>4. t \in Fraction /\ Weighted(value, weight, S) = Quotient(t, <<n, 1>>)
  BY <1>3, MeanType
<1>5. WellOver(t, b, n)
  BY <1>2, <1>3
<1> HIDE DEF t
<1> QED BY <1>4, <1>5 DEF Fraction, AtLeast, Quotient, WellOver

\* A mean of values that are all below b is below b.
LEMMA MeanNotAbove ==
  ASSUME NEW S, S # {}, NEW value, NEW weight, Weighable(value, weight, S),
         NEW b \in Fraction, \A x \in S : ~AtLeast(value[x], b)
  PROVE  ~AtLeast(Weighted(value, weight, S), b)
<1> DEFINE P == {s \in SUBSET S : \A n \in Nat : WeightOf(weight, s) = <<n, 1>> =>
                   /\ Under(Terms(value, weight, s), b, n)
                   /\ s # {} => WellUnder(Terms(value, weight, s), b, n)}
<1>1. ASSUME NEW s \in SUBSET S, \A x \in s : s \ {x} \in P
      PROVE  s \in P
  <2> SUFFICES ASSUME NEW n \in Nat, WeightOf(weight, s) = <<n, 1>>
               PROVE  /\ Under(Terms(value, weight, s), b, n)
                      /\ s # {} => WellUnder(Terms(value, weight, s), b, n)
    OBVIOUS
  <2> HIDE DEF P
  <2>1. CASE s = {}
    <3>1. WeightOf(weight, s) = <<0, 1>> /\ Terms(value, weight, s) = <<0, 1>>
      BY <2>1, TotalOfNone DEF WeightOf, Terms
    <3>2. n = 0 /\ b[1] \in Int /\ b[2] \in Int
      BY <3>1 DEF Fraction
    <3> QED BY <2>1, <3>1, <3>2 DEF Under
  <2>2. CASE s # {}
    <3>1. PICK x \in s : TRUE
      BY <2>2
    <3>2. Weighable(value, weight, s) /\ Weighable(value, weight, s \ {x})
      BY FS_Subset DEF Weighable
    <3>3. PICK m \in Nat : WeightOf(weight, s \ {x}) = <<m, 1>> /\ WeightOf(weight, s) = <<weight[x] + m, 1>>
      <4>1. IsFiniteSet(s) /\ \A y \in s : weight[y] \in Nat
        BY <3>2 DEF Weighable
      <4> QED BY <4>1, WeightGrows
    <3>4. n = weight[x] + m /\ weight[x] \in Nat \ {0} /\ value[x] \in Fraction
      BY <3>2, <3>3 DEF Weighable
    <3> DEFINE rest == Terms(value, weight, s \ {x})
    <3>5. Terms(value, weight, s) = Plus(Scale(weight[x], value[x]), rest)
      BY <3>2, TermsAdd
    <3>6. rest \in Fraction
      BY <3>2, TermsType
    <3>7. Under(rest, b, m)
      BY <1>1, <3>1, <3>3 DEF P
    <3>8. ~AtLeast(value[x], b)
      BY <3>1
    <3> HIDE DEF rest
    <3> QED BY <3>4, <3>5, <3>6, <3>7, <3>8, LowerTerm
  <2> QED BY <2>1, <2>2
<1>2. S \in P
  <2> HIDE DEF P
  <2> QED BY <1>1, SubsetInduction DEF Weighable
<1>3. PICK n \in Nat \ {0} : WeightOf(weight, S) = <<n, 1>>
  BY MeanType
<1> DEFINE t == Terms(value, weight, S)
<1>4. t \in Fraction /\ Weighted(value, weight, S) = Quotient(t, <<n, 1>>)
  BY <1>3, MeanType
<1>5. WellUnder(t, b, n)
  BY <1>2, <1>3
<1> HIDE DEF t
<1> QED BY <1>4, <1>5 DEF Fraction, AtLeast, Quotient, WellUnder

\* A weighted mean is at least one of its values and at most one of them.
LEMMA MeanIsBetween ==
  ASSUME NEW S, S # {}, NEW value, NEW weight, Weighable(value, weight, S)
  PROVE  /\ \E x \in S : AtLeast(Weighted(value, weight, S), value[x])
         /\ \E x \in S : AtLeast(value[x], Weighted(value, weight, S))
<1> DEFINE b == Weighted(value, weight, S)
<1>1. b \in Fraction /\ AtLeast(b, b)
  BY MeanType DEF Fraction, AtLeast
<1>2. ASSUME \A x \in S : ~AtLeast(b, value[x])
      PROVE  FALSE
  BY <1>1, <1>2, MeanNotBelow
<1>3. ASSUME \A x \in S : ~AtLeast(value[x], b)
      PROVE  FALSE
  BY <1>1, <1>3, MeanNotAbove
<1> QED BY <1>2, <1>3

\* A mean of scores from 0 to top is a score from 0 to top.
LEMMA MeanUpTo ==
  ASSUME NEW S, S # {}, NEW value, NEW weight, NEW top \in Nat, IsFiniteSet(S),
         \A x \in S : value[x] \in UpTo(top) /\ weight[x] \in Nat \ {0}
  PROVE  Weighted(value, weight, S) \in UpTo(top)
<1>1. Weighable(value, weight, S)
  BY DEF Weighable, UpTo, Fraction
<1>2. Weighted(value, weight, S) \in Fraction
  BY <1>1, MeanType
<1>3. PICK x \in S : AtLeast(Weighted(value, weight, S), value[x])
  BY <1>1, MeanIsBetween
<1>4. PICK y \in S : AtLeast(value[y], Weighted(value, weight, S))
  BY <1>1, MeanIsBetween
<1>5. /\ value[x] \in Fraction /\ AtLeast(value[x], <<0, 1>>)
      /\ value[y] \in Fraction /\ AtLeast(<<top, 1>>, value[y])
      /\ <<0, 1>> \in Fraction /\ <<top, 1>> \in Fraction
  BY DEF UpTo, Fraction
<1>6. AtLeast(Weighted(value, weight, S), <<0, 1>>) /\ AtLeast(<<top, 1>>, Weighted(value, weight, S))
  BY <1>2, <1>3, <1>4, <1>5, AtLeastTransitive
<1> QED BY <1>2, <1>6 DEF UpTo, Fraction

\* The two sums of a mean depend on the values and weights on the set alone.
LEMMA MeansAgree ==
  ASSUME NEW S, IsFiniteSet(S), NEW v, NEW w, NEW x, NEW y,
         \A s \in S : v[s] = x[s] /\ w[s] = y[s]
  PROVE  Terms(v, w, S) = Terms(x, y, S) /\ WeightOf(w, S) = WeightOf(y, S)
<1>1. [s \in S |-> Scale(w[s], v[s])] = [s \in S |-> Scale(y[s], x[s])]
  OBVIOUS
<1>2. [s \in S |-> <<w[s], 1>>] = [s \in S |-> <<y[s], 1>>]
  OBVIOUS
<1> QED BY <1>1, <1>2 DEF Terms, WeightOf

\* A mean does not fall when one value is replaced by a higher one of the same weight.
LEMMA MeanReplaced ==
  ASSUME NEW S, NEW v, NEW w, Weighable(v, w, S), NEW s \in S,
         NEW T, NEW x, NEW y, Weighable(x, y, T), NEW t \in T,
         S \ {s} = T \ {t}, \A r \in S \ {s} : v[r] = x[r] /\ w[r] = y[r],
         w[s] = y[t], AtLeast(x[t], v[s])
  PROVE  AtLeast(Weighted(x, y, T), Weighted(v, w, S))
<1> DEFINE rest == Terms(v, w, S \ {s})
<1>1. /\ Terms(v, w, S) = Plus(Scale(w[s], v[s]), rest) /\ Terms(v, w, S) \in Fraction
      /\ Scale(w[s], v[s]) \in Fraction /\ rest \in Fraction
  BY TermsAdd, TermsType
<1>2. /\ Terms(v, w, S \ {s}) = Terms(x, y, T \ {t})
      /\ WeightOf(w, S \ {s}) = WeightOf(y, T \ {t})
  <2>1. IsFiniteSet(S \ {s})
    BY FS_RemoveElement DEF Weighable
  <2> QED BY <2>1, MeansAgree
<1>3. /\ Terms(x, y, T) = Plus(Scale(y[t], x[t]), rest) /\ Terms(x, y, T) \in Fraction
      /\ Scale(y[t], x[t]) \in Fraction
  BY <1>2, TermsAdd
<1>4. AtLeast(Scale(y[t], x[t]), Scale(w[s], v[s]))
  BY ScaleKeepsOrder DEF Weighable
<1>5. AtLeast(Terms(x, y, T), Terms(v, w, S))
  <2> HIDE DEF rest
  <2> QED BY <1>1, <1>3, <1>4, PlusKeepsOrder
<1>6. WeightOf(y, T) = WeightOf(w, S)
  <2>1. /\ IsFiniteSet(S) /\ \A r \in S : w[r] \in Nat
        /\ IsFiniteSet(T) /\ \A r \in T : y[r] \in Nat
    BY DEF Weighable
  <2>2. /\ WeightOf(w, S) = Plus(<<w[s], 1>>, WeightOf(w, S \ {s}))
        /\ WeightOf(y, T) = Plus(<<y[t], 1>>, WeightOf(y, T \ {t}))
    BY <2>1, WeightAdds
  <2> QED BY <1>2, <2>2
<1>7. PICK n \in Nat \ {0} : WeightOf(w, S) = <<n, 1>>
  BY MeanType
<1>8. AtLeast(Quotient(Terms(x, y, T), <<n, 1>>), Quotient(Terms(v, w, S), <<n, 1>>))
  BY <1>1, <1>3, <1>5, <1>7, QuotientKeepsOrder
<1> QED BY <1>6, <1>7, <1>8, MeanType

\* Adding a term no lower than the mean does not lower the mean: the arithmetic.
LEMMA Joins ==
  ASSUME NEW a \in Fraction, NEW v \in Fraction, NEW w \in Nat, NEW n \in Nat \ {0},
         AtLeast(v, Quotient(a, <<n, 1>>))
  PROVE  AtLeast(Quotient(Plus(Scale(w, v), a), <<w + n, 1>>), Quotient(a, <<n, 1>>))
<1> USE DEF Fraction
<1>1. v[1] * (a[2] * n) - a[1] * v[2] >= 0
  BY DEF AtLeast, Quotient
<1>2. (w * a[2]) * (v[1] * (a[2] * n) - a[1] * v[2]) >= 0
  <2>1. w * a[2] >= 0 /\ w * a[2] \in Int
    OBVIOUS
  <2> QED BY <1>1, <2>1
<1>3. (w * v[1] * a[2] + a[1] * v[2]) * (a[2] * n) - a[1] * ((v[2] * a[2]) * (w + n))
        = (w * a[2]) * (v[1] * (a[2] * n) - a[1] * v[2])
  OBVIOUS
<1>4. (w * v[1] * a[2] + a[1] * v[2]) * (a[2] * n) - a[1] * ((v[2] * a[2]) * (w + n)) >= 0
  BY <1>2, <1>3
<1> QED BY <1>4 DEF AtLeast, Quotient, Plus, Scale

\* A mean does not fall when a value no lower than it joins.
LEMMA MeanJoined ==
  ASSUME NEW S, S # {}, NEW v, NEW w, Weighable(v, w, S),
         NEW T, NEW x, NEW y, Weighable(x, y, T), NEW t \in T,
         S = T \ {t}, \A r \in S : v[r] = x[r] /\ w[r] = y[r],
         AtLeast(x[t], Weighted(v, w, S))
  PROVE  AtLeast(Weighted(x, y, T), Weighted(v, w, S))
<1>1. PICK n \in Nat \ {0} : WeightOf(w, S) = <<n, 1>>
  BY MeanType
<1>2. /\ Terms(v, w, S) \in Fraction
      /\ Weighted(v, w, S) = Quotient(Terms(v, w, S), <<n, 1>>)
  BY <1>1, MeanType
<1>3. /\ Terms(x, y, S) = Terms(v, w, S)
      /\ WeightOf(y, S) = WeightOf(w, S)
  BY MeansAgree DEF Weighable
<1>4. Terms(x, y, T) = Plus(Scale(y[t], x[t]), Terms(v, w, S))
  BY <1>3, TermsAdd
<1>5. y[t] \in Nat /\ x[t] \in Fraction
  BY DEF Weighable
<1>6. WeightOf(y, T) = <<y[t] + n, 1>>
  <2>1. IsFiniteSet(T) /\ \A r \in T : y[r] \in Nat
    BY DEF Weighable
  <2>2. WeightOf(y, T) = Plus(<<y[t], 1>>, <<n, 1>>)
    BY <1>1, <1>3, <2>1, WeightAdds
  <2> QED BY <1>5, <2>2 DEF Plus
<1>7. Weighted(x, y, T) = Quotient(Plus(Scale(y[t], x[t]), Terms(v, w, S)), <<y[t] + n, 1>>)
  BY <1>4, <1>6, MeanType
<1> QED BY <1>2, <1>5, <1>7, Joins
----------------------------------------------------------------------------
(* The results of a run, and the card they make *)

\* A missing score is not a fraction.
LEMMA NoneIsNoFraction == None \notin Fraction
BY DEF None, Fraction

\* A result with the types of its fields.
Typed(r) ==
  /\ r.dim \in Dims /\ r.weight \in Nat /\ r.violations \in Nat
  /\ r.score = None \/ r.score \in UpTo(100)
  /\ r.threshold = None \/ r.threshold \in UpTo(100)

\* A ruleset, outputs and outlier results a run may have.
Context(rs, os, sigs) ==
  rs \in Rulesets /\ os \in [DOMAIN rs -> Outputs] /\ sigs \subseteq {"MEASURED", "NOT_MEASURABLE"}

\* A score in range is a fraction, and is not missing.
LEMMA UpToFraction ==
  ASSUME NEW top \in Nat, NEW a \in UpTo(top)
  PROVE  a \in Fraction /\ a # None
BY NoneIsNoFraction DEF UpTo, Fraction

\* What the engine returns for a rule: a status, and counts that are 0 unless measured.
LEMMA OutputType ==
  ASSUME NEW o \in Outputs
  PROVE  /\ o.status \in Unmeasured \union {"MEASURED"}
         /\ o.counts \in [Records -> 0..Rows]
         /\ o.status # "MEASURED" => o.counts = NoRecords
BY RowsAssumption DEF Outputs, Counted, NotCounted, Unmeasured, Measurements, NoRecords

\* The rules of a ruleset the API accepted have their types, and their numbers start at 1.
LEMMA RuleType ==
  ASSUME NEW rs \in Rulesets, NEW i \in DOMAIN rs
  PROVE  rs[i] \in Rules /\ i \in Nat \ {0}
<1>1. rs \in Seq(Rules)
  BY RulesetsAssumption
<1> QED BY <1>1

\* The four counts of an output are natural numbers.
LEMMA CountsType ==
  ASSUME NEW o \in Outputs
  PROVE  /\ o.counts["passed"] \in Nat /\ o.counts["failed"] \in Nat
         /\ o.counts["missing"] \in Nat /\ o.counts["outside"] \in Nat
BY OutputType, RowsAssumption DEF Records

\* What the result of a rule says whose output has counts: a score and the violations, or
\* with no record in the denominator neither.
LEMMA MeasuredResult ==
  ASSUME NEW i, NEW rule, NEW o, o.status = "MEASURED", Denominator(rule, o.counts) \in Nat
  PROVE  LET n == Denominator(rule, o.counts)
             r == Result(i, rule, o)
         IN  /\ n > 0 => /\ r.status = "MEASURED" /\ r.score = <<100 * o.counts["passed"], n>>
                         /\ r.violations = Violations(rule, o.counts)
             /\ n = 0 => r.status = "NOT_MEASURABLE" /\ r.score = None /\ r.violations = 0
<1> DEFINE n == Denominator(rule, o.counts)
           score == RuleScore(rule, o.counts)
<1>1. n > 0 => score = <<100 * o.counts["passed"], n>> /\ score # None
  <2>1. <<100 * o.counts["passed"], n>> # None
    BY DEF None
  <2> QED BY <2>1 DEF RuleScore
<1>2. n = 0 => score = None
  BY DEF RuleScore
<1> HIDE DEF score, n
<1>3. /\ Result(i, rule, o).status = IF score = None THEN "NOT_MEASURABLE" ELSE "MEASURED"
      /\ Result(i, rule, o).score = score
      /\ Result(i, rule, o).violations = IF score # None THEN Violations(rule, o.counts) ELSE 0
  BY DEF Result, score
<1> QED BY <1>1, <1>2, <1>3 DEF n

\* A rule's result is typed: its score is between 0 and 100 when it has one.
LEMMA ResultType ==
  ASSUME NEW i, NEW rule \in Rules, NEW o \in Outputs
  PROVE  Typed(Result(i, rule, o))
<1> DEFINE n == Denominator(rule, o.counts)
           r == Result(i, rule, o)
<1>1. /\ o.counts["passed"] \in Nat /\ o.counts["failed"] \in Nat /\ o.counts["missing"] \in Nat
  BY CountsType
<1>2. n \in Nat /\ n >= o.counts["passed"] /\ Violations(rule, o.counts) \in Nat
  BY <1>1 DEF Denominator, Violations
<1>3. r.dim = rule.dim /\ r.weight = rule.weight /\ r.threshold = rule.threshold
  BY DEF Result
<1>4. rule.dim \in Dims /\ rule.weight \in Nat /\ (rule.threshold = None \/ rule.threshold \in UpTo(100))
  BY DEF Rules, Optional
<1>5. r.violations \in Nat
  BY <1>2 DEF Result
<1>6. r.score = None \/ r.score \in UpTo(100)
  <2>1. ASSUME n > 0
        PROVE  <<100 * o.counts["passed"], n>> \in UpTo(100)
    <3> HIDE DEF n
    <3> QED BY <1>1, <1>2, <2>1 DEF UpTo, AtLeast
  <2>2. CASE o.status = "MEASURED"
    BY <1>2, <2>1, <2>2, MeasuredResult
  <2>3. CASE o.status # "MEASURED"
    BY <2>3 DEF Result
  <2> QED BY <2>2, <2>3
<1> QED BY Zenon, <1>3, <1>4, <1>5, <1>6 DEF Typed

\* An outlier result is typed.
LEMMA OutlierType ==
  ASSUME NEW s
  PROVE  Typed(Outlier(s))
BY DimsAssumption DEF Typed, Outlier

\* A run's results are finitely many and typed.
LEMMA ResultsType ==
  ASSUME NEW rs, NEW os, NEW sigs, Context(rs, os, sigs)
  PROVE  IsFiniteSet(Results(rs, os, sigs)) /\ \A r \in Results(rs, os, sigs) : Typed(r)
<1>1. IsFiniteSet({Result(i, rs[i], os[i]) : i \in DOMAIN rs})
  <2>1. DOMAIN rs = 1..Len(rs) /\ Len(rs) \in Nat
    BY RulesetsAssumption DEF Context
  <2>2. IsFiniteSet(DOMAIN rs)
    BY <2>1, FS_Interval
  <2> DEFINE T == {Result(i, rs[i], os[i]) : i \in DOMAIN rs}
             f == [i \in DOMAIN rs |-> Result(i, rs[i], os[i])]
  <2>3. f \in Surjection(DOMAIN rs, T)
    BY Zenon DEF Surjection
  <2> HIDE DEF T, f
  <2>4. IsFiniteSet(T)
    BY <2>2, <2>3, FS_Surjection
  <2> QED BY <2>4 DEF T
<1>2. IsFiniteSet({Outlier(s) : s \in sigs})
  <2>1. IsFiniteSet(sigs)
    <3>1. IsFiniteSet({"MEASURED"})
      BY FS_Singleton
    <3>2. IsFiniteSet({"MEASURED"} \union {"NOT_MEASURABLE"})
      BY <3>1, FS_AddElement
    <3>3. sigs \in SUBSET ({"MEASURED"} \union {"NOT_MEASURABLE"})
      BY DEF Context
    <3> QED BY <3>2, <3>3, FS_Subset
  <2> DEFINE T == {Outlier(s) : s \in sigs}
             f == [s \in sigs |-> Outlier(s)]
  <2>2. f \in Surjection(sigs, T)
    BY Zenon DEF Surjection
  <2> HIDE DEF T, f
  <2>3. IsFiniteSet(T)
    BY <2>1, <2>2, FS_Surjection
  <2> QED BY <2>3 DEF T
<1>3. IsFiniteSet(Results(rs, os, sigs))
  BY <1>1, <1>2, FS_Union DEF Results
<1>4. ASSUME NEW r \in Results(rs, os, sigs)
      PROVE  Typed(r)
  <2>1. CASE \E i \in DOMAIN rs : r = Result(i, rs[i], os[i])
    BY <2>1, RuleType, ResultType DEF Context
  <2>2. CASE \E s \in sigs : r = Outlier(s)
    BY <2>2, OutlierType
  <2> QED BY <2>1, <2>2 DEF Results
<1> QED BY <1>3, <1>4

\* Fewer elements do not weigh more.
LEMMA WeightMonotone ==
  ASSUME NEW T, IsFiniteSet(T), NEW weight, \A x \in T : weight[x] \in Nat, NEW S \in SUBSET T
  PROVE  \E m, n \in Nat : WeightOf(weight, S) = <<m, 1>> /\ WeightOf(weight, T) = <<n, 1>> /\ m <= n
<1> DEFINE Grows(s, t) == \E m, n \in Nat :
             WeightOf(weight, s) = <<m, 1>> /\ WeightOf(weight, t) = <<n, 1>> /\ m <= n
           P == {t \in SUBSET T : \A s \in SUBSET t : Grows(s, t)}
<1>1. ASSUME NEW t \in SUBSET T, \A x \in t : t \ {x} \in P
      PROVE  t \in P
  <2> SUFFICES ASSUME NEW s \in SUBSET t
               PROVE  Grows(s, t)
    OBVIOUS
  <2>1. IsFiniteSet(t) /\ \A x \in t : weight[x] \in Nat
    BY FS_Subset
  <2>2. CASE s = t
    BY <2>1, <2>2, WeightType
  <2>3. CASE s # t
    <3>1. PICK x \in t : x \notin s
      BY <2>3
    <3>2. Grows(s, t \ {x})
      BY <1>1, <3>1
    <3>3. PICK n \in Nat : /\ WeightOf(weight, t \ {x}) = <<n, 1>>
                           /\ WeightOf(weight, t) = <<weight[x] + n, 1>>
      BY <2>1, <3>1, WeightGrows
    <3>4. PICK m \in Nat : WeightOf(weight, s) = <<m, 1>> /\ m <= n
      BY <3>2, <3>3
    <3>5. weight[x] + n \in Nat /\ m <= weight[x] + n
      BY <2>1, <3>1, <3>4
    <3> QED BY <3>3, <3>4, <3>5
  <2> QED BY <2>2, <2>3
<1>2. T \in P
  <2> HIDE DEF P
  <2> QED BY <1>1, SubsetInduction
<1> QED BY <1>2

\* Some elements, each with a positive weight, have a positive weight.
LEMMA PositiveWeight ==
  ASSUME NEW S, IsFiniteSet(S), S # {}, NEW weight, \A x \in S : weight[x] \in Nat \ {0}
  PROVE  \E n \in Nat \ {0} : WeightOf(weight, S) = <<n, 1>>
<1>1. PICK x \in S : \A y \in S : weight[y] \in Nat
  OBVIOUS
<1>2. PICK n \in Nat : /\ WeightOf(weight, S \ {x}) = <<n, 1>>
                       /\ WeightOf(weight, S) = <<weight[x] + n, 1>>
  BY <1>1, WeightGrows
<1>3. weight[x] + n \in Nat \ {0}
  BY <1>1
<1> QED BY <1>2, <1>3

Sound(R) == IsFiniteSet(R) /\ \A r \in R : Typed(r)

\* The measured rules of a dimension are among the expected ones; both have weight, and
\* the measured ones a score.
LEMMA MeasuredType ==
  ASSUME NEW R, Sound(R), NEW d
  PROVE  /\ IsFiniteSet(MeasuredIn(R, d)) /\ IsFiniteSet(ExpectedIn(R, d))
         /\ MeasuredIn(R, d) \subseteq ExpectedIn(R, d) /\ ExpectedIn(R, d) \subseteq R
         /\ \A r \in MeasuredIn(R, d) : r.score \in UpTo(100) /\ r.weight \in Nat \ {0}
         /\ \A r \in ExpectedIn(R, d) : r.weight \in Nat \ {0}
<1>1. \A r \in R : Typed(r)
  BY DEF Sound
<1>2. IsFiniteSet(R) /\ MeasuredIn(R, d) \in SUBSET R /\ ExpectedIn(R, d) \in SUBSET R
  BY DEF Sound, MeasuredIn, ExpectedIn
<1>3. IsFiniteSet(MeasuredIn(R, d)) /\ IsFiniteSet(ExpectedIn(R, d))
  BY <1>2, FS_Subset
<1>4. MeasuredIn(R, d) \subseteq ExpectedIn(R, d)
  BY DEF MeasuredIn, ExpectedIn, MeasuredRule, ExpectedRule
<1>5. \A r \in MeasuredIn(R, d) : r.score \in UpTo(100)
  BY <1>1 DEF MeasuredIn, MeasuredRule, Typed
<1>6. \A r \in ExpectedIn(R, d) : r.weight \in Nat \ {0}
  BY <1>1 DEF ExpectedIn, ExpectedRule, Typed
<1> QED BY <1>2, <1>3, <1>4, <1>5, <1>6

Scores(R) == [r \in R |-> r.score]

\* A dimension's score is missing without a measured rule, else a mean between 0 and 100.
LEMMA DimScoreType ==
  ASSUME NEW R, Sound(R), NEW d
  PROVE  /\ MeasuredIn(R, d) = {} => DimScore(R, d) = None
         /\ MeasuredIn(R, d) # {} =>
              /\ DimScore(R, d) = Weighted(Scores(R), Weights(R), MeasuredIn(R, d))
              /\ Weighable(Scores(R), Weights(R), MeasuredIn(R, d))
              /\ DimScore(R, d) \in UpTo(100)
<1> DEFINE M == MeasuredIn(R, d)
<1>1. M = {} => DimScore(R, d) = None
  BY DEF DimScore
<1>2. M # {} => DimScore(R, d) = Weighted(Scores(R), Weights(R), M)
  BY DEF DimScore, Scores
<1>3. IsFiniteSet(M) /\ \A r \in M : Scores(R)[r] \in UpTo(100) /\ Weights(R)[r] \in Nat \ {0}
  BY MeasuredType DEF Scores, Weights
<1> HIDE DEF M
<1>4. Weighable(Scores(R), Weights(R), M)
  BY <1>3, UpToFraction DEF Weighable
<1>5. M # {} => Weighted(Scores(R), Weights(R), M) \in UpTo(100)
  BY <1>3, MeanUpTo
<1> QED BY <1>1, <1>2, <1>4, <1>5 DEF M

\* A dimension's coverage is missing without an expected rule, else measured over expected
\* weight, between 0 and 1.
LEMMA DimCoverageType ==
  ASSUME NEW R, Sound(R), NEW d
  PROVE  /\ ExpectedIn(R, d) = {} => DimCoverage(R, d) = None
         /\ ExpectedIn(R, d) # {} => \E m, n \in Nat :
              /\ WeightOf(Weights(R), MeasuredIn(R, d)) = <<m, 1>>
              /\ WeightOf(Weights(R), ExpectedIn(R, d)) = <<n, 1>>
              /\ m <= n /\ n > 0
              /\ DimCoverage(R, d) = <<m, n>> /\ DimCoverage(R, d) \in UpTo(1)
<1> SUFFICES ASSUME ExpectedIn(R, d) # {}
             PROVE  \E m, n \in Nat :
              /\ WeightOf(Weights(R), MeasuredIn(R, d)) = <<m, 1>>
              /\ WeightOf(Weights(R), ExpectedIn(R, d)) = <<n, 1>>
              /\ m <= n /\ n > 0
              /\ DimCoverage(R, d) = <<m, n>> /\ DimCoverage(R, d) \in UpTo(1)
  BY DEF DimCoverage
<1>1. /\ IsFiniteSet(ExpectedIn(R, d)) /\ MeasuredIn(R, d) \in SUBSET ExpectedIn(R, d)
      /\ \A r \in ExpectedIn(R, d) : Weights(R)[r] \in Nat \ {0}
  BY MeasuredType DEF Weights
<1>2. PICK m, n \in Nat : /\ WeightOf(Weights(R), MeasuredIn(R, d)) = <<m, 1>>
                          /\ WeightOf(Weights(R), ExpectedIn(R, d)) = <<n, 1>>
                          /\ m <= n
  BY <1>1, WeightMonotone
<1>3. n > 0
  BY <1>1, <1>2, PositiveWeight
<1>4. DimCoverage(R, d) = <<m, n>>
  BY <1>2 DEF DimCoverage, Quotient
<1>5. <<m, n>> \in UpTo(1)
  BY <1>2, <1>3 DEF UpTo, AtLeast
<1> QED BY <1>2, <1>3, <1>4, <1>5

\* The dimensions and functions that Score and Coverage are means over.
ScoredDims(R, p) == {d \in Dims : DimScore(R, d) # None /\ p.weights[d] > 0}
CoveredDims(R, p) == {d \in Dims : DimCoverage(R, d) # None /\ p.weights[d] > 0}
DimScores(R) == [d \in Dims |-> DimScore(R, d)]
DimCoverages(R) == [d \in Dims |-> DimCoverage(R, d)]

\* A policy the API accepted has its types, and asks no less for PASS than for WARN.
LEMMA PolicyType ==
  ASSUME NEW p \in Policies
  PROVE  /\ \A d \in Dims : p.weights[d] \in Nat
         /\ p.coverage \in UpTo(1) /\ p.warn \in UpTo(100) /\ p.pass \in UpTo(100)
         /\ p.critical = None \/ p.critical \in UpTo(100)
         /\ AtLeast(p.pass, p.warn)
BY PoliciesAssumption DEF AnyPolicy, Optional

\* The dataset's score is missing without a scored dimension, else a mean between 0 and 100.
LEMMA ScoreType ==
  ASSUME NEW R, Sound(R), NEW p \in Policies
  PROVE  /\ ScoredDims(R, p) = {} => Score(R, p) = None
         /\ Weighable(DimScores(R), p.weights, ScoredDims(R, p))
         /\ ScoredDims(R, p) # {} =>
              /\ Score(R, p) = Weighted(DimScores(R), p.weights, ScoredDims(R, p))
              /\ Score(R, p) \in UpTo(100)
<1> DEFINE D == ScoredDims(R, p)
<1>1. /\ D = {} => Score(R, p) = None
      /\ D # {} => Score(R, p) = Weighted(DimScores(R), p.weights, D)
  BY DEF Score, ScoredDims, DimScores
<1>2. IsFiniteSet(D)
  <2>1. D \in SUBSET Dims
    BY DEF ScoredDims
  <2> QED BY <2>1, DimsAssumption, FS_Subset
<1>3. \A d \in D : DimScores(R)[d] \in UpTo(100) /\ p.weights[d] \in Nat \ {0}
  BY DimScoreType, PolicyType DEF ScoredDims, DimScores
<1> HIDE DEF D
<1>4. Weighable(DimScores(R), p.weights, D)
  BY <1>2, <1>3, UpToFraction DEF Weighable
<1>5. D # {} => Weighted(DimScores(R), p.weights, D) \in UpTo(100)
  BY <1>2, <1>3, MeanUpTo
<1> QED BY <1>1, <1>4, <1>5 DEF D

\* The dataset's coverage is missing without an expected dimension, else between 0 and 1.
LEMMA CoverageType ==
  ASSUME NEW R, Sound(R), NEW p \in Policies
  PROVE  /\ CoveredDims(R, p) = {} => Coverage(R, p) = None
         /\ Weighable(DimCoverages(R), p.weights, CoveredDims(R, p))
         /\ CoveredDims(R, p) # {} =>
              /\ Coverage(R, p) = Weighted(DimCoverages(R), p.weights, CoveredDims(R, p))
              /\ Coverage(R, p) \in UpTo(1)
<1> DEFINE D == CoveredDims(R, p)
<1>1. /\ D = {} => Coverage(R, p) = None
      /\ D # {} => Coverage(R, p) = Weighted(DimCoverages(R), p.weights, D)
  BY DEF Coverage, CoveredDims, DimCoverages
<1>2. IsFiniteSet(D)
  <2>1. D \in SUBSET Dims
    BY DEF CoveredDims
  <2> QED BY <2>1, DimsAssumption, FS_Subset
<1>3. \A d \in D : DimCoverages(R)[d] \in UpTo(1) /\ p.weights[d] \in Nat \ {0}
  BY DimCoverageType, PolicyType DEF CoveredDims, DimCoverages
<1> HIDE DEF D
<1>4. Weighable(DimCoverages(R), p.weights, D)
  BY <1>2, <1>3, UpToFraction DEF Weighable
<1>5. D # {} => Weighted(DimCoverages(R), p.weights, D) \in UpTo(1)
  BY <1>2, <1>3, MeanUpTo
<1> QED BY <1>1, <1>4, <1>5 DEF D

\* The scorecard is typed, whatever the gate and publication decide.
LEMMA CardType ==
  ASSUME NEW R, Sound(R), NEW p \in Policies
  PROVE  /\ Card(R, p).gate \in {"ERROR", "FAIL", "INSUFFICIENT_EVIDENCE", "WARN", "PASS"}
         /\ Card(R, p).published \in BOOLEAN
         /\ Card(R, p).score \in Optional(UpTo(100)) /\ Card(R, p).coverage \in Optional(UpTo(1))
<1>1. Score(R, p) \in Optional(UpTo(100)) /\ Coverage(R, p) \in Optional(UpTo(1))
  BY ScoreType, CoverageType DEF Optional
<1>2. Published(R, p, Gate(R, p, Score(R, p), Coverage(R, p)), Score(R, p), Coverage(R, p)) \in BOOLEAN
  BY DEF Published
<1>3. Gate(R, p, Score(R, p), Coverage(R, p)) \in {"ERROR", "FAIL", "INSUFFICIENT_EVIDENCE", "WARN", "PASS"}
  BY DEF Gate
<1> QED BY <1>1, <1>2, <1>3 DEF Card, Optional

----------------------------------------------------------------------------
(* The invariants *)

\* The inductive invariant.
Consistent ==
  /\ Context(rules, outs, signals) /\ policy \in Policies
  /\ card = Card(Results(rules, outs, signals), policy)

\* An output without counts is one the engine may return.
LEMMA NotCountedType ==
  ASSUME NEW s \in Unmeasured
  PROVE  NotCounted(s) \in Outputs
BY DEF Outputs

\* An output with counts that add up to the records is one the engine may return.
LEMMA CountedType ==
  ASSUME NEW m \in Measurements
  PROVE  Counted(m) \in Outputs
BY DEF Outputs

\* The first card is the one its outputs give.
LEMMA InitConsistent ==
  Init => Consistent
<1> SUFFICES ASSUME Init
             PROVE  Consistent
  OBVIOUS
<1>1. outs \in [DOMAIN rules -> Outputs]
  BY NotCountedType DEF Init, Unmeasured
<1> QED BY <1>1 DEF Init, Consistent, Context

\* A measured output is counts that add up to the records.
LEMMA MeasuredOutput ==
  ASSUME NEW o \in Outputs, o.status = "MEASURED"
  PROVE  \E m \in Measurements : o = Counted(m)
BY DEF Outputs, NotCounted, Unmeasured

\* Moving a record from one class to another keeps the counts adding up.
LEMMA MovedType ==
  ASSUME NEW m \in Measurements, NEW a \in Records, NEW b \in Records, a # b, m[a] > 0
  PROVE  Moved(m, a, b) \in Measurements
<1>1. m \in [Records -> 0..Rows] /\ m["passed"] + m["failed"] + m["missing"] + m["outside"] = Rows
  BY DEF Measurements
<1>2. \A c \in Records : m[c] \in Nat
  BY <1>1, RowsAssumption
<1>3. m[b] + 1 <= Rows
  BY <1>1, <1>2, RowsAssumption DEF Records
<1>4. Moved(m, a, b) \in [Records -> 0..Rows]
  BY <1>1, <1>2, <1>3, RowsAssumption DEF Moved
<1>5. /\ Moved(m, a, b)[a] = m[a] - 1 /\ Moved(m, a, b)[b] = m[b] + 1
      /\ \A c \in Records \ {a, b} : Moved(m, a, b)[c] = m[c]
  BY <1>1 DEF Moved
<1> HIDE DEF Moved
<1> QED BY <1>1, <1>2, <1>4, <1>5, RowsAssumption DEF Measurements, Records

\* Every step is a run with outputs the engine may return.
LEMMA StepRuns ==
  ASSUME Consistent, Next
  PROVE  \E os, sigs : Run(os, sigs) /\ Context(rules, os, sigs)
<1>1. /\ rules \in Rulesets /\ outs \in [DOMAIN rules -> Outputs]
      /\ signals \subseteq {"MEASURED", "NOT_MEASURABLE"}
  BY DEF Consistent, Context
<1>2. CASE RunOnEmpty
  <2>1. PICK s \in {"NOT_MEASURABLE", "NOT_APPLICABLE"} :
          Run([i \in DOMAIN rules |-> NotCounted(s)], IF signals = {} THEN {} ELSE {"NOT_MEASURABLE"})
    BY <1>2 DEF RunOnEmpty
  <2>2. [i \in DOMAIN rules |-> NotCounted(s)] \in [DOMAIN rules -> Outputs]
    BY NotCountedType DEF Unmeasured
  <2> QED BY <1>1, <2>1, <2>2 DEF Context
<1>3. CASE RunOnClean
  <2>1. [NoRecords EXCEPT !["passed"] = Rows] \in Measurements
    BY RowsAssumption DEF Measurements, NoRecords, Records
  <2>2. [i \in DOMAIN rules |-> Counted([NoRecords EXCEPT !["passed"] = Rows])] \in [DOMAIN rules -> Outputs]
    BY <2>1, CountedType
  <2> QED BY <1>1, <1>3, <2>2 DEF Context, RunOnClean
<1>4. CASE RunOnChanged
  <2>1. PICK i \in DOMAIN rules, a, b \in Records :
          /\ outs[i].status = "MEASURED" /\ a # b /\ outs[i].counts[a] > 0
          /\ Run([outs EXCEPT ![i] = Counted(Moved(outs[i].counts, a, b))], signals)
    BY <1>4 DEF RunOnChanged
  <2>2. PICK m \in Measurements : outs[i] = Counted(m)
    BY <1>1, <2>1, MeasuredOutput
  <2>3. outs[i].counts = m
    BY <2>2 DEF Counted
  <2>4. Counted(Moved(m, a, b)) \in Outputs
    BY <2>1, <2>3, MovedType, CountedType
  <2>5. [outs EXCEPT ![i] = Counted(Moved(m, a, b))] \in [DOMAIN rules -> Outputs]
    BY <1>1, <2>4
  <2> QED BY <1>1, <2>1, <2>3, <2>5 DEF Context
<1>5. CASE RunWithFailure
  <2>1. PICK i \in DOMAIN rules : Run([outs EXCEPT ![i] = NotCounted("FAILED_TO_MEASURE")], signals)
    BY <1>5 DEF RunWithFailure
  <2>2. [outs EXCEPT ![i] = NotCounted("FAILED_TO_MEASURE")] \in [DOMAIN rules -> Outputs]
    BY <1>1, NotCountedType DEF Unmeasured
  <2> QED BY <1>1, <2>1, <2>2 DEF Context
<1>6. CASE RunWithSignals
  BY <1>1, <1>6 DEF RunWithSignals, SignalOf, Context
<1> QED BY <1>2, <1>3, <1>4, <1>5, <1>6 DEF Next

\* A run leaves the card its outputs give.
LEMMA StepConsistent ==
  Consistent /\ [Next]_vars => Consistent'
<1> SUFFICES ASSUME Consistent, [Next]_vars
             PROVE  Consistent'
  OBVIOUS
<1>1. CASE Next
  <2>1. PICK os, sigs : Run(os, sigs) /\ Context(rules, os, sigs)
    BY <1>1, StepRuns
  <2> QED BY <2>1 DEF Run, Consistent
<1>2. CASE UNCHANGED vars
  BY <1>2 DEF vars, Consistent
<1> QED BY <1>1, <1>2

\* The card is always the one the last run's outputs give under the active policy
\* (score_aggregator.py): the inductive invariant behind every theorem below.
THEOREM AlwaysConsistent == Spec => []Consistent
BY InitConsistent, StepConsistent, PTL DEF Spec

\* The results behind the card are finitely many and typed.
LEMMA StateSound ==
  ASSUME Consistent
  PROVE  Sound(Results(rules, outs, signals))
BY ResultsType DEF Consistent, Sound

\* Every count, score and coverage stays in its range (TypeOK), for any rulesets, policies
\* and records: no sum of weights is ever divided by 0.
THEOREM TypeCorrect == Spec => []TypeOK
<1>1. Consistent => TypeOK
  <2> SUFFICES ASSUME Consistent
               PROVE  TypeOK
    OBVIOUS
  <2>1. Sound(Results(rules, outs, signals)) /\ policy \in Policies
    BY StateSound DEF Consistent
  <2> QED BY <2>1, CardType DEF Consistent, Context, TypeOK
<1> QED BY <1>1, AlwaysConsistent, PTL

\* What publication_decision.py asks of a card that it publishes.
LEMMA PublishedScore ==
  ASSUME NEW R, NEW p, Card(R, p).published
  PROVE  /\ Score(R, p) # None /\ Card(R, p).score = Score(R, p)
         /\ Card(R, p).gate \notin {"ERROR", "INSUFFICIENT_EVIDENCE"}
         /\ Covers(Coverage(R, p), p) /\ ~TechnicalFailure(R) /\ ~UnmeasuredRequired(R)
         /\ \A d \in Required(R) : DimScore(R, d) # None
BY DEF Card, Published

\* A dimension's score lies between the worst and the best of its measured rules.
LEMMA DimScoreBetween ==
  ASSUME NEW R, Sound(R), NEW d, DimScore(R, d) # None
  PROVE  /\ \E r \in MeasuredIn(R, d) : AtLeast(DimScore(R, d), r.score)
         /\ \E r \in MeasuredIn(R, d) : AtLeast(r.score, DimScore(R, d))
<1>1. MeasuredIn(R, d) # {}
  BY DimScoreType
<1>2. /\ DimScore(R, d) = Weighted(Scores(R), Weights(R), MeasuredIn(R, d))
      /\ Weighable(Scores(R), Weights(R), MeasuredIn(R, d))
  BY <1>1, DimScoreType
<1>3. /\ \E r \in MeasuredIn(R, d) : AtLeast(DimScore(R, d), Scores(R)[r])
      /\ \E r \in MeasuredIn(R, d) : AtLeast(Scores(R)[r], DimScore(R, d))
  BY <1>1, <1>2, MeanIsBetween
<1>4. \A r \in MeasuredIn(R, d) : Scores(R)[r] = r.score
  BY DEF Scores, MeasuredIn
<1> QED BY <1>3, <1>4

\* The rules that count towards the dataset's score.
CountingRules(R, p) == {r \in R : MeasuredRule(r) /\ p.weights[r.dim] > 0}

\* The dataset's score lies between the worst and the best of the rules that count.
LEMMA ScoreBetween ==
  ASSUME NEW R, Sound(R), NEW p \in Policies, Score(R, p) # None
  PROVE  /\ \E r \in CountingRules(R, p) : AtLeast(Score(R, p), r.score)
         /\ \E r \in CountingRules(R, p) : AtLeast(r.score, Score(R, p))
<1> DEFINE D == ScoredDims(R, p)
<1>1. D # {} /\ Score(R, p) = Weighted(DimScores(R), p.weights, D) /\ Score(R, p) \in UpTo(100)
  BY ScoreType
<1>2. Weighable(DimScores(R), p.weights, D)
  BY ScoreType
<1>3. PICK d \in D, e \in D : /\ AtLeast(Score(R, p), DimScores(R)[d])
                              /\ AtLeast(DimScores(R)[e], Score(R, p))
  <2> HIDE DEF D
  <2> QED BY <1>1, <1>2, MeanIsBetween
<1>4. \A c \in D : /\ DimScores(R)[c] = DimScore(R, c) /\ DimScore(R, c) # None
                   /\ p.weights[c] > 0 /\ DimScore(R, c) \in UpTo(100)
  BY DimScoreType DEF DimScores, ScoredDims
<1>5. PICK r \in MeasuredIn(R, d) : AtLeast(DimScore(R, d), r.score)
  BY <1>3, <1>4, DimScoreBetween
<1>6. PICK q \in MeasuredIn(R, e) : AtLeast(q.score, DimScore(R, e))
  BY <1>3, <1>4, DimScoreBetween
<1>7. /\ r \in CountingRules(R, p) /\ q \in CountingRules(R, p)
      /\ r.score \in UpTo(100) /\ q.score \in UpTo(100)
  BY <1>3, <1>4, <1>5, <1>6, MeasuredType DEF CountingRules, MeasuredIn
<1>8. /\ Score(R, p) \in Fraction /\ DimScore(R, d) \in Fraction /\ DimScore(R, e) \in Fraction
      /\ r.score \in Fraction /\ q.score \in Fraction
  BY <1>1, <1>3, <1>4, <1>7, UpToFraction
<1>9. AtLeast(Score(R, p), r.score) /\ AtLeast(q.score, Score(R, p))
  BY <1>3, <1>4, <1>5, <1>6, <1>8, AtLeastTransitive
<1> QED BY <1>7, <1>9

\* ScoreIsMean always holds: a published score is no lower than the worst and no higher than
\* the best rule that counts, through both levels of weighting, for any weights.
THEOREM ScoreIsAMean == Spec => []ScoreIsMean
<1>1. Consistent => ScoreIsMean
  <2> SUFFICES ASSUME Consistent, card.published
               PROVE  LET C == CountingRules(Results(rules, outs, signals), policy)
                      IN  /\ \E r \in C : AtLeast(card.score, r.score)
                          /\ \E r \in C : AtLeast(r.score, card.score)
    BY DEF ScoreIsMean, CountingRules
  <2> DEFINE R == Results(rules, outs, signals)
  <2>1. Sound(R) /\ policy \in Policies /\ card = Card(R, policy)
    BY StateSound DEF Consistent
  <2> HIDE DEF R
  <2>2. Score(R, policy) # None /\ card.score = Score(R, policy)
    BY <2>1, PublishedScore
  <2>3. /\ \E r \in CountingRules(R, policy) : AtLeast(card.score, r.score)
        /\ \E r \in CountingRules(R, policy) : AtLeast(r.score, card.score)
    BY <2>1, <2>2, ScoreBetween
  <2> QED BY <2>3 DEF R
<1> QED BY <1>1, AlwaysConsistent, PTL

\* What quality_gate.py asks of a card that passes or warns.
LEMMA PassingGate ==
  ASSUME NEW R, NEW p, Card(R, p).gate \in {"PASS", "WARN"}
  PROVE  /\ ~TechnicalFailure(R) /\ \A r \in R : ~CriticalViolated(r, p)
         /\ ~Insufficient(R, p, Score(R, p), Coverage(R, p))
         /\ AtLeast(Score(R, p), p.warn)
         /\ Card(R, p).gate = "PASS" <=> AtLeast(Score(R, p), p.pass)
BY DEF Card, Gate

\* A required rule of a card that passes or warns does not apply, or was measured on records
\* that count.
LEMMA RequiredMeasured ==
  ASSUME Consistent, card.gate \in {"PASS", "WARN"}, NEW i \in DOMAIN rules, rules[i].required
  PROVE  \/ outs[i].status = "NOT_APPLICABLE"
         \/ outs[i].status = "MEASURED" /\ Denominator(rules[i], outs[i].counts) > 0
<1> DEFINE r == Result(i, rules[i], outs[i])
           R == Results(rules, outs, signals)
           n == Denominator(rules[i], outs[i].counts)
<1>1. r \in R /\ r.required
  BY DEF Results, Result
<1>2. ~TechnicalFailure(R) /\ ~UnmeasuredRequired(R)
  <2>1. card = Card(R, policy)
    BY DEF Consistent
  <2> HIDE DEF R
  <2> QED BY <2>1, PassingGate DEF Insufficient
<1>3. r.status \notin {"FAILED_TO_MEASURE", "NOT_MEASURABLE"}
  <2> HIDE DEF r, R
  <2> QED BY <1>1, <1>2 DEF TechnicalFailure, UnmeasuredRequired
<1>4. outs[i] \in Outputs /\ n \in Nat
  <2>1. /\ outs[i] \in Outputs
        /\ outs[i].counts["passed"] \in Nat /\ outs[i].counts["failed"] \in Nat
        /\ outs[i].counts["missing"] \in Nat
    BY CountsType DEF Consistent, Context
  <2> QED BY <2>1 DEF Denominator
<1>5. CASE outs[i].status = "MEASURED"
  <2>1. n = 0 => r.status = "NOT_MEASURABLE"
    BY <1>4, <1>5, MeasuredResult
  <2> QED BY <1>3, <1>4, <1>5, <2>1
<1>6. CASE outs[i].status # "MEASURED"
  <2>1. r.status = outs[i].status
    BY <1>6 DEF Result
  <2>2. outs[i].status \in Unmeasured
    BY <1>4, <1>6, OutputType
  <2> QED BY <1>3, <2>1, <2>2 DEF Unmeasured
<1> QED BY <1>5, <1>6

\* PassMeansClean always holds: a PASS or WARN means that every required rule was measured or
\* does not apply, and with zero tolerance that no record failed a critical rule that was
\* measured.
THEOREM PassIsClean == Spec => []PassMeansClean
<1>1. Consistent => PassMeansClean
  <2> SUFFICES ASSUME Consistent, card.gate \in {"PASS", "WARN"}, NEW i \in DOMAIN rules,
                      rules[i].critical, rules[i].gate, outs[i].status = "MEASURED",
                      rules[i].threshold = None, policy.critical = None
               PROVE  /\ outs[i].counts["failed"] = 0
                      /\ rules[i].nulls = "fail" => outs[i].counts["missing"] = 0
    BY RequiredMeasured DEF PassMeansClean
  <2> DEFINE r == Result(i, rules[i], outs[i])
             n == Denominator(rules[i], outs[i].counts)
  <2>1. r \in Results(rules, outs, signals)
    BY DEF Results
  <2>2. ~CriticalViolated(r, policy)
    BY <2>1, PassingGate DEF Consistent
  <2>3. /\ outs[i] \in Outputs
        /\ outs[i].counts["passed"] \in Nat /\ outs[i].counts["failed"] \in Nat
        /\ outs[i].counts["missing"] \in Nat
    BY CountsType DEF Consistent, Context
  <2>4. n \in Nat /\ Violations(rules[i], outs[i].counts) \in Nat
    BY <2>3 DEF Denominator, Violations
  <2>5. CASE n = 0
    BY <2>3, <2>5 DEF Denominator
  <2>6. CASE n > 0
    <3>1. /\ r.critical /\ r.gate /\ ~r.advisory /\ r.threshold = None
          /\ r.status = "MEASURED" /\ r.violations = Violations(rules[i], outs[i].counts)
      <4>1. r.status = "MEASURED" /\ r.violations = Violations(rules[i], outs[i].counts)
        BY <2>4, <2>6, MeasuredResult
      <4>2. r.critical /\ r.gate /\ ~r.advisory /\ r.threshold = None
        BY DEF Result
      <4> QED BY <4>1, <4>2
    <3>2. ~(r.violations > 0)
      BY <2>2, <3>1 DEF CriticalViolated
    <3>3. Violations(rules[i], outs[i].counts) = 0
      BY <2>4, <3>1, <3>2
    <3>4. CASE rules[i].nulls = "fail"
      BY <2>3, <3>3, <3>4 DEF Violations
    <3>5. CASE rules[i].nulls # "fail"
      BY <2>3, <3>3, <3>5 DEF Violations
    <3> QED BY <3>4, <3>5
  <2> QED BY <2>4, <2>5, <2>6
<1> QED BY <1>1, AlwaysConsistent, PTL

\* PassIsPublished always holds: where scoring rules have weight, the gate and the
\* publication check agree on the evidence.
THEOREM PassPublishes == Spec => []PassIsPublished
<1>1. Consistent => PassIsPublished
  <2> SUFFICES ASSUME Consistent, card.gate \in {"PASS", "WARN"},
                      \A i \in DOMAIN rules : rules[i].scored => rules[i].weight > 0
               PROVE  card.published
    BY DEF PassIsPublished
  <2> DEFINE R == Results(rules, outs, signals)
  <2>1. Sound(R) /\ policy \in Policies /\ card = Card(R, policy)
    BY StateSound DEF Consistent
  <2>2. ASSUME NEW r \in R, r.scored
        PROVE  r.weight > 0
    BY <2>2 DEF Results, Result, Outlier
  <2> HIDE DEF R
  <2>3. ~TechnicalFailure(R) /\ ~Insufficient(R, policy, Score(R, policy), Coverage(R, policy))
    BY <2>1, PassingGate
  <2>4. ASSUME NEW d \in Required(R)
        PROVE  DimScore(R, d) # None
    <3>1. PICK r \in R : r.dim = d /\ r.status = "MEASURED" /\ r.scored /\ ~r.advisory /\ r.score # None
      BY <2>3 DEF Insufficient, GateDims
    <3>2. r \in MeasuredIn(R, d)
      BY <2>2, <3>1 DEF MeasuredIn, MeasuredRule
    <3>3. DimScore(R, d) \in UpTo(100)
      BY <2>1, <3>2, DimScoreType
    <3> QED BY <3>3, UpToFraction
  <2> QED BY <2>1, <2>3, <2>4 DEF Card, Published, Insufficient
<1> QED BY <1>1, AlwaysConsistent, PTL

----------------------------------------------------------------------------
(* Repaired records *)

\* q is the result r of the same rule, no worse: a higher score and fewer violations, or a
\* score of 100 where there was none.
Better(r, q) ==
  /\ q.dim = r.dim /\ q.required = r.required /\ q.critical = r.critical /\ q.gate = r.gate
  /\ q.scored = r.scored /\ q.weight = r.weight /\ q.threshold = r.threshold
  /\ ~r.advisory /\ ~q.advisory
  /\ q.status = "MEASURED" /\ q.score # None
  /\ \/ r.status = "MEASURED" /\ r.score # None /\ AtLeast(q.score, r.score) /\ q.violations <= r.violations
     \/ r.status = "NOT_MEASURABLE" /\ r.score = None /\ AtLeast(q.score, <<100, 1>>) /\ q.violations = 0

\* The results Q are R with the better q in the place of r.
Improves(R, r, Q, q) ==
  Sound(R) /\ Sound(Q) /\ r \in R /\ q \in Q /\ R \ {r} = Q \ {q} /\ Better(r, q)

\* A fraction at or above the top of the range is at or above every score in it.
LEMMA UpToOrder ==
  ASSUME NEW top \in Nat, NEW a \in UpTo(top), NEW b \in Fraction, AtLeast(b, <<top, 1>>)
  PROVE  AtLeast(b, a)
<1>1. a \in Fraction /\ <<top, 1>> \in Fraction /\ AtLeast(<<top, 1>>, a)
  BY DEF UpTo, Fraction
<1> QED BY <1>1, AtLeastTransitive

\* A repaired record adds no failed or unmeasured rule, no required dimension, and takes
\* none from the dimensions the gate takes for measured.
LEMMA FailuresStay ==
  ASSUME NEW R, NEW r, NEW Q, NEW q, Improves(R, r, Q, q)
  PROVE  /\ TechnicalFailure(Q) => TechnicalFailure(R)
         /\ UnmeasuredRequired(Q) => UnmeasuredRequired(R)
         /\ GateDims(R) \subseteq GateDims(Q)
         /\ Required(Q) = Required(R)
<1>1. \A x \in Q : x = q \/ (x \in R /\ x # r)
  BY DEF Improves
<1>2. \A x \in R : x = r \/ (x \in Q /\ x # q)
  BY DEF Improves
<1>3. r \in R /\ q \in Q /\ Better(r, q)
  BY DEF Improves
<1>4. TechnicalFailure(Q) => TechnicalFailure(R)
  BY <1>1, <1>3 DEF TechnicalFailure, Better
<1>5. UnmeasuredRequired(Q) => UnmeasuredRequired(R)
  BY <1>1, <1>3 DEF UnmeasuredRequired, Better
<1>6. GateDims(R) \subseteq GateDims(Q)
  BY <1>2, <1>3 DEF GateDims, Better
<1>7. Required(Q) = Required(R)
  BY <1>1, <1>2, <1>3 DEF Required, ExpectedRule, Better
<1> QED BY <1>4, <1>5, <1>6, <1>7

\* A repaired record violates no critical rule that was not violated, also where it makes
\* the rule measurable.
LEMMA CriticalStays ==
  ASSUME NEW R, NEW r, NEW Q, NEW q, Improves(R, r, Q, q), NEW p \in Policies,
         \A x \in R : ~CriticalViolated(x, p)
  PROVE  \A x \in Q : ~CriticalViolated(x, p)
<1>1. \A x \in Q : x = q \/ x \in R
  BY DEF Improves
<1>2. r \in R /\ Better(r, q) /\ Typed(r) /\ Typed(q)
  BY DEF Improves, Sound
<1>3. ASSUME CriticalViolated(q, p)
      PROVE  FALSE
  <2> DEFINE t == IF q.threshold # None THEN q.threshold ELSE p.critical
  <2>1. /\ q.critical /\ q.gate
        /\ IF t # None THEN ~AtLeast(q.score, t) ELSE q.violations > 0
    BY <1>3 DEF CriticalViolated, MeetsThreshold
  <2>2. t = None \/ t \in UpTo(100)
    BY <1>2, PolicyType DEF Typed
  <2>3. q.score \in Fraction /\ (r.score # None => r.score \in Fraction)
    BY <1>2, UpToFraction DEF Typed, Better
  <2>4. CASE r.status = "NOT_MEASURABLE"
    <3>1. AtLeast(q.score, <<100, 1>>) /\ q.violations = 0
      BY <1>2, <2>4 DEF Better
    <3>2. t # None => AtLeast(q.score, t)
      BY <2>2, <2>3, <3>1, UpToOrder
    <3> QED BY <2>1, <3>1, <3>2
  <2>5. CASE r.status = "MEASURED"
    <3>1. r.score # None /\ AtLeast(q.score, r.score) /\ q.violations <= r.violations
      BY <1>2, <2>5 DEF Better
    <3>2. t = IF r.threshold # None THEN r.threshold ELSE p.critical
      BY <1>2 DEF Better
    <3>3. IF t # None THEN AtLeast(r.score, t) ELSE ~(r.violations > 0)
      BY <1>2, <2>1, <2>5, <3>2 DEF CriticalViolated, MeetsThreshold, Better
    <3>4. CASE t # None
      <4>1. t \in Fraction
        BY <2>2, <3>4, UpToFraction
      <4>2. AtLeast(q.score, t)
        BY <2>3, <3>1, <3>3, <3>4, <4>1, AtLeastTransitive
      <4> QED BY <2>1, <3>4, <4>2
    <3>5. CASE t = None
      BY <1>2, <2>1, <3>1, <3>3, <3>5 DEF Typed
    <3> QED BY <3>4, <3>5
  <2> QED BY <1>2, <2>4, <2>5 DEF Better
<1> QED BY <1>1, <1>3

\* A repaired record leaves every result but its rule's as it was.
LEMMA SameElsewhere ==
  ASSUME NEW R, NEW r, NEW Q, NEW q, Improves(R, r, Q, q), NEW d
  PROVE  /\ MeasuredIn(R, d) \ {r} = MeasuredIn(Q, d) \ {q}
         /\ ExpectedIn(R, d) \ {r} = ExpectedIn(Q, d) \ {q}
         /\ r \in ExpectedIn(R, d) <=> q \in ExpectedIn(Q, d)
         /\ r \in MeasuredIn(R, d) => q \in MeasuredIn(Q, d)
         /\ d # r.dim => q \notin MeasuredIn(Q, d)
         /\ \A x \in R \ {r} : Scores(Q)[x] = Scores(R)[x] /\ Weights(Q)[x] = Weights(R)[x]
         /\ Weights(R)[r] = r.weight /\ Weights(Q)[q] = r.weight
         /\ Scores(R)[r] = r.score /\ Scores(Q)[q] = q.score
<1>1. \A x \in Q : x = q \/ (x \in R /\ x # r)
  BY DEF Improves
<1>2. \A x \in R : x = r \/ (x \in Q /\ x # q)
  BY DEF Improves
<1>3. r \in R /\ q \in Q /\ Better(r, q)
  BY DEF Improves
<1>4. MeasuredIn(R, d) \ {r} = MeasuredIn(Q, d) \ {q}
  BY <1>1, <1>2 DEF MeasuredIn
<1>5. ExpectedIn(R, d) \ {r} = ExpectedIn(Q, d) \ {q}
  BY <1>1, <1>2 DEF ExpectedIn
<1>6. r \in ExpectedIn(R, d) <=> q \in ExpectedIn(Q, d)
  BY <1>3 DEF ExpectedIn, ExpectedRule, Better
<1>7. r \in MeasuredIn(R, d) => q \in MeasuredIn(Q, d)
  BY <1>3 DEF MeasuredIn, MeasuredRule, Better
<1>8. d # r.dim => q \notin MeasuredIn(Q, d)
  BY <1>3 DEF MeasuredIn, Better
<1>9. \A x \in R \ {r} : Scores(Q)[x] = Scores(R)[x] /\ Weights(Q)[x] = Weights(R)[x]
  BY <1>2 DEF Scores, Weights
<1>10. /\ Weights(R)[r] = r.weight /\ Weights(Q)[q] = r.weight
       /\ Scores(R)[r] = r.score /\ Scores(Q)[q] = q.score
  BY <1>3 DEF Scores, Weights, Better
<1> QED BY <1>4, <1>5, <1>6, <1>7, <1>8, <1>9, <1>10

\* Where its rule counts neither before nor after, a dimension's score stays.
LEMMA DimScoreSame ==
  ASSUME NEW R, NEW r, NEW Q, NEW q, Improves(R, r, Q, q), NEW d,
         r \notin MeasuredIn(R, d), q \notin MeasuredIn(Q, d)
  PROVE  DimScore(Q, d) = DimScore(R, d)
<1>1. MeasuredIn(R, d) = MeasuredIn(Q, d)
  BY SameElsewhere
<1>2. \A x \in MeasuredIn(R, d) : Scores(Q)[x] = Scores(R)[x] /\ Weights(Q)[x] = Weights(R)[x]
  BY SameElsewhere DEF MeasuredIn
<1>3. Sound(R) /\ Sound(Q)
  BY DEF Improves
<1>4. CASE MeasuredIn(R, d) = {}
  BY <1>1, <1>3, <1>4, DimScoreType
<1>5. CASE MeasuredIn(R, d) # {}
  <2>1. /\ Terms(Scores(Q), Weights(Q), MeasuredIn(R, d)) = Terms(Scores(R), Weights(R), MeasuredIn(R, d))
        /\ WeightOf(Weights(Q), MeasuredIn(R, d)) = WeightOf(Weights(R), MeasuredIn(R, d))
    BY <1>2, <1>3, MeasuredType, MeansAgree
  <2>2. /\ DimScore(R, d) = Weighted(Scores(R), Weights(R), MeasuredIn(R, d))
        /\ DimScore(Q, d) = Weighted(Scores(Q), Weights(Q), MeasuredIn(R, d))
    BY <1>1, <1>3, <1>5, DimScoreType
  <2> QED BY <2>1, <2>2 DEF Weighted, Terms
<1> QED BY <1>4, <1>5

\* A repaired record lowers no dimension's score.
LEMMA DimScoreImproves ==
  ASSUME NEW R, NEW r, NEW Q, NEW q, Improves(R, r, Q, q), NEW d, DimScore(R, d) # None
  PROVE  DimScore(Q, d) # None /\ AtLeast(DimScore(Q, d), DimScore(R, d))
<1> DEFINE S == MeasuredIn(R, d)
           T == MeasuredIn(Q, d)
<1>1. Sound(R) /\ Sound(Q) /\ Better(r, q)
  BY DEF Improves
<1>2. /\ S # {} /\ DimScore(R, d) = Weighted(Scores(R), Weights(R), S)
      /\ Weighable(Scores(R), Weights(R), S) /\ DimScore(R, d) \in UpTo(100)
  BY <1>1, DimScoreType
<1>3. T # {} => /\ DimScore(Q, d) = Weighted(Scores(Q), Weights(Q), T)
                /\ Weighable(Scores(Q), Weights(Q), T)
                /\ DimScore(Q, d) # None
  BY <1>1, DimScoreType, UpToFraction
<1>4. S \ {r} = T \ {q} /\ (r \in S => q \in T) /\ S \subseteq R
  BY SameElsewhere DEF MeasuredIn
<1>5. CASE r \notin S /\ q \notin T
  <2>1. DimScore(Q, d) = DimScore(R, d)
    BY <1>5, DimScoreSame
  <2>2. AtLeast(DimScore(R, d), DimScore(R, d))
    BY <1>2 DEF UpTo, AtLeast
  <2> QED BY <2>1, <2>2
<1>6. CASE r \in S
  <2>1. r.score # None /\ q \in T
    BY <1>4, <1>6 DEF MeasuredIn, MeasuredRule
  <2>2. AtLeast(Scores(Q)[q], Scores(R)[r])
    BY <1>1, <2>1, SameElsewhere DEF Better
  <2>3. /\ Weights(R)[r] = Weights(Q)[q]
        /\ \A x \in S \ {r} : Scores(R)[x] = Scores(Q)[x] /\ Weights(R)[x] = Weights(Q)[x]
    BY <1>4, SameElsewhere
  <2> HIDE DEF S, T
  <2>4. AtLeast(Weighted(Scores(Q), Weights(Q), T), Weighted(Scores(R), Weights(R), S))
    BY <1>2, <1>3, <1>4, <1>6, <2>1, <2>2, <2>3, MeanReplaced
  <2> QED BY <1>2, <1>3, <2>1, <2>4
<1>7. CASE r \notin S /\ q \in T
  <2>1. r.status # "MEASURED"
    BY <1>1, <1>7 DEF MeasuredIn, MeasuredRule, Better, Improves
  <2>2. AtLeast(q.score, <<100, 1>>)
    BY <1>1, <2>1 DEF Better
  <2>3. q.score \in Fraction /\ Scores(Q)[q] = q.score
    BY <1>1, <1>7, MeasuredType, UpToFraction, SameElsewhere
  <2>4. AtLeast(Scores(Q)[q], DimScore(R, d))
    BY <1>2, <2>2, <2>3, UpToOrder
  <2>5. S = T \ {q} /\ \A x \in S : Scores(R)[x] = Scores(Q)[x] /\ Weights(R)[x] = Weights(Q)[x]
    BY <1>4, <1>7, SameElsewhere
  <2> HIDE DEF S, T
  <2>6. AtLeast(Weighted(Scores(Q), Weights(Q), T), Weighted(Scores(R), Weights(R), S))
    BY <1>2, <1>3, <1>7, <2>4, <2>5, MeanJoined
  <2> QED BY <1>2, <1>3, <1>7, <2>6
<1> QED BY <1>5, <1>6, <1>7

\* A repaired record leaves the other dimensions' scores as they were.
LEMMA DimScoreElsewhere ==
  ASSUME NEW R, NEW r, NEW Q, NEW q, Improves(R, r, Q, q), NEW d, d # r.dim
  PROVE  DimScore(Q, d) = DimScore(R, d)
<1>1. r \notin MeasuredIn(R, d) /\ q \notin MeasuredIn(Q, d)
  BY SameElsewhere DEF MeasuredIn
<1> QED BY <1>1, DimScoreSame

\* A dimension that the repaired record makes measured starts at 100.
LEMMA DimScoreNew ==
  ASSUME NEW R, NEW r, NEW Q, NEW q, Improves(R, r, Q, q), NEW d,
         DimScore(R, d) = None, DimScore(Q, d) # None
  PROVE  DimScore(Q, d) \in Fraction /\ AtLeast(DimScore(Q, d), <<100, 1>>)
<1>1. Sound(R) /\ Sound(Q) /\ Better(r, q) /\ r \in R
  BY DEF Improves
<1>2. MeasuredIn(R, d) = {}
  BY <1>1, DimScoreType, UpToFraction
<1>3. MeasuredIn(Q, d) # {} /\ DimScore(Q, d) \in Fraction
  BY <1>1, DimScoreType, UpToFraction
<1>4. \A x \in MeasuredIn(Q, d) : x = q
  BY <1>2, SameElsewhere
<1>5. q \in MeasuredIn(Q, d)
  BY <1>3, <1>4
<1>6. r.status # "MEASURED"
  BY <1>1, <1>2, <1>5 DEF MeasuredIn, MeasuredRule, Better
<1>7. AtLeast(q.score, <<100, 1>>)
  BY <1>1, <1>6 DEF Better
<1>8. AtLeast(DimScore(Q, d), q.score)
  BY <1>1, <1>4, DimScoreBetween
<1>9. q.score \in Fraction /\ <<100, 1>> \in Fraction
  BY <1>1, <1>5, MeasuredType, UpToFraction DEF Fraction
<1> QED BY <1>3, <1>7, <1>8, <1>9, AtLeastTransitive

\* A repaired record does not lower the dataset's score.
LEMMA ScoreImproves ==
  ASSUME NEW R, NEW r, NEW Q, NEW q, Improves(R, r, Q, q), NEW p \in Policies, Score(R, p) # None
  PROVE  Score(Q, p) # None /\ AtLeast(Score(Q, p), Score(R, p))
<1> DEFINE S == ScoredDims(R, p)
           T == ScoredDims(Q, p)
           d == r.dim
<1>1. Sound(R) /\ Sound(Q)
  BY DEF Improves
<1>2. /\ S # {} /\ Score(R, p) = Weighted(DimScores(R), p.weights, S)
      /\ Weighable(DimScores(R), p.weights, S) /\ Score(R, p) \in UpTo(100)
  BY <1>1, ScoreType
<1>3. /\ Weighable(DimScores(Q), p.weights, T)
      /\ T # {} => Score(Q, p) = Weighted(DimScores(Q), p.weights, T) /\ Score(Q, p) # None
  BY <1>1, ScoreType, UpToFraction
<1>4. S \subseteq T
  BY DimScoreImproves DEF ScoredDims
<1>5. T \ {d} = S \ {d}
  BY DimScoreElsewhere DEF ScoredDims
<1>6. \A c \in S \ {d} : DimScores(R)[c] = DimScores(Q)[c]
  BY DimScoreElsewhere DEF ScoredDims, DimScores
<1>7. \A c \in T : DimScores(Q)[c] = DimScore(Q, c)
  BY DEF ScoredDims, DimScores
<1>8. \A c \in S : DimScores(R)[c] = DimScore(R, c) /\ DimScore(R, c) # None
  BY DEF ScoredDims, DimScores
<1>9. CASE d \in S
  <2>1. AtLeast(DimScores(Q)[d], DimScores(R)[d])
    BY <1>4, <1>7, <1>8, <1>9, DimScoreImproves
  <2> HIDE DEF S, T, d
  <2>2. AtLeast(Weighted(DimScores(Q), p.weights, T), Weighted(DimScores(R), p.weights, S))
    BY <1>2, <1>3, <1>4, <1>5, <1>6, <1>9, <2>1, MeanReplaced
  <2> QED BY <1>2, <1>3, <1>4, <2>2
<1>10. CASE d \notin S /\ d \in T
  <2>1. DimScore(R, d) = None /\ DimScore(Q, d) # None
    BY <1>10 DEF ScoredDims
  <2>2. DimScores(Q)[d] \in Fraction /\ AtLeast(DimScores(Q)[d], <<100, 1>>)
    BY <1>7, <1>10, <2>1, DimScoreNew
  <2>3. AtLeast(DimScores(Q)[d], Score(R, p))
    BY <1>2, <2>2, UpToOrder
  <2>4. S = T \ {d}
    BY <1>5, <1>10
  <2> HIDE DEF S, T, d
  <2>5. AtLeast(Weighted(DimScores(Q), p.weights, T), Weighted(DimScores(R), p.weights, S))
    BY <1>2, <1>3, <1>6, <1>10, <2>3, <2>4, MeanJoined
  <2> QED BY <1>2, <1>3, <1>10, <2>5
<1>11. CASE d \notin T
  <2>1. S = T /\ \A c \in S : DimScores(R)[c] = DimScores(Q)[c]
    BY <1>4, <1>5, <1>6, <1>11
  <2>2. IsFiniteSet(S)
    BY <1>2 DEF Weighable
  <2> HIDE DEF S, T
  <2>3. Terms(DimScores(Q), p.weights, S) = Terms(DimScores(R), p.weights, S)
    BY <2>1, <2>2, MeansAgree
  <2>4. Score(Q, p) = Score(R, p)
    BY <1>2, <1>3, <2>1, <2>3 DEF Weighted, Terms
  <2>5. AtLeast(Score(R, p), Score(R, p))
    BY <1>2 DEF UpTo, AtLeast
  <2> QED BY <2>4, <2>5
<1> QED BY <1>9, <1>10, <1>11

\* A total weight depends on the weights on the set alone.
LEMMA WeightsAgree ==
  ASSUME NEW S, NEW v, NEW w, \A x \in S : v[x] = w[x]
  PROVE  WeightOf(v, S) = WeightOf(w, S)
<1>1. [x \in S |-> <<v[x], 1>>] = [x \in S |-> <<w[x], 1>>]
  OBVIOUS
<1> QED BY <1>1 DEF WeightOf

NotLighter(v, A, w, B) ==
  \E m, n \in Nat : WeightOf(v, A) = <<m, 1>> /\ WeightOf(w, B) = <<n, 1>> /\ m <= n

\* A set in which one element took the place of another of the same weight weighs no less,
\* and the same where both or neither are in it.
LEMMA WeightReplaced ==
  ASSUME NEW A, NEW B, IsFiniteSet(A), IsFiniteSet(B), NEW v, NEW w, NEW r, NEW q,
         v[r] \in Nat, w[q] = v[r], A \ {r} = B \ {q}, r \in A => q \in B,
         \A x \in A : v[x] \in Nat, \A x \in B : w[x] \in Nat, \A x \in A \ {r} : v[x] = w[x]
  PROVE  /\ NotLighter(v, A, w, B)
         /\ (r \in A <=> q \in B) => WeightOf(v, A) = WeightOf(w, B)
<1>1. IsFiniteSet(A \ {r})
  BY FS_RemoveElement
<1>2. WeightOf(w, B \ {q}) = WeightOf(v, A \ {r})
  BY WeightsAgree
<1>3. PICK n \in Nat : WeightOf(v, A \ {r}) = <<n, 1>>
  BY <1>1, WeightType
<1>4. r \in A => WeightOf(v, A) = <<v[r] + n, 1>>
  <2> SUFFICES ASSUME r \in A
               PROVE  WeightOf(v, A) = <<v[r] + n, 1>>
    OBVIOUS
  <2>1. WeightOf(v, A) = Plus(<<v[r], 1>>, WeightOf(v, A \ {r}))
    BY WeightAdds
  <2> QED BY <1>3, <2>1 DEF Plus
<1>5. q \in B => WeightOf(w, B) = <<v[r] + n, 1>>
  <2> SUFFICES ASSUME q \in B
               PROVE  WeightOf(w, B) = <<v[r] + n, 1>>
    OBVIOUS
  <2>1. WeightOf(w, B) = Plus(<<w[q], 1>>, WeightOf(w, B \ {q}))
    BY WeightAdds
  <2> QED BY <1>2, <1>3, <2>1 DEF Plus
<1>6. r \notin A => WeightOf(v, A) = <<n, 1>>
  BY <1>3
<1>7. q \notin B => WeightOf(w, B) = <<n, 1>>
  BY <1>2, <1>3
<1>8. v[r] + n \in Nat /\ n <= v[r] + n /\ n <= n /\ v[r] + n <= v[r] + n
  OBVIOUS
<1> QED BY <1>4, <1>5, <1>6, <1>7, <1>8 DEF NotLighter

\* A repaired record lowers no dimension's coverage and makes none appear or vanish.
LEMMA DimCoverageImproves ==
  ASSUME NEW R, NEW r, NEW Q, NEW q, Improves(R, r, Q, q), NEW d
  PROVE  /\ DimCoverage(R, d) = None <=> DimCoverage(Q, d) = None
         /\ DimCoverage(R, d) # None => AtLeast(DimCoverage(Q, d), DimCoverage(R, d))
         /\ d # r.dim => DimCoverage(Q, d) = DimCoverage(R, d)
<1> DEFINE M == MeasuredIn(R, d)
           N == MeasuredIn(Q, d)
           E == ExpectedIn(R, d)
           F == ExpectedIn(Q, d)
<1>1. Sound(R) /\ Sound(Q) /\ Better(r, q) /\ r \in R /\ q \in Q
  BY DEF Improves
<1>2. /\ M \ {r} = N \ {q} /\ E \ {r} = F \ {q}
      /\ r \in E <=> q \in F
      /\ r \in M => q \in N
      /\ d # r.dim => q \notin N
  BY SameElsewhere
<1>3. /\ IsFiniteSet(M) /\ IsFiniteSet(N) /\ IsFiniteSet(E) /\ IsFiniteSet(F)
      /\ M \subseteq E /\ N \subseteq F /\ E \subseteq R /\ F \subseteq Q
      /\ \A x \in E : Weights(R)[x] \in Nat
      /\ \A x \in F : Weights(Q)[x] \in Nat
  BY <1>1, MeasuredType DEF Weights
<1>4. d # r.dim => r \notin E /\ r \notin M
  BY DEF ExpectedIn, MeasuredIn
<1>5. E = {} <=> F = {}
  BY <1>2
<1>6. /\ E = {} => DimCoverage(R, d) = None
      /\ F = {} => DimCoverage(Q, d) = None
      /\ E # {} => DimCoverage(R, d) # None
      /\ F # {} => DimCoverage(Q, d) # None
  BY <1>1, DimCoverageType, UpToFraction
<1>7. /\ Weights(R)[r] = r.weight /\ Weights(Q)[q] = r.weight /\ r.weight \in Nat
      /\ \A x \in E \ {r} : Weights(R)[x] = Weights(Q)[x]
  BY <1>1, <1>3, SameElsewhere DEF Sound, Typed
<1>8. CASE E # {}
  <2>1. /\ NotLighter(Weights(R), M, Weights(Q), N)
        /\ (r \in M <=> q \in N) => WeightOf(Weights(R), M) = WeightOf(Weights(Q), N)
    <3>1. /\ IsFiniteSet(M) /\ IsFiniteSet(N) /\ M \ {r} = N \ {q} /\ (r \in M => q \in N)
          /\ Weights(R)[r] \in Nat /\ Weights(Q)[q] = Weights(R)[r]
          /\ \A x \in M : Weights(R)[x] \in Nat
          /\ \A x \in N : Weights(Q)[x] \in Nat
          /\ \A x \in M \ {r} : Weights(R)[x] = Weights(Q)[x]
      BY <1>2, <1>3, <1>7
    <3> HIDE DEF M, N
    <3> QED BY <3>1, WeightReplaced
  <2>2. WeightOf(Weights(R), E) = WeightOf(Weights(Q), F)
    <3>1. /\ IsFiniteSet(E) /\ IsFiniteSet(F) /\ E \ {r} = F \ {q} /\ (r \in E <=> q \in F)
          /\ Weights(R)[r] \in Nat /\ Weights(Q)[q] = Weights(R)[r]
          /\ \A x \in E : Weights(R)[x] \in Nat
          /\ \A x \in F : Weights(Q)[x] \in Nat
          /\ \A x \in E \ {r} : Weights(R)[x] = Weights(Q)[x]
      BY <1>2, <1>3, <1>7
    <3> HIDE DEF E, F
    <3> QED BY <3>1, WeightReplaced
  <2>3. PICK m, e \in Nat : /\ WeightOf(Weights(R), M) = <<m, 1>>
                            /\ WeightOf(Weights(R), E) = <<e, 1>>
                            /\ m <= e /\ e > 0
                            /\ DimCoverage(R, d) = <<m, e>> /\ DimCoverage(R, d) \in UpTo(1)
    BY <1>1, <1>8, DimCoverageType
  <2>4. PICK n, f \in Nat : /\ WeightOf(Weights(Q), N) = <<n, 1>>
                            /\ WeightOf(Weights(Q), F) = <<f, 1>>
                            /\ n <= f /\ f > 0
                            /\ DimCoverage(Q, d) = <<n, f>> /\ DimCoverage(Q, d) \in UpTo(1)
    BY <1>1, <1>5, <1>8, DimCoverageType
  <2>5. m <= n /\ ((r \in M <=> q \in N) => m = n)
    <3>1. PICK i, j \in Nat : /\ WeightOf(Weights(R), M) = <<i, 1>>
                              /\ WeightOf(Weights(Q), N) = <<j, 1>>
                              /\ i <= j
      BY <2>1 DEF NotLighter
    <3>2. <<i, 1>> = <<m, 1>> /\ <<j, 1>> = <<n, 1>>
      BY <2>3, <2>4, <3>1
    <3>3. i = m /\ j = n
      BY <3>2
    <3>4. ASSUME r \in M <=> q \in N
          PROVE  <<m, 1>> = <<n, 1>>
      BY <2>1, <2>3, <2>4, <3>4
    <3> QED BY <3>1, <3>3, <3>4
  <2>6. e = f
    <3>1. <<e, 1>> = <<f, 1>>
      BY <2>2, <2>3, <2>4
    <3> QED BY <3>1
  <2>7. AtLeast(<<n, e>>, <<m, e>>)
    BY <2>3, <2>5 DEF AtLeast
  <2>8. d # r.dim => m = n
    BY <1>2, <1>4, <2>5
  <2> QED BY <1>5, <1>6, <1>8, <2>3, <2>4, <2>6, <2>7, <2>8
<1> QED BY <1>5, <1>6, <1>8

\* A repaired record keeps the coverage the policy asks for.
LEMMA CoverageImproves ==
  ASSUME NEW R, NEW r, NEW Q, NEW q, Improves(R, r, Q, q), NEW p \in Policies,
         Covers(Coverage(R, p), p)
  PROVE  Covers(Coverage(Q, p), p)
<1> DEFINE S == CoveredDims(R, p)
           T == CoveredDims(Q, p)
           d == r.dim
<1>1. Sound(R) /\ Sound(Q)
  BY DEF Improves
<1>2. T = S
  BY DimCoverageImproves DEF CoveredDims
<1>3. /\ S # {} /\ Coverage(R, p) = Weighted(DimCoverages(R), p.weights, S)
      /\ Weighable(DimCoverages(R), p.weights, S) /\ Coverage(R, p) \in UpTo(1)
  BY <1>1, CoverageType DEF Covers
<1>4. /\ Coverage(Q, p) = Weighted(DimCoverages(Q), p.weights, S)
      /\ Weighable(DimCoverages(Q), p.weights, S) /\ Coverage(Q, p) \in UpTo(1)
  BY <1>1, <1>2, <1>3, CoverageType
<1>5. \A c \in S \ {d} : DimCoverages(R)[c] = DimCoverages(Q)[c]
  BY DimCoverageImproves DEF CoveredDims, DimCoverages
<1>6. AtLeast(Coverage(Q, p), Coverage(R, p))
  <2>1. CASE d \in S
    <3>1. AtLeast(DimCoverages(Q)[d], DimCoverages(R)[d])
      BY <2>1, DimCoverageImproves DEF CoveredDims, DimCoverages
    <3> HIDE DEF S, d
    <3> QED BY <1>3, <1>4, <1>5, <2>1, <3>1, MeanReplaced
  <2>2. CASE d \notin S
    <3>1. IsFiniteSet(S)
      BY <1>3 DEF Weighable
    <3>2. \A c \in S : DimCoverages(Q)[c] = DimCoverages(R)[c] /\ p.weights[c] = p.weights[c]
      BY <1>5, <2>2
    <3>3. AtLeast(Coverage(R, p), Coverage(R, p))
      BY <1>3 DEF UpTo, AtLeast
    <3> HIDE DEF S
    <3>4. Terms(DimCoverages(Q), p.weights, S) = Terms(DimCoverages(R), p.weights, S)
      BY <3>1, <3>2, MeansAgree
    <3>5. Coverage(Q, p) = Coverage(R, p)
      BY <1>3, <1>4, <3>4 DEF Weighted, Terms
    <3> QED BY <3>3, <3>5
  <2> QED BY <2>1, <2>2
<1>7. AtLeast(Coverage(R, p), p.coverage)
  BY DEF Covers
<1>8. Coverage(Q, p) \in Fraction /\ Coverage(R, p) \in Fraction /\ p.coverage \in Fraction
  BY <1>3, <1>4, PolicyType, UpToFraction
<1>9. AtLeast(Coverage(Q, p), p.coverage)
  BY <1>6, <1>7, <1>8, AtLeastTransitive
<1> QED BY <1>4, <1>9, UpToFraction DEF Covers

\* A repaired record keeps sufficient evidence sufficient.
LEMMA EvidenceStays ==
  ASSUME NEW R, NEW r, NEW Q, NEW q, Improves(R, r, Q, q), NEW p \in Policies,
         ~Insufficient(R, p, Score(R, p), Coverage(R, p))
  PROVE  ~Insufficient(Q, p, Score(Q, p), Coverage(Q, p))
<1>1. /\ Covers(Coverage(R, p), p) /\ Score(R, p) # None
      /\ ~UnmeasuredRequired(R) /\ Required(R) \subseteq GateDims(R)
  BY DEF Insufficient
<1>2. Covers(Coverage(Q, p), p) /\ Score(Q, p) # None
  BY <1>1, CoverageImproves, ScoreImproves
<1>3. ~UnmeasuredRequired(Q) /\ Required(Q) \subseteq GateDims(Q)
  BY <1>1, FailuresStay
<1> QED BY <1>2, <1>3 DEF Insufficient

\* A repaired record keeps a PASS a PASS and does not turn a WARN into anything worse.
LEMMA PassStays ==
  ASSUME NEW R, NEW r, NEW Q, NEW q, Improves(R, r, Q, q), NEW p \in Policies
  PROVE  /\ Card(R, p).gate = "PASS" => Card(Q, p).gate = "PASS"
         /\ Card(R, p).gate = "WARN" => Card(Q, p).gate \in {"WARN", "PASS"}
<1> SUFFICES ASSUME Card(R, p).gate \in {"PASS", "WARN"}
             PROVE  /\ Card(Q, p).gate \in {"PASS", "WARN"}
                    /\ Card(R, p).gate = "PASS" => Card(Q, p).gate = "PASS"
  OBVIOUS
<1>1. /\ ~TechnicalFailure(R) /\ \A x \in R : ~CriticalViolated(x, p)
      /\ ~Insufficient(R, p, Score(R, p), Coverage(R, p))
      /\ AtLeast(Score(R, p), p.warn)
      /\ Card(R, p).gate = "PASS" <=> AtLeast(Score(R, p), p.pass)
  BY PassingGate
<1>2. ~TechnicalFailure(Q) /\ \A x \in Q : ~CriticalViolated(x, p)
  BY <1>1, FailuresStay, CriticalStays
<1>3. ~Insufficient(Q, p, Score(Q, p), Coverage(Q, p))
  BY <1>1, EvidenceStays
<1>4. Score(R, p) # None /\ Sound(R) /\ Sound(Q)
  BY <1>1 DEF Insufficient, Improves
<1>5. Score(Q, p) # None /\ AtLeast(Score(Q, p), Score(R, p))
  BY <1>4, ScoreImproves
<1>6. /\ Score(R, p) \in Fraction /\ Score(Q, p) \in Fraction
      /\ p.warn \in Fraction /\ p.pass \in Fraction
  BY <1>4, <1>5, ScoreType, PolicyType, UpToFraction
<1>7. AtLeast(Score(Q, p), p.warn)
  BY <1>1, <1>5, <1>6, AtLeastTransitive
<1>8. AtLeast(Score(R, p), p.pass) => AtLeast(Score(Q, p), p.pass)
  BY <1>5, <1>6, AtLeastTransitive
<1> QED BY <1>1, <1>2, <1>3, <1>7, <1>8 DEF Card, Gate

\* A repaired record keeps a published card published, with no lower a score.
LEMMA PublicationStays ==
  ASSUME NEW R, NEW r, NEW Q, NEW q, Improves(R, r, Q, q), NEW p \in Policies, Card(R, p).published
  PROVE  Card(Q, p).published /\ AtLeast(Card(Q, p).score, Card(R, p).score)
<1>1. /\ Score(R, p) # None /\ Card(R, p).score = Score(R, p)
      /\ Covers(Coverage(R, p), p) /\ ~TechnicalFailure(R) /\ ~UnmeasuredRequired(R)
      /\ \A d \in Required(R) : DimScore(R, d) # None
  BY PublishedScore
<1>2. Score(Q, p) # None /\ AtLeast(Score(Q, p), Score(R, p)) /\ Covers(Coverage(Q, p), p)
  BY <1>1, ScoreImproves, CoverageImproves
<1>3. ~TechnicalFailure(Q) /\ ~UnmeasuredRequired(Q) /\ Required(Q) = Required(R)
  BY <1>1, FailuresStay
<1>4. \A d \in Required(Q) : DimScore(Q, d) # None
  BY <1>1, <1>3, DimScoreImproves
<1>5. Required(Q) \subseteq GateDims(Q)
  <2> SUFFICES ASSUME NEW d \in Required(Q)
               PROVE  d \in GateDims(Q)
    OBVIOUS
  <2>1. MeasuredIn(Q, d) # {}
    BY <1>4 DEF DimScore
  <2> QED BY <2>1 DEF MeasuredIn, MeasuredRule, GateDims
<1>6. ~Insufficient(Q, p, Score(Q, p), Coverage(Q, p))
  BY <1>2, <1>3, <1>5 DEF Insufficient
<1>7. Gate(Q, p, Score(Q, p), Coverage(Q, p)) \notin {"ERROR", "INSUFFICIENT_EVIDENCE"}
  BY <1>3, <1>6 DEF Gate
<1> QED BY <1>1, <1>2, <1>3, <1>4, <1>7 DEF Card, Published

\* Of a repaired snapshot, no fewer records pass.
LEMMA RepairsPass ==
  ASSUME NEW m \in Measurements, NEW k \in Measurements, Repairs(m, k)
  PROVE  /\ \A c \in Records : m[c] \in Nat /\ k[c] \in Nat
         /\ k["outside"] = m["outside"] /\ k["failed"] <= m["failed"] /\ k["missing"] <= m["missing"]
         /\ k["passed"] + k["failed"] + k["missing"] = m["passed"] + m["failed"] + m["missing"]
         /\ k["passed"] >= m["passed"]
<1>1. /\ m["passed"] + m["failed"] + m["missing"] + m["outside"] = Rows
      /\ k["passed"] + k["failed"] + k["missing"] + k["outside"] = Rows
  BY DEF Measurements
<1>2. \A c \in Records : m[c] \in Nat /\ k[c] \in Nat
  BY RowsAssumption DEF Measurements
<1>3. k["outside"] = m["outside"] /\ k["failed"] <= m["failed"] /\ k["missing"] <= m["missing"]
  BY DEF Repairs
<1> QED BY <1>1, <1>2, <1>3, RowsAssumption DEF Records

\* A share does not fall when the part it is of grows and the rest of the whole does not.
LEMMA ShareGrows ==
  ASSUME NEW p \in Nat, NEW x \in Nat, NEW q \in Nat, NEW y \in Nat, q >= p, y <= x
  PROVE  AtLeast(<<100 * q, q + y>>, <<100 * p, p + x>>)
<1>1. q * x >= p * x /\ p * x >= p * y
  BY Z3
<1>2. q * (p + x) = q * p + q * x /\ p * (q + y) = q * p + p * y
  BY Z3
<1>3. q * p \in Nat /\ q * x \in Nat /\ p * x \in Nat /\ p * y \in Nat
  BY Z3
<1>4. q * (p + x) >= p * (q + y)
  BY <1>1, <1>2, <1>3
<1> QED BY <1>4 DEF AtLeast

\* The rule's result after records were repaired is no worse in any respect.
LEMMA RepairedResult ==
  ASSUME NEW i, NEW rule \in Rules, NEW m \in Measurements, NEW k \in Measurements,
         Repairs(m, k), m # k
  PROVE  Better(Result(i, rule, Counted(m)), Result(i, rule, Counted(k)))
<1> DEFINE r == Result(i, rule, Counted(m))
           q == Result(i, rule, Counted(k))
           n == Denominator(rule, m)
           l == Denominator(rule, k)
           x == Violations(rule, m)
           y == Violations(rule, k)
<1>1. /\ k["outside"] = m["outside"] /\ k["failed"] <= m["failed"] /\ k["missing"] <= m["missing"]
      /\ k["passed"] + k["failed"] + k["missing"] = m["passed"] + m["failed"] + m["missing"]
      /\ k["passed"] >= m["passed"]
  BY RepairsPass
<1>2. /\ m["passed"] \in Nat /\ m["failed"] \in Nat /\ m["missing"] \in Nat
      /\ k["passed"] \in Nat /\ k["failed"] \in Nat /\ k["missing"] \in Nat
  BY RepairsPass DEF Records
<1>3. k["passed"] > m["passed"]
  <2> SUFFICES ASSUME k["passed"] = m["passed"]
               PROVE  FALSE
    BY <1>1, <1>2
  <2>1. k["failed"] = m["failed"] /\ k["missing"] = m["missing"]
    BY <1>1, <1>2
  <2>2. \A c \in Records : k[c] = m[c]
    BY <1>1, <2>1 DEF Records
  <2> QED BY <2>2 DEF Measurements
<1>4. /\ x \in Nat /\ y \in Nat /\ y <= x
      /\ n = m["passed"] + x /\ l = k["passed"] + y
  <2>1. CASE rule.nulls = "fail"
    <3>1. /\ n = m["passed"] + m["failed"] + m["missing"] /\ x = m["failed"] + m["missing"]
          /\ l = k["passed"] + k["failed"] + k["missing"] /\ y = k["failed"] + k["missing"]
      BY <2>1 DEF Denominator, Violations
    <3> HIDE DEF n, l, x, y
    <3> QED BY <1>1, <1>2, <3>1
  <2>2. CASE rule.nulls # "fail"
    <3>1. /\ n = m["passed"] + m["failed"] + 0 /\ x = m["failed"] + 0
          /\ l = k["passed"] + k["failed"] + 0 /\ y = k["failed"] + 0
      BY <2>2 DEF Denominator, Violations
    <3> HIDE DEF n, l, x, y
    <3> QED BY <1>1, <1>2, <3>1
  <2> QED BY <2>1, <2>2
<1>5. /\ n \in Nat /\ l \in Nat /\ l > 0
      /\ n = 0 => y = 0 /\ l = k["passed"]
  <2> HIDE DEF n, l, x, y
  <2>1. n \in Nat /\ l \in Nat /\ l > 0
    BY <1>2, <1>3, <1>4
  <2>2. ASSUME n = 0
        PROVE  y = 0 /\ l = k["passed"]
    <3>1. x = 0
      BY <1>2, <1>4, <2>2
    <3>2. y = 0
      BY <1>4, <3>1
    <3> QED BY <1>2, <1>4, <3>2
  <2> QED BY <2>1, <2>2
<1>6. AtLeast(<<100 * k["passed"], l>>, <<100 * m["passed"], n>>)
  <2> HIDE DEF n, l, x, y
  <2> QED BY <1>1, <1>2, <1>4, ShareGrows
<1>7. n = 0 => AtLeast(<<100 * k["passed"], l>>, <<100, 1>>)
  <2> HIDE DEF n, l
  <2> QED BY <1>2, <1>5 DEF AtLeast
<1>8. /\ q.status = "MEASURED" /\ q.score = <<100 * k["passed"], l>> /\ q.violations = y
      /\ n > 0 => r.status = "MEASURED" /\ r.score = <<100 * m["passed"], n>> /\ r.violations = x
      /\ n = 0 => r.status = "NOT_MEASURABLE" /\ r.score = None
  <2>1. /\ Counted(m).status = "MEASURED" /\ Counted(m).counts = m
        /\ Counted(k).status = "MEASURED" /\ Counted(k).counts = k
    BY DEF Counted
  <2> QED BY <1>5, <2>1, MeasuredResult
<1>9. <<100 * k["passed"], l>> # None /\ <<100 * m["passed"], n>> # None
  BY DEF None
<1>10. /\ q.dim = r.dim /\ q.required = r.required /\ q.critical = r.critical /\ q.gate = r.gate
       /\ q.scored = r.scored /\ q.weight = r.weight /\ q.threshold = r.threshold
       /\ ~r.advisory /\ ~q.advisory
  BY DEF Result
<1> HIDE DEF r, q, n, l, x, y
<1>11. CASE n = 0
  BY <1>5, <1>7, <1>8, <1>9, <1>10, <1>11 DEF Better, r, q
<1>12. CASE n > 0
  BY <1>4, <1>6, <1>8, <1>9, <1>10, <1>12 DEF Better, r, q
<1> QED BY <1>5, <1>11, <1>12

\* The results of a run with records repaired under one rule improve those of the run before.
LEMMA RepairedResults ==
  ASSUME NEW rs, NEW os, NEW sigs, Context(rs, os, sigs), NEW i \in DOMAIN rs,
         NEW m \in Measurements, os[i] = Counted(m), NEW k \in Measurements, Repairs(m, k), m # k
  PROVE  LET more == [os EXCEPT ![i] = Counted(k)]
         IN  Improves(Results(rs, os, sigs), Result(i, rs[i], os[i]),
                      Results(rs, more, sigs), Result(i, rs[i], more[i]))
<1> DEFINE more == [os EXCEPT ![i] = Counted(k)]
           R == Results(rs, os, sigs)
           Q == Results(rs, more, sigs)
           r == Result(i, rs[i], os[i])
           q == Result(i, rs[i], more[i])
           Rest == {Result(j, rs[j], os[j]) : j \in DOMAIN rs \ {i}} \union {Outlier(s) : s \in sigs}
<1>1. Context(rs, more, sigs)
  BY CountedType DEF Context
<1>2. Sound(R) /\ Sound(Q)
  <2> HIDE DEF more
  <2> QED BY <1>1, ResultsType DEF Sound
<1>3. more[i] = Counted(k) /\ \A j \in DOMAIN rs \ {i} : more[j] = os[j]
  BY DEF Context
<1>4. R = Rest \union {r} /\ Q = Rest \union {q}
  <2> HIDE DEF more
  <2> QED BY <1>3 DEF Results
<1>5. r \notin Rest /\ q \notin Rest
  <2>1. r.id = i /\ q.id = i /\ i # 0
    BY RuleType DEF Result, Context
  <2>2. \A x \in Rest : x.id # i
    BY <2>1 DEF Result, Outlier
  <2> QED BY <2>1, <2>2
<1>6. Better(r, q)
  BY <1>3, RuleType, RepairedResult DEF Context
<1> HIDE DEF R, Q, r, q, Rest
<1>7. Improves(R, r, Q, q)
  BY <1>2, <1>4, <1>5, <1>6 DEF Improves
<1> QED BY <1>7 DEF R, Q, r, q, more

\* Cards compare transitively.
LEMMA NoWorseTransitive ==
  ASSUME NEW R, Sound(R), NEW S, Sound(S), NEW T, Sound(T), NEW p \in Policies,
         NoWorse(Card(S, p), Card(R, p)), NoWorse(Card(T, p), Card(S, p))
  PROVE  NoWorse(Card(T, p), Card(R, p))
<1>1. \A Q \in {R, S, T} : Card(Q, p).published => Card(Q, p).score \in Fraction
  <2> SUFFICES ASSUME NEW Q \in {R, S, T}, Card(Q, p).published
               PROVE  Card(Q, p).score \in Fraction
    OBVIOUS
  <2>1. Score(Q, p) # None /\ Card(Q, p).score = Score(Q, p)
    BY PublishedScore
  <2> QED BY <2>1, ScoreType, UpToFraction
<1>2. ASSUME Card(R, p).published
      PROVE  Card(T, p).published /\ AtLeast(Card(T, p).score, Card(R, p).score)
  <2>1. /\ Card(S, p).published /\ AtLeast(Card(S, p).score, Card(R, p).score)
        /\ Card(T, p).published /\ AtLeast(Card(T, p).score, Card(S, p).score)
    BY <1>2 DEF NoWorse
  <2> QED BY <1>1, <1>2, <2>1, AtLeastTransitive
<1> QED BY <1>2 DEF NoWorse

\* Records repaired under any of the rules: the card is no worse.  One rule's records after
\* the other's, by induction along the set of rules.
LEMMA RepairedCard ==
  ASSUME NEW rs, NEW os, NEW sigs, Context(rs, os, sigs), NEW p \in Policies,
         NEW new \in [DOMAIN rs -> Outputs],
         \A i \in DOMAIN rs : new[i] # os[i] =>
           /\ os[i].status = "MEASURED" /\ new[i].status = "MEASURED"
           /\ Repairs(os[i].counts, new[i].counts)
  PROVE  NoWorse(Card(Results(rs, new, sigs), p), Card(Results(rs, os, sigs), p))
<1> DEFINE D == DOMAIN rs
           Partly(s) == [i \in D |-> IF i \in s THEN new[i] ELSE os[i]]
           C(s) == Card(Results(rs, Partly(s), sigs), p)
           P == {s \in SUBSET D : NoWorse(C(s), C({}))}
<1>1. /\ os \in [D -> Outputs] /\ IsFiniteSet(D)
      /\ \A s \in SUBSET D : Context(rs, Partly(s), sigs) /\ Sound(Results(rs, Partly(s), sigs))
  <2>1. os \in [D -> Outputs]
    BY DEF Context
  <2>2. IsFiniteSet(D)
    <3>1. rs \in Seq(Rules)
      BY RulesetsAssumption DEF Context
    <3>2. D = 1..Len(rs) /\ Len(rs) \in Nat
      BY <3>1
    <3> QED BY <3>2, FS_Interval
  <2>3. ASSUME NEW s \in SUBSET D
        PROVE  Context(rs, Partly(s), sigs)
    BY <2>1 DEF Context
  <2> HIDE DEF Partly
  <2> QED BY <2>1, <2>2, <2>3, ResultsType DEF Sound
<1>2. Partly({}) = os /\ Partly(D) = new
  BY <1>1
<1>3. {} \in P
  <2>1. C({}).published => C({}).score \in Fraction
    <3> SUFFICES ASSUME C({}).published PROVE C({}).score \in Fraction
      OBVIOUS
    <3> HIDE DEF Partly
    <3>1. Score(Results(rs, Partly({}), sigs), p) # None
          /\ C({}).score = Score(Results(rs, Partly({}), sigs), p)
      BY PublishedScore
    <3> QED BY <1>1, <3>1, ScoreType, UpToFraction
  <2> HIDE DEF C
  <2> QED BY <2>1 DEF NoWorse, AtLeast, Fraction
<1>4. ASSUME NEW s \in SUBSET D, NEW i \in s, s \ {i} \in P
      PROVE  s \in P
  <2> DEFINE t == s \ {i}
             before == Partly(t)
  <2>1. /\ before[i] = os[i] /\ Partly(s) = [before EXCEPT ![i] = new[i]] /\ i \in D
        /\ t \in SUBSET D
    BY <1>1
  <2>2. CASE new[i] = os[i]
    <3>1. Partly(s) = Partly(t)
      BY <1>1, <2>2
    <3> HIDE DEF Partly
    <3> QED BY <1>4, <3>1
  <2>3. CASE new[i] # os[i]
    <3>1. PICK m \in Measurements : os[i] = Counted(m)
      BY <1>1, <2>1, <2>3, MeasuredOutput
    <3>2. PICK k \in Measurements : new[i] = Counted(k)
      BY <2>1, <2>3, MeasuredOutput
    <3>3. Repairs(m, k) /\ m # k
      BY <2>1, <2>3, <3>1, <3>2 DEF Counted
    <3> HIDE DEF Partly
    <3>0. Partly(s) = [before EXCEPT ![i] = Counted(k)]
      BY <2>1, <3>2
    <3>4. Context(rs, before, sigs) /\ before[i] = Counted(m)
      BY <1>1, <2>1, <3>1
    <3>5. Improves(Results(rs, before, sigs), Result(i, rs[i], before[i]),
                   Results(rs, Partly(s), sigs), Result(i, rs[i], Partly(s)[i]))
      <4> HIDE DEF before
      <4> DEFINE more == [before EXCEPT ![i] = Counted(k)]
      <4>1. Improves(Results(rs, before, sigs), Result(i, rs[i], before[i]),
                     Results(rs, more, sigs), Result(i, rs[i], more[i]))
        BY <2>1, <3>3, <3>4, RepairedResults
      <4> QED BY <3>0, <4>1
    <3>6. NoWorse(C(s), C(t))
      BY <3>5, PassStays, PublicationStays DEF NoWorse
    <3>7. NoWorse(C(t), C({}))
      BY <1>4
    <3>8. NoWorse(C(s), C({}))
      BY <1>1, <2>1, <3>6, <3>7, NoWorseTransitive
    <3> QED BY <3>8
  <2> QED BY <2>2, <2>3
<1>5. \A s \in SUBSET D : (\A i \in s : s \ {i} \in P) => s \in P
  <2> SUFFICES ASSUME NEW s \in SUBSET D, \A i \in s : s \ {i} \in P
               PROVE  s \in P
    OBVIOUS
  <2> HIDE DEF P
  <2>1. CASE s = {}
    BY <1>3, <2>1
  <2>2. CASE s # {}
    BY <1>4, <2>2
  <2> QED BY <2>1, <2>2
<1>6. D \in P
  <2> HIDE DEF P, D
  <2> QED BY <1>1, <1>5, SubsetInduction
<1>7. NoWorse(C(D), C({}))
  BY <1>6
<1> HIDE DEF Partly
<1> QED BY <1>2, <1>7

\* RepairNeverHurts holds of every step: a snapshot that differs in repaired records, however
\* many, is never judged worse, for any ruleset, policy and number of records.
THEOREM RepairsNeverHurt == Spec => RepairNeverHurts
<1>1. Consistent /\ Consistent' /\ [Next]_vars => [Repaired => NoWorse(card', card)]_vars
  <2> SUFFICES ASSUME Consistent, Consistent', Next, Repaired
               PROVE  NoWorse(card', card)
    OBVIOUS
  <2>1. /\ rules' = rules /\ policy' = policy
    BY DEF Next, RunOnEmpty, RunOnClean, RunOnChanged, RunWithFailure, RunWithSignals, Run
  <2>2. /\ Context(rules, outs, signals) /\ outs \in [DOMAIN rules -> Outputs]
        /\ outs' \in [DOMAIN rules -> Outputs]
    BY <2>1 DEF Consistent, Context
  <2>3. PICK i \in DOMAIN rules : outs'[i] # outs[i]
    BY <2>2 DEF Repaired
  <2>4. outs'[i].status = "MEASURED"
    BY <2>3 DEF Repaired
  <2>5. ~RunOnEmpty
    <3> SUFFICES ASSUME RunOnEmpty PROVE FALSE
      OBVIOUS
    <3>1. PICK s \in {"NOT_MEASURABLE", "NOT_APPLICABLE"} :
            outs' = [j \in DOMAIN rules |-> NotCounted(s)]
      BY DEF RunOnEmpty, Run
    <3>2. outs'[i] = NotCounted(s)
      BY <3>1
    <3> QED BY <2>4, <3>2 DEF NotCounted
  <2>6. ~RunWithSignals
    BY <2>3 DEF RunWithSignals, Run
  <2>7. signals' = signals
    BY <2>5, <2>6 DEF Next, RunOnClean, RunOnChanged, RunWithFailure, Run
  <2>8. /\ policy \in Policies /\ card = Card(Results(rules, outs, signals), policy)
        /\ card' = Card(Results(rules, outs', signals), policy)
    BY <2>1, <2>7 DEF Consistent
  <2>9. \A j \in DOMAIN rules : outs'[j] # outs[j] =>
          /\ outs[j].status = "MEASURED" /\ outs'[j].status = "MEASURED"
          /\ Repairs(outs[j].counts, outs'[j].counts)
    BY DEF Repaired
  <2> QED BY <2>2, <2>8, <2>9, RepairedCard
<1> QED BY <1>1, AlwaysConsistent, PTL DEF Spec, RepairNeverHurts
=============================================================================
