--------------------------- MODULE Numbers_proofs ---------------------------
(***************************************************************************)
(* What the other proofs need to know of numbers: the order of products    *)
(* and quotients, least and greatest members of sets, induction for sets,  *)
(* the sum of a function over a finite set, and the order of InOrder.      *)
(* The library's induction theorems take an operator as a parameter; the   *)
(* ones here take a set, and come from its theorem on minimal members.     *)
(***************************************************************************)
EXTENDS Ordered, Integers, Functions, FiniteSetTheorems, WellFoundedInduction, TLAPS

---------------------------------------------------------------------------
(* Products and quotients *)

\* Integer division: the quotient times the divisor, within one divisor.
LEMMA DivBounds ==
    ASSUME NEW a \in Nat, NEW b \in Nat, b > 0
    PROVE  /\ a \div b \in Nat
           /\ b * (a \div b) <= a
           /\ a < b * (a \div b) + b
  OBVIOUS

\* Multiplying by a natural number preserves the order.
LEMMA MulLe ==
    ASSUME NEW a \in Nat, NEW b \in Nat, NEW c \in Nat, a <= b
    PROVE  a * c <= b * c
  OBVIOUS

\* The converse, for the strict order.
LEMMA MulLt ==
    ASSUME NEW a \in Nat, NEW b \in Nat, NEW c \in Nat, a * c < b * c
    PROVE  a < b
  BY MulLe

\* A quotient is at most c if the dividend is at most c divisors.
LEMMA DivLe ==
    ASSUME NEW a \in Nat, NEW b \in Nat, b > 0, NEW c \in Nat, a <= c * b
    PROVE  a \div b <= c
<1> DEFINE q == a \div b
<1>1. q \in Nat /\ b * q <= a
  BY DivBounds
<1>2. SUFFICES ASSUME q > c PROVE FALSE
  BY <1>1
<1>3. q >= c + 1
  BY <1>1, <1>2
<1>4. (c + 1) * b <= q * b
  BY <1>1, <1>3, MulLe
<1>5. QED
  BY <1>1, <1>4

\* Division preserves the order of dividends.
LEMMA DivMono ==
    ASSUME NEW a \in Nat, NEW c \in Nat, NEW b \in Nat, b > 0, a <= c
    PROVE  a \div b <= c \div b
<1> DEFINE q == c \div b
<1>1. q \in Nat /\ c < b * q + b
  BY DivBounds
<1> DEFINE p == a \div b
<1>2. p \in Nat /\ b * p <= a
  BY DivBounds
<1>3. b * p < b * (q + 1)
  BY <1>1, <1>2
<1>4. p < q + 1
  <2> SUFFICES ASSUME p >= q + 1 PROVE FALSE
    BY <1>1, <1>2
  <2>1. (q + 1) * b <= p * b
    BY <1>1, <1>2, MulLe
  <2> QED BY <2>1, <1>3, <1>1, <1>2
<1>5. QED
  BY <1>1, <1>2, <1>4

---------------------------------------------------------------------------
(* Least and greatest, induction *)

\* A set of natural numbers that is not empty has a least element.
LEMMA LeastNumber ==
  ASSUME NEW S, S \subseteq Nat, S # {}
  PROVE \E m \in S : \A n \in S : m <= n
  <1> DEFINE R == {p \in Nat \X Nat : p[1] < p[2]}
  <1>0. IsWellFoundedOn(R, Nat)
    BY NatLessThanWellFounded DEF OpToRel
  <1>1. \E m \in S : \A n \in S : ~ (<<n, m>> \in R)
    <2> HIDE DEF R
    <2> QED BY <1>0, WFMin
  <1>2. PICK m \in S : \A n \in S : ~ (<<n, m>> \in R)
    BY <1>1
  <1>3. ASSUME NEW n \in S PROVE m <= n
    <2>1. /\ n \in Nat /\ m \in Nat
          /\ ~ (<<n, m>> \in R)
      BY <1>2
    <2>2. ~ (n < m)
      BY <2>1
    <2> QED BY <2>1, <2>2
  <1> QED BY <1>3

\* Induction over the natural numbers, for a set.
LEMMA NaturalsAreGood ==
  ASSUME NEW Good, 0 \in Good, \A n \in Nat : n \in Good => n + 1 \in Good
  PROVE  Nat \subseteq Good
  <1> DEFINE Bad == Nat \ Good
  <1> SUFFICES ASSUME Bad # {} PROVE FALSE
    OBVIOUS
  <1>1. PICK m \in Bad : \A n \in Bad : m <= n
    <2> Bad \subseteq Nat
      OBVIOUS
    <2> HIDE DEF Bad
    <2> QED BY LeastNumber
  <1>2. m \in Nat /\ m # 0
    BY <1>1
  <1>3. m - 1 \in Nat /\ m - 1 \notin Bad
    BY <1>1, <1>2
  <1> QED BY <1>1, <1>2, <1>3

\* A bounded set of natural numbers that is not empty has a greatest element.
LEMMA GreatestNumber ==
  ASSUME NEW S, S \subseteq Nat, S # {}, NEW b \in Nat, \A n \in S : n <= b
  PROVE  \E m \in S : \A n \in S : n <= m
  <1> DEFINE T == {b - n : n \in S}
  <1>1. T \subseteq Nat /\ T # {}
    <2> \A n \in S : n \in Nat /\ n <= b
      OBVIOUS
    <2> \A n \in S : b - n \in Nat
      OBVIOUS
    <2> QED OBVIOUS
  <1>2. PICK t \in T : \A u \in T : t <= u
    <2> HIDE DEF T
    <2> QED BY <1>1, LeastNumber
  <1>3. PICK m \in S : t = b - m
    BY <1>2
  <1>4. ASSUME NEW n \in S PROVE n <= m
    <2>1. b - m <= b - n
      BY <1>2, <1>3
    <2>2. m \in Nat /\ n \in Nat
      OBVIOUS
    <2> QED BY <2>1, <2>2
  <1> QED BY <1>4

\* Induction over the subsets of a finite set.
LEMMA SubsetsAreGood ==
  ASSUME NEW D, IsFiniteSet(D), NEW Good,
         \A s \in SUBSET D : (\A u \in s : s \ {u} \in Good) => s \in Good
  PROVE  SUBSET D \subseteq Good
  <1> DEFINE Bad == (SUBSET D) \ Good
             Sizes == {Cardinality(s) : s \in Bad}
  <1> SUFFICES ASSUME Bad # {} PROVE FALSE
    OBVIOUS
  <1>1. \A s \in SUBSET D : IsFiniteSet(s) /\ Cardinality(s) \in Nat
    BY FS_Subset, FS_CardinalityType
  <1>2. PICK k \in Sizes : \A j \in Sizes : k <= j
    <2> Sizes \subseteq Nat /\ Sizes # {}
      BY <1>1
    <2> HIDE DEF Sizes
    <2> QED BY LeastNumber
  <1>3. PICK s \in Bad : k = Cardinality(s)
    BY <1>2
  <1>4. ASSUME NEW u \in s PROVE s \ {u} \in Good
    <2>1. Cardinality(s \ {u}) = Cardinality(s) - 1
      BY <1>1, FS_RemoveElement
    <2>2. s \ {u} \in SUBSET D
      OBVIOUS
    <2>3. Cardinality(s) \in Nat
      BY <1>1, <1>3
    <2>4. Cardinality(s \ {u}) \notin Sizes
      <3> HIDE DEF Sizes
      <3>1. Cardinality(s \ {u}) < k /\ k \in Nat /\ Cardinality(s \ {u}) \in Int
        BY <2>1, <2>3, <1>3
      <3> QED BY <3>1, <1>2
    <2> QED BY <2>2, <2>4
  <1>5. s \in SUBSET D /\ s \notin Good
    BY <1>3
  <1> QED BY <1>4, <1>5

---------------------------------------------------------------------------
(* Sums *)

\* The sums of f over the subsets of D, by the recursion that the folds of the
\* community modules are defined with.
Sums(f, D) ==
  CHOOSE sums : sums = [s \in SUBSET D |->
      IF s = {} THEN 0
      ELSE f[CHOOSE x \in s : TRUE] + sums[s \ {CHOOSE x \in s : TRUE}]]

\* The recursion has a solution on the subsets of a finite set, which says how
\* some member is added last.
LEMMA SumsDefined ==
  ASSUME NEW D, IsFiniteSet(D), NEW f
  PROVE  /\ Sums(f, D)[{}] = 0
         /\ \A s \in SUBSET D : s # {} =>
               \E u \in s : Sums(f, D)[s] = f[u] + Sums(f, D)[s \ {u}]
  <1> DEFINE one(s) == CHOOSE x \in s : TRUE
             upTo(k) == {s \in SUBSET D : Cardinality(s) <= k}
             Adds(g, S) == g = [s \in S |-> IF s = {} THEN 0 ELSE f[one(s)] + g[s \ {one(s)}]]
             Good == {k \in Nat : \E g : Adds(g, upTo(k))}
  <1>1. \A s \in SUBSET D : /\ IsFiniteSet(s) /\ Cardinality(s) \in Nat
                            /\ Cardinality(s) <= Cardinality(D)
    BY FS_Subset, FS_CardinalityType
  <1>2. ASSUME NEW s \in SUBSET D, s # {}
        PROVE  /\ one(s) \in s /\ s \ {one(s)} \in SUBSET D
               /\ Cardinality(s \ {one(s)}) = Cardinality(s) - 1
    BY <1>1, <1>2, FS_RemoveElement
  <1>3. 0 \in Good
    <2> DEFINE g == [s \in upTo(0) |-> 0]
    <2>1. \A s \in upTo(0) : s = {}
      BY <1>1, FS_EmptySet
    <2>2. g = [s \in upTo(0) |-> IF s = {} THEN 0 ELSE f[one(s)] + g[s \ {one(s)}]]
      BY <2>1
    <2> QED BY <2>2
  <1>4. ASSUME NEW k \in Nat, k \in Good PROVE k + 1 \in Good
    <2>1. PICK g : Adds(g, upTo(k))
      BY <1>4
    <2> DEFINE h == [s \in upTo(k + 1) |-> IF s = {} THEN 0 ELSE f[one(s)] + g[s \ {one(s)}]]
    <2>2. \A s \in upTo(k) : s \in upTo(k + 1) /\ h[s] = g[s]
      <3>1. \A s \in upTo(k) : s \in upTo(k + 1)
        BY <1>1
      <3>2. \A s \in upTo(k) : g[s] = IF s = {} THEN 0 ELSE f[one(s)] + g[s \ {one(s)}]
        BY <2>1
      <3> HIDE DEF upTo, one
      <3> QED BY <3>1, <3>2
    <2>3. \A s \in upTo(k + 1) : s # {} => s \ {one(s)} \in upTo(k)
      <3> TAKE s \in upTo(k + 1)
      <3> HAVE s # {}
      <3> HIDE DEF one
      <3>1. Cardinality(s) \in Nat /\ Cardinality(s) <= k + 1
        BY <1>1
      <3> QED BY <1>2, <3>1
    <2>4. Adds(h, upTo(k + 1))
      <3>1. ASSUME NEW s \in upTo(k + 1)
            PROVE  h[s] = IF s = {} THEN 0 ELSE f[one(s)] + h[s \ {one(s)}]
        <4> HIDE DEF upTo, one
        <4> QED BY <2>2, <2>3
      <3>2. h = [s \in upTo(k + 1) |-> h[s]]
        OBVIOUS
      <3>3. h = [s \in upTo(k + 1) |->
                    IF s = {} THEN 0 ELSE f[one(s)] + h[s \ {one(s)}]]
        <4> HIDE DEF upTo, one, h
        <4> QED BY <3>1, <3>2, Zenon
      <3> QED BY <3>3
    <2> HIDE DEF Adds, upTo, h
    <2> QED BY <2>4
  <1>5. Cardinality(D) \in Good
    <2> HIDE DEF Good
    <2>1. Nat \subseteq Good
      BY <1>3, <1>4, NaturalsAreGood
    <2> QED BY <2>1, FS_CardinalityType
  <1>6. upTo(Cardinality(D)) = SUBSET D
    BY <1>1
  <1>7. \E g : Adds(g, SUBSET D)
    BY <1>5, <1>6
  <1>8. Sums(f, D) = [s \in SUBSET D |->
            IF s = {} THEN 0 ELSE f[one(s)] + Sums(f, D)[s \ {one(s)}]]
    BY <1>7 DEF Sums
  <1> DEFINE S == Sums(f, D)
  <1>9. \A s \in SUBSET D : S[s] = IF s = {} THEN 0 ELSE f[one(s)] + S[s \ {one(s)}]
    <2> HIDE DEF one
    <2>1. S = [s \in SUBSET D |-> IF s = {} THEN 0 ELSE f[one(s)] + S[s \ {one(s)}]]
      BY <1>8, Zenon
    <2> HIDE DEF S
    <2> QED BY <2>1
  <1> HIDE DEF S, one
  <1>10. S[{}] = 0
    BY <1>9
  <1>11. ASSUME NEW s \in SUBSET D, s # {}
         PROVE  \E u \in s : S[s] = f[u] + S[s \ {u}]
    BY <1>2, <1>9, <1>11
  <1> USE DEF S
  <1> QED BY <1>10, <1>11, Zenon

\* A sum of integers is an integer.
LEMMA SumsType ==
  ASSUME NEW D, IsFiniteSet(D), NEW f, \A u \in D : f[u] \in Int
  PROVE  \A s \in SUBSET D : Sums(f, D)[s] \in Int
  <1> DEFINE Good == {s \in SUBSET D : Sums(f, D)[s] \in Int}
  <1>0. \A s \in SUBSET D : s # {} =>
             \E u \in s : Sums(f, D)[s] = f[u] + Sums(f, D)[s \ {u}]
    BY SumsDefined
  <1>1. ASSUME NEW s \in SUBSET D, \A u \in s : s \ {u} \in Good
        PROVE  s \in Good
    <2>1. CASE s = {}
      BY <2>1, SumsDefined
    <2>2. CASE s # {}
      <3>1. PICK u \in s : Sums(f, D)[s] = f[u] + Sums(f, D)[s \ {u}]
        BY <1>0, <2>2
      <3>2. f[u] \in Int /\ Sums(f, D)[s \ {u}] \in Int
        BY <1>1
      <3> QED BY <3>1, <3>2
    <2> QED BY <2>1, <2>2
  <1>2. SUBSET D \subseteq Good
    <2> HIDE DEF Good
    <2> QED BY <1>1, SubsetsAreGood
  <1> QED BY <1>2

\* Any member of a set may be the one that is added last.
LEMMA SumsAdd ==
  ASSUME NEW D, IsFiniteSet(D), NEW f, \A u \in D : f[u] \in Int
  PROVE  \A s \in SUBSET D : \A u \in s : Sums(f, D)[s] = f[u] + Sums(f, D)[s \ {u}]
  <1> DEFINE S == Sums(f, D)
             Good == {s \in SUBSET D : \A u \in s : S[s] = f[u] + S[s \ {u}]}
  <1>1. \A s \in SUBSET D : S[s] \in Int
    BY SumsType, Zenon
  <1>5. \A s \in SUBSET D : s # {} => \E v \in s : S[s] = f[v] + S[s \ {v}]
    BY SumsDefined
  <1> HIDE DEF S
  <1>2. ASSUME NEW s \in SUBSET D, \A u \in s : s \ {u} \in Good
        PROVE  s \in Good
    <2>1. ASSUME NEW u \in s PROVE S[s] = f[u] + S[s \ {u}]
      <3>1. PICK v \in s : S[s] = f[v] + S[s \ {v}]
        BY <1>5
      <3>2. CASE u = v
        BY <3>1, <3>2
      <3>3. CASE u # v
        <4>1. S[s \ {v}] = f[u] + S[(s \ {v}) \ {u}]
          BY <1>2, <3>3
        <4>2. S[s \ {u}] = f[v] + S[(s \ {u}) \ {v}]
          BY <1>2, <3>3
        <4>3. (s \ {v}) \ {u} = (s \ {u}) \ {v}
          OBVIOUS
        <4>4. /\ S[s \ {u}] \in Int /\ S[s \ {v}] \in Int
              /\ S[(s \ {u}) \ {v}] \in Int /\ f[u] \in Int /\ f[v] \in Int
          <5>1. /\ s \ {u} \in SUBSET D /\ s \ {v} \in SUBSET D
                /\ (s \ {u}) \ {v} \in SUBSET D
            OBVIOUS
          <5>2. u \in D /\ v \in D
            OBVIOUS
          <5>3. f[u] \in Int /\ f[v] \in Int
            BY <5>2
          <5>4. /\ S[s \ {u}] \in Int /\ S[s \ {v}] \in Int
                /\ S[(s \ {u}) \ {v}] \in Int
            BY <1>1, <5>1, Zenon
          <5> QED BY <5>3, <5>4
        <4>5. S[(s \ {v}) \ {u}] = S[(s \ {u}) \ {v}]
          BY <4>3
        <4>6. ASSUME NEW a \in Int, NEW b \in Int, NEW c \in Int, NEW d \in Int, NEW e \in Int,
                     NEW x, x = a + b, b = c + e, d = a + e
              PROVE  x = c + d
          BY <4>6
        <4> QED BY <3>1, <4>1, <4>2, <4>4, <4>5, <4>6
      <3> QED BY <3>2, <3>3
    <2> QED BY <2>1
  <1>3. SUBSET D \subseteq Good
    <2> HIDE DEF Good
    <2> QED BY <1>2, SubsetsAreGood
  <1>4. \A s \in SUBSET D : \A u \in s : S[s] = f[u] + S[s \ {u}]
    BY <1>3
  <1> QED BY <1>4 DEF S

\* The sum is a function of the values on the set.
LEMMA SumsAgree ==
  ASSUME NEW D, IsFiniteSet(D),
         NEW f, \A u \in D : f[u] \in Int, NEW g, \A u \in D : g[u] \in Int,
         NEW t \in SUBSET D, \A u \in t : f[u] = g[u]
  PROVE  Sums(f, D)[t] = Sums(g, D)[t]
  <1>f. ASSUME NEW s \in SUBSET D, NEW u \in s
        PROVE  Sums(f, D)[s] = f[u] + Sums(f, D)[s \ {u}]
    BY SumsAdd
  <1>g. ASSUME NEW s \in SUBSET D, NEW u \in s
        PROVE  Sums(g, D)[s] = g[u] + Sums(g, D)[s \ {u}]
    BY SumsAdd
  <1>0. Sums(f, D)[{}] = 0 /\ Sums(g, D)[{}] = 0
    BY SumsDefined
  <1> DEFINE F == Sums(f, D)
             G == Sums(g, D)
             Good == {s \in SUBSET D : s \subseteq t => F[s] = G[s]}
  <1>1. /\ F[{}] = 0 /\ G[{}] = 0
        /\ \A s \in SUBSET D : \A u \in s : F[s] = f[u] + F[s \ {u}]
        /\ \A s \in SUBSET D : \A u \in s : G[s] = g[u] + G[s \ {u}]
    BY <1>f, <1>g, <1>0
  <1> HIDE DEF F, G
  <1>2. ASSUME NEW s \in SUBSET D, \A u \in s : s \ {u} \in Good
        PROVE  s \in Good
    <2>1. CASE s = {}
      BY <1>1, <2>1
    <2>2. ASSUME s # {}, s \subseteq t PROVE F[s] = G[s]
      <3>1. PICK u \in s : TRUE
        BY <2>2
      <3>2. F[s] = f[u] + F[s \ {u}] /\ G[s] = g[u] + G[s \ {u}]
        BY <1>1
      <3>3. F[s \ {u}] = G[s \ {u}]
        BY <1>2, <2>2
      <3>4. f[u] = g[u]
        BY <2>2
      <3> QED BY <3>2, <3>3, <3>4
    <2> QED BY <2>1, <2>2
  <1>3. SUBSET D \subseteq Good
    <2> HIDE DEF Good
    <2> QED BY <1>2, SubsetsAreGood
  <1>4. F[t] = G[t]
    BY <1>3
  <1> QED BY <1>4 DEF F, G

\* Changing one value changes the sum by the difference.
LEMMA SumsChange ==
  ASSUME NEW D, IsFiniteSet(D),
         NEW f, \A u \in D : f[u] \in Int, NEW g, \A u \in D : g[u] \in Int,
         NEW v \in D, \A u \in D \ {v} : f[u] = g[u]
  PROVE  Sums(g, D)[D] = Sums(f, D)[D] - f[v] + g[v]
  <1>1. /\ Sums(f, D)[D] = f[v] + Sums(f, D)[D \ {v}]
        /\ Sums(g, D)[D] = g[v] + Sums(g, D)[D \ {v}]
    BY SumsAdd
  <1>2. Sums(f, D)[D \ {v}] = Sums(g, D)[D \ {v}]
    BY SumsAgree
  <1>3. Sums(f, D)[D \ {v}] \in Int
    BY SumsType
  <1>4. f[v] \in Int /\ g[v] \in Int
    OBVIOUS
  <1> QED BY <1>1, <1>2, <1>3, <1>4

\* A sum of natural numbers is one, and zero if all of them are.
LEMMA SumsNat ==
  ASSUME NEW D, IsFiniteSet(D), NEW f, \A u \in D : f[u] \in Nat
  PROVE  /\ \A s \in SUBSET D : Sums(f, D)[s] \in Nat
         /\ (\A u \in D : f[u] = 0) => Sums(f, D)[D] = 0
  <1>0. \A u \in D : f[u] \in Int
    OBVIOUS
  <1>1. Sums(f, D)[{}] = 0
    BY SumsDefined
  <1>2. ASSUME NEW s \in SUBSET D, NEW u \in s
        PROVE  Sums(f, D)[s] = f[u] + Sums(f, D)[s \ {u}]
    BY <1>0, SumsAdd
  <1> DEFINE F == Sums(f, D)
             Good == {s \in SUBSET D : /\ F[s] \in Nat
                                       /\ (\A u \in D : f[u] = 0) => F[s] = 0}
  <1>8. /\ F[{}] = 0
        /\ \A s \in SUBSET D : \A u \in s : F[s] = f[u] + F[s \ {u}]
    BY <1>1, <1>2
  <1> HIDE DEF F
  <1>3. ASSUME NEW s \in SUBSET D, \A u \in s : s \ {u} \in Good
        PROVE  s \in Good
    <2>1. CASE s = {}
      BY <1>8, <2>1
    <2>2. CASE s # {}
      <3>1. PICK u \in s : TRUE
        BY <2>2
      <3>2. F[s] = f[u] + F[s \ {u}] /\ f[u] \in Nat
        BY <1>8
      <3>3. /\ F[s \ {u}] \in Nat
            /\ (\A w \in D : f[w] = 0) => F[s \ {u}] = 0 /\ f[u] = 0
        BY <1>3
      <3> QED BY <3>2, <3>3
    <2> QED BY <2>1, <2>2
  <1>4. SUBSET D \subseteq Good
    <2> HIDE DEF Good
    <2> QED BY <1>3, SubsetsAreGood
  <1>5. \A s \in SUBSET D : F[s] \in Nat
    BY <1>4
  <1>6. D \in Good
    BY <1>4
  <1>7. (\A u \in D : f[u] = 0) => F[D] = 0
    BY <1>6
  <1> QED BY <1>5, <1>7 DEF F

---------------------------------------------------------------------------
(* Numbers in order *)

\* Fewer members of the set are below a smaller member.
LEMMA BelowGrows ==
  ASSUME NEW S \in SUBSET Nat, IsFiniteSet(S), NEW n \in S
  PROVE  /\ Cardinality(Below(S, n)) \in Nat
         /\ Cardinality(Below(S, n)) < Cardinality(S)
         /\ \A m \in S : m < n => Cardinality(Below(S, m)) < Cardinality(Below(S, n))
  <1>1. ASSUME NEW T, IsFiniteSet(T), NEW R, R \subseteq T, NEW x \in T, x \notin R
        PROVE  /\ Cardinality(R) \in Nat /\ Cardinality(R) < Cardinality(T)
    <2>1. IsFiniteSet(T \ {x}) /\ Cardinality(T \ {x}) = Cardinality(T) - 1
      BY <1>1, FS_RemoveElement
    <2>2. R \subseteq T \ {x}
      BY <1>1
    <2>3. IsFiniteSet(R) /\ Cardinality(R) <= Cardinality(T \ {x})
      BY <2>1, <2>2, FS_Subset
    <2>4. Cardinality(R) \in Nat /\ Cardinality(T) \in Nat
      BY <1>1, <2>3, FS_CardinalityType
    <2> QED BY <2>1, <2>3, <2>4
  <1>2. Below(S, n) \subseteq S /\ n \notin Below(S, n)
    BY DEF Below
  <1>3. IsFiniteSet(Below(S, n))
    BY <1>2, FS_Subset
  <1>4. ASSUME NEW m \in S, m < n
        PROVE  Cardinality(Below(S, m)) < Cardinality(Below(S, n))
    <2>1. Below(S, m) \subseteq Below(S, n) /\ m \in Below(S, n) /\ m \notin Below(S, m)
      <3>1. m \in Nat /\ n \in Nat /\ m < n /\ \A x \in S : x \in Nat
        BY <1>4
      <3>2. \A x \in S : x < m => x < n
        BY <3>1
      <3>3. ~ (m < m)
        BY <3>1
      <3> QED BY <3>1, <3>2, <3>3 DEF Below
    <2> QED BY <1>1, <1>3, <2>1
  <1> QED BY <1>1, <1>2, <1>4

\* A finite set of numbers has a greatest one.
LEMMA FiniteHasGreatest ==
  ASSUME NEW S \in SUBSET Nat, IsFiniteSet(S), S # {}
  PROVE  \E b \in S : \A n \in S : n <= b
  <1> DEFINE C == {Cardinality(Below(S, n)) : n \in S}
  <1>0. S \subseteq Nat /\ Cardinality(S) \in Nat
    BY FS_CardinalityType
  <1>1. PICK b \in S : \A n \in S : Cardinality(Below(S, n)) <= Cardinality(Below(S, b))
    <2>1. \A n \in S : /\ Cardinality(Below(S, n)) \in Nat
                        /\ Cardinality(Below(S, n)) <= Cardinality(S)
      <3> TAKE n \in S
      <3> QED BY <1>0, BelowGrows
    <2>2. C \subseteq Nat /\ C # {} /\ \A c \in C : c <= Cardinality(S)
      BY <2>1
    <2>3. \E c \in C : \A d \in C : d <= c
      <3> HIDE DEF C
      <3> QED BY <2>2, <1>0, GreatestNumber
    <2> QED BY <2>3
  <1>2. ASSUME NEW n \in S PROVE n <= b
    <2>1. n \in Nat /\ b \in Nat
      BY <1>0
    <2>2. CASE b < n
      <3>1. /\ Cardinality(Below(S, b)) < Cardinality(Below(S, n))
            /\ Cardinality(Below(S, b)) \in Nat /\ Cardinality(Below(S, n)) \in Nat
        BY <2>2, BelowGrows
      <3> QED BY <1>1, <3>1
    <2> QED BY <2>1, <2>2
  <1> QED BY <1>2

\* There is one member with k members below it, for every k less than the size.
LEMMA BelowReaches ==
  ASSUME NEW S \in SUBSET Nat, IsFiniteSet(S), NEW k \in Nat, k < Cardinality(S)
  PROVE  \E n \in S : Cardinality(Below(S, n)) = k
  <1> DEFINE H == {n \in S : Cardinality(Below(S, n)) >= k}
  <1>1. S \subseteq Nat /\ Cardinality(S) \in Nat
    BY FS_CardinalityType
  <1>2. S # {}
    BY <1>1, FS_EmptySet
  <1>4. PICK t \in S : \A n \in S : n <= t
    BY <1>2, FiniteHasGreatest
  <1>5. t \in H
    <2>1. S = Below(S, t) \cup {t} /\ t \notin Below(S, t)
      <3>1. \A n \in S : n < t \/ n = t
        BY <1>1, <1>4
      <3>2. ~ (t < t)
        BY <1>1
      <3> QED BY <3>1, <3>2 DEF Below
    <2>2. IsFiniteSet(Below(S, t))
      BY <2>1, FS_Subset
    <2>3. Cardinality(S) = Cardinality(Below(S, t)) + 1
      BY <2>1, <2>2, FS_AddElement
    <2>4. Cardinality(Below(S, t)) \in Nat
      BY <2>2, FS_CardinalityType
    <2> QED BY <2>3, <2>4
  <1>6. PICK n \in H : \A m \in H : n <= m
    <2> H \subseteq Nat /\ H # {}
      BY <1>1, <1>5
    <2> HIDE DEF H
    <2> QED BY LeastNumber
  <1>7. ASSUME Cardinality(Below(S, n)) > k PROVE FALSE
    <2> DEFINE B == Below(S, n)
    <2>1. B \subseteq S /\ IsFiniteSet(B) /\ n \in S /\ n \in Nat /\ \A m \in B : m < n
      <3>1. B \subseteq S
        BY DEF Below
      <3> QED BY <3>1, <1>1, FS_Subset DEF Below
    <2>2. B # {}
      BY <1>7, FS_EmptySet
    <2>3. PICK p \in B : \A m \in B : m <= p
      <3>1. \A m \in B : m \in Nat /\ m <= n
        <4> TAKE m \in B
        <4> HIDE DEF B
        <4> m \in Nat /\ m < n
          BY <1>1, <2>1
        <4> QED BY <2>1
      <3> HIDE DEF B
      <3> QED BY <2>1, <2>2, <3>1, GreatestNumber
    <2>4. B = Below(S, p) \cup {p} /\ p \notin Below(S, p) /\ p \in S /\ p < n
      <3>0. p \in Nat /\ p \in S /\ p < n /\ n \in Nat /\ \A m \in S : m \in Nat
        <4> HIDE DEF B
        <4> QED BY <1>1, <2>1
      <3>1. \A m \in S : m \in B => m < p \/ m = p
        <4> HIDE DEF B
        <4> QED BY <2>3, <3>0
      <3>2. \A m \in S : m < p => m < n
        BY <3>0
      <3>3. ~ (p < p) /\ p \in S /\ p < n
        BY <3>0
      <3> QED BY <3>1, <3>2, <3>3 DEF Below
    <2>5. IsFiniteSet(Below(S, p))
      BY <2>1, <2>4, FS_Subset
    <2>6. Cardinality(B) = Cardinality(Below(S, p)) + 1 /\ Cardinality(Below(S, p)) \in Nat
      BY <2>4, <2>5, FS_AddElement, FS_CardinalityType
    <2>7. p \in H
      BY <1>7, <2>4, <2>6
    <2> QED BY <1>6, <1>1, <2>4, <2>7
  <1>8. Cardinality(Below(S, n)) \in Nat
    BY BelowGrows
  <1> QED BY <1>6, <1>7, <1>8

\* In order, each member once, smaller ones first.
LEMMA InOrderSorts ==
  ASSUME NEW S \in SUBSET Nat, IsFiniteSet(S)
  PROVE  /\ Cardinality(S) \in Nat
         /\ InOrder(S) \in [1 .. Cardinality(S) -> S]
         /\ \A n \in S : \E k \in 1 .. Cardinality(S) : InOrder(S)[k] = n
         /\ \A j, k \in 1 .. Cardinality(S) : j < k => InOrder(S)[j] < InOrder(S)[k]
  <1> DEFINE size == Cardinality(S)
             rank(n) == Cardinality(Below(S, n))
  <1>1. size \in Nat /\ S \subseteq Nat
    BY FS_CardinalityType
  <1>2. \A n \in S : rank(n) \in Nat /\ rank(n) < size
    BY BelowGrows
  <1>3. \A n, m \in S : rank(n) = rank(m) => n = m
    <2> TAKE n, m \in S
    <2> n \in Nat /\ m \in Nat
      BY <1>1
    <2>1. /\ n < m => rank(n) < rank(m)
          /\ m < n => rank(m) < rank(n)
      BY BelowGrows
    <2> QED BY <1>2, <2>1
  <1>4. ASSUME NEW k \in 1 .. size
        PROVE  InOrder(S)[k] \in S /\ rank(InOrder(S)[k]) = k - 1
    <2>1. \E n \in S : rank(n) = k - 1
      <3> k - 1 \in Nat /\ k - 1 < size
        BY <1>1
      <3> QED BY BelowReaches
    <2>2. InOrder(S)[k] = CHOOSE n \in S : rank(n) = k - 1
      BY DEF InOrder
    <2> HIDE DEF rank
    <2> QED BY <2>1, <2>2
  <1>5. InOrder(S) \in [1 .. size -> S]
    BY <1>4 DEF InOrder
  <1>6. ASSUME NEW n \in S PROVE \E k \in 1 .. size : InOrder(S)[k] = n
    <2>1. rank(n) + 1 \in 1 .. size
      BY <1>1, <1>2
    <2>2. rank(InOrder(S)[rank(n) + 1]) = rank(n) /\ InOrder(S)[rank(n) + 1] \in S
      BY <1>4, <2>1, <1>2
    <2> QED BY <1>3, <2>1, <2>2
  <1>7. ASSUME NEW j \in 1 .. size, NEW k \in 1 .. size, j < k
        PROVE  InOrder(S)[j] < InOrder(S)[k]
    <2> DEFINE a == InOrder(S)[j]
               b == InOrder(S)[k]
    <2>1. a \in S /\ b \in S /\ a \in Nat /\ b \in Nat /\ rank(a) = j - 1 /\ rank(b) = k - 1
      BY <1>1, <1>4
    <2>2. b < a => rank(b) < rank(a)
      BY <2>1, BelowGrows
    <2> HIDE DEF a, b, rank
    <2>3. ~ (b < a) /\ a # b
      BY <1>1, <1>7, <2>1, <2>2
    <2>4. a < b
      BY <2>1, <2>3
    <2> QED BY <2>4 DEF a, b
  <1> QED BY <1>1, <1>5, <1>6, <1>7
=============================================================================
