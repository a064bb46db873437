------------------------- MODULE SmallParts_proofs -------------------------
(***************************************************************************)
(* Proofs about the parts that stand alone, in this order:                 *)
(*   - the square root and the graduation threshold made of it             *)
(*     (MCCurveMath), for every price: the loop of isqrt stops at the root *)
(*     because its guesses fall until they do and never pass the root;     *)
(*   - a vesting lock (VestingLocks) never pays ahead of its schedule and  *)
(*     always holds the rest, because the schedule only rises;             *)
(*   - who may act: one price relayer and one GraduationCap that works     *)
(*     (GraduationAuthority), and keys that stay with the sessions, the    *)
(*     owners and the builds they belong to (SessionKeys);                 *)
(*   - what a content bounty (ContentBounty) is charged is entered, missed *)
(*     or about to be entered, and the poller's ledger shrinks with every  *)
(*     call, so only what it cannot see exceeds the budget;                *)
(*   - a published price (PricePublisher) is a median that the other       *)
(*     quotes confirm, so one broken source does not move it far;          *)
(*   - an order (TrancheOrders) that nothing excuses is bought by one page *)
(*     at a time, from the count in the store, so it keeps its limit, and  *)
(*     what is cancelled stays out of the store;                           *)
(*   - the union-find of bundle detection (TokenBundles) keeps whole the   *)
(*     sets of wallets that have all or nothing of every group, and no     *)
(*     others, so its clusters are what the groups connect.                *)
(***************************************************************************)
EXTENDS MCSmallParts, Numbers_proofs, SequenceTheorems

---------------------------------------------------------------------------
(* The square root *)

\* The states of the iteration, what follows one, and the function isqrt's loop
\* computes.
Pairs(n) == (1 .. n) \X (1 .. n)

Following(n, y) == (y + n \div y) \div 2

RootFrom(n) ==
  CHOOSE step : step = [p \in Pairs(n) |->
      IF p[2] < p[1] THEN step[<<p[2], Following(n, p[2])>>] ELSE p[1]]

LEMMA ISqrtIsRootFrom ==
  ASSUME NEW n
  PROVE  ISqrt(n) = IF n = 0 THEN 0 ELSE RootFrom(n)[<<n, (n + 1) \div 2>>]
  BY DEF ISqrt, RootFrom, Pairs, Following

LEMMA FollowingIsPair ==
  ASSUME NEW n \in Nat, NEW y \in 1 .. n
  PROVE  Following(n, y) \in 1 .. n
<1> DEFINE q == n \div y
<1>1. q \in Nat /\ y * q <= n /\ n < y * q + y
  BY DivBounds
<1>2. q >= 1
  <2>1. SUFFICES ASSUME q = 0 PROVE FALSE
    BY <1>1
  <2>2. y * q = 0
    BY <2>1
  <2>3. QED
    BY <1>1, <2>2
<1>3. q <= n
  <2>1. y * q >= q
    BY <1>1, MulLe
  <2>2. y * q \in Nat
    BY <1>1
  <2>3. QED
    BY <1>1, <2>1, <2>2
<1>4. Following(n, y) = (y + q) \div 2
  BY DEF Following
<1> HIDE DEF q
<1>5. QED
  BY <1>2, <1>3, <1>4, <1>1

\* The loop ends, since x decreases: the recursion has a solution.
LEMMA RootFromDefined ==
  ASSUME NEW n \in Nat
  PROVE  \A x, y \in 1 .. n :
            RootFrom(n)[<<x, y>>] =
                IF y < x THEN RootFrom(n)[<<y, Following(n, y)>>] ELSE x
<1> DEFINE next(p)    == <<p[2], Following(n, p[2])>>
           upTo(k)    == {p \in Pairs(n) : p[1] <= k}
           Loops(g, S) == g = [p \in S |-> IF p[2] < p[1] THEN g[next(p)] ELSE p[1]]
           Good       == {k \in Nat : \E g : Loops(g, upTo(k))}
<1>1. \A p \in Pairs(n) : /\ p[1] \in 1 .. n /\ p[2] \in 1 .. n
                          /\ next(p) \in Pairs(n) /\ next(p)[1] = p[2]
  BY FollowingIsPair DEF Pairs
<1>0. \A p \in Pairs(n) : p[1] \in Nat /\ 1 <= p[1] /\ p[1] <= n
  BY DEF Pairs
<1>2. 0 \in Good
  <2> DEFINE g == [p \in upTo(0) |-> 0]
  <2>1. upTo(0) = {}
    <3> HIDE DEF next
    <3>1. \A p \in Pairs(n) : ~(p[1] <= 0)
      BY <1>0
    <3>2. QED
      BY <3>1
  <2>2. g = [p \in upTo(0) |-> IF p[2] < p[1] THEN g[next(p)] ELSE p[1]]
    BY <2>1
  <2>3. QED
    BY <2>2
<1>3. ASSUME NEW k \in Nat, k \in Good PROVE k + 1 \in Good
  <2>1. PICK g : Loops(g, upTo(k))
    BY <1>3
  <2> DEFINE h == [p \in upTo(k + 1) |-> IF p[2] < p[1] THEN g[next(p)] ELSE p[1]]
  <2>2. \A p \in upTo(k) : p \in upTo(k + 1) /\ h[p] = g[p]
    <3>1. \A p \in upTo(k) : p \in upTo(k + 1)
      <4>1. \A p \in Pairs(n) : p[1] <= k => p[1] <= k + 1
        BY <1>0
      <4>2. QED
        BY <4>1
    <3>2. \A p \in upTo(k) : g[p] = IF p[2] < p[1] THEN g[next(p)] ELSE p[1]
      BY <2>1
    <3> HIDE DEF upTo, next
    <3>3. QED
      BY <3>1, <3>2
  <2>3. \A p \in upTo(k + 1) : p[2] < p[1] => next(p) \in upTo(k)
    <3> TAKE p \in upTo(k + 1)
    <3> HAVE p[2] < p[1]
    <3> HIDE DEF next
    <3>1. QED
      BY <1>1
  <2>4. Loops(h, upTo(k + 1))
    <3>1. ASSUME NEW p \in upTo(k + 1)
          PROVE  h[p] = IF p[2] < p[1] THEN h[next(p)] ELSE p[1]
      <4> HIDE DEF upTo, next
      <4>1. QED
        BY <2>2, <2>3
    <3>2. h = [p \in upTo(k + 1) |-> h[p]]
      OBVIOUS
    <3>3. h = [p \in upTo(k + 1) |-> IF p[2] < p[1] THEN h[next(p)] ELSE p[1]]
      <4> HIDE DEF upTo, next, h
      <4>1. QED
        BY <3>1, <3>2, Zenon
    <3>4. QED
      BY <3>3
  <2> HIDE DEF Loops, upTo, h
  <2>5. QED
    BY <2>4
<1>4. n \in Good
  <2> HIDE DEF Good
  <2>1. Nat \subseteq Good
    BY <1>2, <1>3, NaturalsAreGood
  <2>2. QED
    BY <2>1
<1>5. upTo(n) = Pairs(n)
  BY <1>0
<1>6. \E g : Loops(g, Pairs(n))
  BY <1>4, <1>5
<1>7. RootFrom(n) = [p \in Pairs(n) |-> IF p[2] < p[1] THEN RootFrom(n)[next(p)] ELSE p[1]]
  BY <1>6 DEF RootFrom
<1>8. ASSUME NEW p \in Pairs(n)
      PROVE  RootFrom(n)[p] = IF p[2] < p[1] THEN RootFrom(n)[next(p)] ELSE p[1]
  <2> DEFINE S == RootFrom(n)
  <2>1. S = [q \in Pairs(n) |-> IF q[2] < q[1] THEN S[next(q)] ELSE q[1]]
    BY <1>7, Zenon
  <2> HIDE DEF S, next
  <2>2. S[p] = IF p[2] < p[1] THEN S[next(p)] ELSE p[1]
    BY <2>1
  <2>3. QED
    BY <2>2 DEF S
<1>9. ASSUME NEW x \in 1 .. n, NEW y \in 1 .. n
      PROVE  RootFrom(n)[<<x, y>>] =
                IF y < x THEN RootFrom(n)[<<y, Following(n, y)>>] ELSE x
  <2>1. <<x, y>> \in Pairs(n) /\ <<x, y>>[1] = x /\ <<x, y>>[2] = y
    BY DEF Pairs
  <2>2. QED
    BY <1>8, <2>1
<1>10. QED
  BY <1>9

\* The mean of y and n / y overshoots the root of n.
LEMMA MeanOvershoots ==
  ASSUME NEW n \in Nat \ {0}, NEW y \in 1 .. n
  PROVE  /\ n < (Following(n, y) + 1) * (Following(n, y) + 1)
         /\ Following(n, y) >= y => y * y <= n
<1> DEFINE q == n \div y
           m == (y + q) \div 2
<1>1. q \in Nat /\ y * q <= n /\ n < y * q + y /\ y \in Nat \ {0}
  BY DivBounds
<1>2. Following(n, y) = m
  BY DEF Following
<1> HIDE DEF q
<1>3. m \in Nat /\ 2 * m + 1 >= y + q /\ 2 * m <= y + q
  BY <1>1
<1> HIDE DEF m
<1>4. n < (m + 1) * (m + 1)
  <2> DEFINE s == y + q + 1
             t == 2 * (m + 1)
             d == IF y >= q + 1 THEN y - (q + 1) ELSE (q + 1) - y
  <2>1. s \in Nat /\ t \in Nat /\ s <= t /\ d \in Nat
    BY <1>1, <1>3
  <2>2. s * s <= t * t
    <3>1. s * s <= t * s /\ s * t <= t * t
      BY <2>1, MulLe
    <3>2. s * t = t * s /\ s * s \in Nat /\ t * s \in Nat /\ t * t \in Nat
      BY <2>1
    <3> HIDE DEF s, t
    <3>3. QED
      BY <3>1, <3>2
  <2>3. s * s = 4 * (y * (q + 1)) + d * d
    BY <1>1
  <2>4. d * d \in Nat
    BY <2>1
  <2>5. t * t = 4 * ((m + 1) * (m + 1))
    BY <1>3
  <2>6. y * (q + 1) = y * q + y
    BY <1>1
  <2>7. y * (q + 1) \in Nat /\ (m + 1) * (m + 1) \in Nat
    BY <1>1, <1>3
  <2> DEFINE a == y * (q + 1)
             b == (m + 1) * (m + 1)
             c == d * d
             ss == s * s
             tt == t * t
  <2>8. n < a
    BY <1>1, <2>6
  <2>9. ss = 4 * a + c /\ tt = 4 * b /\ ss <= tt /\ c \in Nat /\ a \in Nat /\ b \in Nat
    BY <2>2, <2>3, <2>4, <2>5, <2>7
  <2> HIDE DEF a, b, c, ss, tt
  <2>10. n < b
    BY <2>8, <2>9
  <2>11. QED
    BY <2>10 DEF b
<1>5. m >= y => y * y <= n
  <2>1. SUFFICES ASSUME m >= y PROVE y * y <= n
    OBVIOUS
  <2>2. y <= q
    BY <1>1, <1>3, <2>1
  <2>3. y * y <= q * y /\ q * y = y * q /\ y * y \in Nat /\ y * q \in Nat
    BY <1>1, <2>2, MulLe
  <2>4. QED
    BY <1>1, <2>3
<1>6. QED
  BY <1>2, <1>4, <1>5

IsRoot(n, r) == r \in Nat /\ r * r <= n /\ n < (r + 1) * (r + 1)

\* From a pair that overshoots, the loop ends on the root.
LEMMA RootFromIsRoot ==
  ASSUME NEW n \in Nat \ {0}
  PROVE  \A x, y \in 1 .. n :
            /\ n < (x + 1) * (x + 1) /\ n < (y + 1) * (y + 1)
            /\ y >= x => x * x <= n
            => IsRoot(n, RootFrom(n)[<<x, y>>])
<1> DEFINE Over(x, y) == /\ n < (x + 1) * (x + 1) /\ n < (y + 1) * (y + 1)
                         /\ y >= x => x * x <= n
           Good == {k \in Nat : \A x, y \in 1 .. n :
                       x <= k /\ Over(x, y) => IsRoot(n, RootFrom(n)[<<x, y>>])}
<1>1. 0 \in Good
  OBVIOUS
<1>2. ASSUME NEW k \in Nat, k \in Good
      PROVE  k + 1 \in Good
  <2>1. ASSUME NEW x \in 1 .. n, NEW y \in 1 .. n, x <= k + 1, Over(x, y)
        PROVE  IsRoot(n, RootFrom(n)[<<x, y>>])
    <3>1. RootFrom(n)[<<x, y>>] =
             IF y < x THEN RootFrom(n)[<<y, Following(n, y)>>] ELSE x
      BY RootFromDefined
    <3>2. CASE y < x
      <4>1. Following(n, y) \in 1 .. n
        BY FollowingIsPair
      <4>2. Over(y, Following(n, y))
        <5>1. /\ n < (Following(n, y) + 1) * (Following(n, y) + 1)
              /\ Following(n, y) >= y => y * y <= n
          BY MeanOvershoots
        <5>2. n < (y + 1) * (y + 1)
          BY <2>1
        <5>3. QED
          BY <5>1, <5>2
      <4>3. y <= k
        BY <2>1, <3>2
      <4> HIDE DEF Over
      <4>4. IsRoot(n, RootFrom(n)[<<y, Following(n, y)>>])
        BY <1>2, <4>1, <4>2, <4>3
      <4>5. QED
        BY <3>1, <3>2, <4>4
    <3>3. CASE ~(y < x)
      BY <2>1, <3>1, <3>3 DEF IsRoot
    <3>4. QED
      BY <3>2, <3>3
  <2> HIDE DEF Over
  <2>2. QED
    BY <2>1
<1>3. n \in Good
  <2> HIDE DEF Good
  <2>1. Nat \subseteq Good
    BY <1>1, <1>2, NaturalsAreGood
  <2>2. QED
    BY <2>1
<1>4. ASSUME NEW x \in 1 .. n, NEW y \in 1 .. n, Over(x, y)
      PROVE  IsRoot(n, RootFrom(n)[<<x, y>>])
  <2> HIDE DEF Over
  <2>1. x <= n
    OBVIOUS
  <2>2. QED
    BY <1>3, <1>4, <2>1
<1>5. QED
  BY <1>4

LEMMA RootOfNatural ==
  ASSUME NEW n \in Nat
  PROVE  IsRoot(n, ISqrt(n))
<1>1. CASE n = 0
  <2>1. ISqrt(n) = 0
    BY <1>1, ISqrtIsRootFrom
  <2>2. IsRoot(0, 0)
    BY DEF IsRoot
  <2>3. QED
    BY <1>1, <2>1, <2>2
<1>2. CASE n # 0
  <2> DEFINE y == (n + 1) \div 2
  <2>1. y \in 1 .. n /\ n \in 1 .. n /\ 2 * y >= n /\ 2 * y <= n + 1
    BY <1>2
  <2>2. ISqrt(n) = RootFrom(n)[<<n, y>>]
    BY <1>2, ISqrtIsRootFrom
  <2> HIDE DEF y
  <2>3. n < (n + 1) * (n + 1)
    BY <1>2
  <2>4. n < (y + 1) * (y + 1)
    <3>1. (y + 1) * (y + 1) = y * y + 2 * y + 1 /\ y * y \in Nat
      BY <2>1
    <3>2. QED
      BY <2>1, <3>1
  <2>5. y >= n => n * n <= n
    <3>1. y >= n => n = 1
      BY <1>2, <2>1
    <3>2. QED
      BY <3>1
  <2>6. QED
    BY <1>2, <2>1, <2>2, <2>3, <2>4, <2>5, RootFromIsRoot
<1>3. QED
  BY <1>1, <1>2

\* isqrt: the loop ends, and on the integer square root, for every argument.
THEOREM RootOfEveryInput == input \in Nat => ISqrtIsRoot
  BY RootOfNatural DEF ISqrtIsRoot, IsRoot

\* A root is no smaller than that of a smaller number.
LEMMA RootMono ==
  ASSUME NEW m \in Nat, NEW n \in Nat, m <= n
  PROVE  ISqrt(m) <= ISqrt(n)
<1> DEFINE r == ISqrt(m)
           s == ISqrt(n)
<1>1. r \in Nat /\ s \in Nat /\ r * r <= m /\ n < (s + 1) * (s + 1)
  BY RootOfNatural DEF IsRoot
<1> HIDE DEF r, s
<1>2. SUFFICES ASSUME s + 1 <= r PROVE FALSE
  BY <1>1 DEF r, s
<1>3. (s + 1) * (s + 1) <= r * (s + 1) /\ (s + 1) * r <= r * r
  BY <1>1, <1>2, MulLe
<1>4. r * (s + 1) = (s + 1) * r /\ r * (s + 1) \in Nat /\ r * r \in Nat
      /\ (s + 1) * (s + 1) \in Nat
  BY <1>1
<1> DEFINE a == (s + 1) * (s + 1)
           b == r * (s + 1)
           c == r * r
<1>5. a <= b /\ b <= c /\ c <= m /\ n < a /\ a \in Nat /\ b \in Nat /\ c \in Nat
  BY <1>1, <1>3, <1>4
<1> HIDE DEF a, b, c
<1>6. QED
  BY <1>5

\* A positive factor can be cancelled.
LEMMA MulLeCancel ==
  ASSUME NEW a \in Nat, NEW b \in Nat, NEW c \in Nat, c > 0, a * c <= b * c
  PROVE  a <= b
<1>1. SUFFICES ASSUME b + 1 <= a PROVE FALSE
  OBVIOUS
<1>2. (b + 1) * c <= a * c /\ (b + 1) * c = b * c + c /\ b * c \in Nat /\ a * c \in Nat
  BY <1>1, MulLe
<1>3. QED
  BY <1>2

\* With a root d of p * P, a root r of A * P, and T the quotient of B * r by d:
\* if d is above 200, then T squared times p is at most a percent above B squared
\* times A,
LEMMA CloseAbove ==
  ASSUME NEW T \in Nat, NEW p \in Nat, NEW P \in Nat, P > 0, NEW d \in Nat, d > 200,
         NEW B \in Nat, NEW A \in Nat, NEW r \in Nat,
         d * T <= B * r, r * r <= A * P, p * P < (d + 1) * (d + 1)
  PROVE  100 * (T * T * p) <= 101 * (B * B * A)
<1> DEFINE dT  == d * T
           Br  == B * r
           TT  == T * T
           BB  == B * B
           AP  == A * P
           pP  == p * P
           dd  == d * d
           rr  == r * r
           d1  == (d + 1) * (d + 1)
<1>1. /\ dT \in Nat /\ Br \in Nat /\ TT \in Nat /\ BB \in Nat /\ AP \in Nat
      /\ pP \in Nat /\ dd \in Nat /\ rr \in Nat /\ d1 \in Nat
  OBVIOUS
<1>2. dT * dT = TT * dd /\ Br * Br = BB * rr
  OBVIOUS
<1>3. (100 * (T * T * p)) * P = 100 * (TT * pP) /\ (101 * (B * B * A)) * P = 101 * (BB * AP)
  OBVIOUS
<1>4. 100 * d1 <= 101 * dd
  <2>1. d1 = dd + 2 * d + 1
    OBVIOUS
  <2>2. 201 * d <= dd
    BY MulLe
  <2> HIDE DEF dd, d1
  <2>3. QED
    BY <1>1, <2>1, <2>2
<1>5. dT <= Br /\ rr <= AP /\ pP <= d1
  <2>1. pP < d1
    OBVIOUS
  <2> HIDE DEF pP, d1
  <2>2. QED
    BY <1>1, <2>1
<1>6. T * T * p \in Nat /\ B * B * A \in Nat
  OBVIOUS
<1> HIDE DEF dT, Br, TT, BB, AP, pP, dd, rr, d1
<1>7. TT * dd <= BB * rr
  <2>1. dT * dT <= Br * dT /\ dT * Br <= Br * Br
    BY <1>1, <1>5, MulLe
  <2>2. Br * dT = dT * Br /\ dT * dT \in Nat /\ Br * dT \in Nat /\ Br * Br \in Nat
    BY <1>1
  <2>3. QED
    BY <1>2, <2>1, <2>2
<1>8. BB * rr <= BB * AP
  <2>1. rr * BB <= AP * BB /\ rr * BB = BB * rr /\ AP * BB = BB * AP
    BY <1>1, <1>5, MulLe
  <2>2. QED
    BY <2>1
<1>9. TT * pP <= TT * d1
  <2>1. pP * TT <= d1 * TT /\ pP * TT = TT * pP /\ d1 * TT = TT * d1
    BY <1>1, <1>5, MulLe
  <2>2. QED
    BY <2>1
<1>10. 100 * (TT * d1) <= 101 * (TT * dd)
  <2>1. (100 * d1) * TT <= (101 * dd) * TT
    BY <1>1, <1>4, MulLe
  <2>2. (100 * d1) * TT = 100 * (TT * d1) /\ (101 * dd) * TT = 101 * (TT * dd)
    BY <1>1
  <2>3. QED
    BY <2>1, <2>2
<1>11. 100 * (TT * pP) <= 101 * (BB * AP)
  <2> DEFINE w == TT * pP
             x == TT * d1
             y == TT * dd
             z == BB * rr
             v == BB * AP
  <2>1. /\ w \in Nat /\ x \in Nat /\ y \in Nat /\ z \in Nat /\ v \in Nat
        /\ w <= x /\ 100 * x <= 101 * y /\ y <= z /\ z <= v
    BY <1>1, <1>7, <1>8, <1>9, <1>10
  <2> HIDE DEF w, x, y, z, v
  <2>2. 100 * w <= 101 * v
    BY <2>1
  <2>3. QED
    BY <2>2 DEF w, v
<1>12. QED
  <2> DEFINE a == 100 * (T * T * p)
             b == 101 * (B * B * A)
  <2>1. a \in Nat /\ b \in Nat /\ a * P <= b * P
    BY <1>3, <1>6, <1>11
  <2> HIDE DEF a, b
  <2>2. a <= b
    BY <2>1, MulLeCancel
  <2>3. QED
    BY <2>2 DEF a, b

\* and if r is, then T + 1 squared times p is at most a percent below.
LEMMA CloseBelow ==
  ASSUME NEW T \in Nat, NEW p \in Nat, NEW P \in Nat, P > 0, NEW d \in Nat,
         NEW B \in Nat, NEW A \in Nat, NEW r \in Nat, r > 200,
         B * r < d * (T + 1), A * P < (r + 1) * (r + 1), d * d <= p * P
  PROVE  99 * (B * B * A) <= 100 * ((T + 1) * (T + 1) * p)
<1> DEFINE dT  == d * (T + 1)
           Br  == B * r
           TT  == (T + 1) * (T + 1)
           BB  == B * B
           AP  == A * P
           pP  == p * P
           dd  == d * d
           rr  == r * r
           r1  == (r + 1) * (r + 1)
<1>1. /\ dT \in Nat /\ Br \in Nat /\ TT \in Nat /\ BB \in Nat /\ AP \in Nat
      /\ pP \in Nat /\ dd \in Nat /\ rr \in Nat /\ r1 \in Nat
  OBVIOUS
<1>2. dT * dT = TT * dd /\ Br * Br = BB * rr
  OBVIOUS
<1>3. (100 * ((T + 1) * (T + 1) * p)) * P = 100 * (TT * pP)
      /\ (99 * (B * B * A)) * P = 99 * (BB * AP)
  OBVIOUS
<1>4. 99 * r1 <= 100 * rr
  <2>1. r1 = rr + 2 * r + 1
    OBVIOUS
  <2>2. 201 * r <= rr
    BY MulLe
  <2> HIDE DEF rr, r1
  <2>3. QED
    BY <1>1, <2>1, <2>2
<1>5. Br <= dT /\ AP <= r1 /\ dd <= pP
  <2>1. Br < dT /\ AP < r1 /\ dd <= pP
    OBVIOUS
  <2> HIDE DEF Br, dT, AP, r1, dd, pP
  <2>2. QED
    BY <1>1, <2>1
<1>6. (T + 1) * (T + 1) * p \in Nat /\ B * B * A \in Nat
  OBVIOUS
<1> HIDE DEF dT, Br, TT, BB, AP, pP, dd, rr, r1
<1>7. BB * rr <= TT * dd
  <2>1. Br * Br <= dT * Br /\ Br * dT <= dT * dT
    BY <1>1, <1>5, MulLe
  <2>2. Br * dT = dT * Br /\ dT * dT \in Nat /\ Br * dT \in Nat /\ Br * Br \in Nat
    BY <1>1
  <2>3. QED
    BY <1>2, <2>1, <2>2
<1>8. BB * AP <= BB * r1
  <2>1. AP * BB <= r1 * BB /\ AP * BB = BB * AP /\ r1 * BB = BB * r1
    BY <1>1, <1>5, MulLe
  <2>2. QED
    BY <2>1
<1>9. TT * dd <= TT * pP
  <2>1. dd * TT <= pP * TT /\ pP * TT = TT * pP /\ dd * TT = TT * dd
    BY <1>1, <1>5, MulLe
  <2>2. QED
    BY <2>1
<1>10. 99 * (BB * r1) <= 100 * (BB * rr)
  <2>1. (99 * r1) * BB <= (100 * rr) * BB
    BY <1>1, <1>4, MulLe
  <2>2. (99 * r1) * BB = 99 * (BB * r1) /\ (100 * rr) * BB = 100 * (BB * rr)
    BY <1>1
  <2>3. QED
    BY <2>1, <2>2
<1>11. 99 * (BB * AP) <= 100 * (TT * pP)
  <2> DEFINE w == TT * pP
             x == BB * r1
             y == TT * dd
             z == BB * rr
             v == BB * AP
  <2>1. /\ w \in Nat /\ x \in Nat /\ y \in Nat /\ z \in Nat /\ v \in Nat
        /\ v <= x /\ 99 * x <= 100 * z /\ z <= y /\ y <= w
    BY <1>1, <1>7, <1>8, <1>9, <1>10
  <2> HIDE DEF w, x, y, z, v
  <2>2. 99 * v <= 100 * w
    BY <2>1
  <2>3. QED
    BY <2>2 DEF w, v
<1>12. QED
  <2> DEFINE a == 99 * (B * B * A)
             b == 100 * ((T + 1) * (T + 1) * p)
  <2>1. a \in Nat /\ b \in Nat /\ a * P <= b * P
    BY <1>3, <1>6, <1>11
  <2> HIDE DEF a, b
  <2>2. a <= b
    BY <2>1, MulLeCancel
  <2>3. QED
    BY <2>2 DEF a, b

\* The numbers that the threshold at a price is computed from.
LEMMA ThresholdParts ==
  ASSUME NEW price \in Nat, price > 0
  PROVE  LET num == ISqrt(PRICE_ANCHOR * PRECISION)
             den == ISqrt(price * PRECISION)
             T   == DampenedGradThreshold(price)
         IN  /\ IsRoot(PRICE_ANCHOR * PRECISION, num) /\ IsRoot(price * PRECISION, den)
             /\ den > 0 /\ T = (BASE_GRAD_MIST * num) \div den /\ T \in Nat
             /\ den * T <= BASE_GRAD_MIST * num /\ BASE_GRAD_MIST * num < den * (T + 1)
<1> DEFINE num == ISqrt(PRICE_ANCHOR * PRECISION)
           den == ISqrt(price * PRECISION)
           T   == DampenedGradThreshold(price)
           b   == BASE_GRAD_MIST * num
<1>1. PRICE_ANCHOR * PRECISION \in Nat /\ price * PRECISION \in Nat
      /\ price * PRECISION >= 1
  <2>1. PRICE_ANCHOR \in Nat /\ PRECISION \in Nat /\ PRECISION >= 1
    BY PriceAssumption
  <2>2. 1 * PRECISION <= price * PRECISION
    BY <2>1, MulLe
  <2>3. QED
    BY <2>1, <2>2
<1>2. IsRoot(PRICE_ANCHOR * PRECISION, num) /\ IsRoot(price * PRECISION, den)
  BY <1>1, RootOfNatural
<1>3. num \in Nat /\ den \in Nat /\ den > 0
  <2>1. num \in Nat /\ den \in Nat /\ price * PRECISION < (den + 1) * (den + 1)
    BY <1>2 DEF IsRoot
  <2>2. den # 0
    BY <1>1, <2>1
  <2>3. QED
    BY <2>1, <2>2
<1>4. T = b \div den
  BY <1>3 DEF DampenedGradThreshold
<1>5. b \in Nat
  BY <1>3, PriceAssumption
<1> HIDE DEF num, den, T, b
<1>6. T \in Nat /\ den * T <= b /\ b < den * T + den
  BY <1>3, <1>4, <1>5, DivBounds
<1>7. den * (T + 1) = den * T + den
  BY <1>3, <1>6
<1>8. QED
  BY <1>2, <1>3, <1>4, <1>6, <1>7 DEF num, den, T, b

\* A scale of 40401 gives every root three digits.
LEMMA ScaledRoot ==
  ASSUME NEW n \in Nat, n > 0, PRECISION >= 40401
  PROVE  n * PRECISION \in Nat /\ ISqrt(n * PRECISION) > 200
<1> DEFINE m == n * PRECISION
           r == ISqrt(m)
<1>1. m \in Nat /\ m >= 40401
  <2>1. PRECISION \in Nat /\ 1 * PRECISION <= n * PRECISION
    BY PriceAssumption, MulLe
  <2>2. QED
    BY <2>1
<1>2. r \in Nat /\ m < (r + 1) * (r + 1)
  <2>1. IsRoot(m, ISqrt(m))
    BY ONLY <1>1, RootOfNatural
  <2>2. QED
    BY ONLY <2>1 DEF IsRoot
<1> HIDE DEF m, r
<1>3. SUFFICES ASSUME r + 1 <= 201 PROVE FALSE
  BY <1>1, <1>2 DEF m, r
<1>4. (r + 1) * (r + 1) <= 201 * (r + 1) /\ 201 * (r + 1) <= 40401
  BY <1>2, <1>3, MulLe
<1>5. QED
  BY <1>1, <1>2, <1>4

\* dampened_grad_threshold: at every price, the threshold is within a percent of
\* BASE * sqrt(anchor / price), and it falls as SUI appreciates, if the roots
\* are scaled by 40401 or more; the code scales them by a million.
THEOREM ThresholdIsDampened ==
  input \in Nat /\ PRECISION >= 40401 => ThresholdFollowsRoot
<1> SUFFICES ASSUME input \in Nat, PRECISION >= 40401, input > 0
             PROVE  ThresholdFollowsRoot
  BY DEF ThresholdFollowsRoot
<1> DEFINE T == DampenedGradThreshold(input)
           U == DampenedGradThreshold(input + 1)
           A == PRICE_ANCHOR
           B == BASE_GRAD_MIST
           P == PRECISION
           r == ISqrt(A * P)
           d == ISqrt(input * P)
           e == ISqrt((input + 1) * P)
           S == B * B * A
<1>1. A \in Nat /\ A > 0 /\ B \in Nat /\ P \in Nat /\ P > 0 /\ S \in Nat
  BY PriceAssumption
<1>2. /\ r > 200 /\ d > 200 /\ A * P \in Nat /\ input * P \in Nat
      /\ (input + 1) * P \in Nat
  BY <1>1, ScaledRoot
<1>3. /\ IsRoot(A * P, r) /\ IsRoot(input * P, d)
      /\ d > 0 /\ T = (B * r) \div d /\ T \in Nat
      /\ d * T <= B * r /\ B * r < d * (T + 1)
  BY ThresholdParts
<1>4. /\ IsRoot((input + 1) * P, e) /\ e > 0 /\ U = (B * r) \div e /\ U \in Nat
      /\ e * U <= B * r
  BY ThresholdParts
<1>5. /\ r \in Nat /\ d \in Nat /\ e \in Nat
      /\ r * r <= A * P /\ A * P < (r + 1) * (r + 1)
      /\ d * d <= input * P /\ input * P < (d + 1) * (d + 1)
  BY <1>3, <1>4 DEF IsRoot
<1> HIDE DEF T, U, A, B, P, r, d, e
<1>6. 100 * (T * T * input) <= 101 * S
  BY <1>1, <1>2, <1>3, <1>5, CloseAbove
<1>7. 99 * S <= 100 * ((T + 1) * (T + 1) * input)
  BY <1>1, <1>2, <1>3, <1>5, CloseBelow
<1>8. U <= T
  <2>1. d <= e
    <3>1. input * P <= (input + 1) * P
      BY <1>1, MulLe
    <3>2. QED
      BY <1>2, <3>1, RootMono DEF d, e
  <2>2. SUFFICES ASSUME T + 1 <= U PROVE FALSE
    BY <1>3, <1>4
  <2>3. d * U <= e * U /\ (T + 1) * d <= U * d
    BY <1>3, <1>4, <1>5, <2>1, <2>2, MulLe
  <2>4. (T + 1) * d = d * (T + 1) /\ U * d = d * U
        /\ d * U \in Nat /\ e * U \in Nat /\ d * (T + 1) \in Nat /\ B * r \in Nat
    BY <1>1, <1>3, <1>4, <1>5
  <2>5. QED
    BY <1>3, <1>4, <2>3, <2>4
<1> DEFINE x == T * T * input
           y == (T + 1) * (T + 1) * input
           f == S \div 100
<1>9. x \in Nat /\ y \in Nat /\ 100 * x <= 101 * S /\ 99 * S <= 100 * y
  BY <1>3, <1>6, <1>7
<1>10. ThresholdFollowsRoot <=> x <= S + f /\ y >= S - f /\ U <= T
  BY DEF ThresholdFollowsRoot, T, U, A, B
<1> HIDE DEF x, y, S
<1>11. x <= S + f /\ y >= S - f
  BY <1>1, <1>9
<1>12. QED
  BY <1>8, <1>10, <1>11

---------------------------------------------------------------------------
(* The vesting locks *)

\* A share of the total, and at most all of it.
LEMMA DueBounds ==
    ASSUME NEW total \in Nat, NEW steps \in Nat, NEW span \in Nat, span > 0
    PROVE  Due(total, steps, span) \in 0 .. total
<1>1. CASE steps >= span
  BY <1>1 DEF Due
<1>2. CASE steps < span
  <2>1. total * steps \in Nat /\ total * steps <= total * span
    BY <1>2, MulLe
  <2>2. (total * steps) \div span \in Nat /\ (total * steps) \div span <= total
    BY <2>1, DivLe, DivBounds
  <2> QED BY <1>2, <2>2 DEF Due
<1> QED BY <1>1, <1>2

\* More steps, no smaller share.
LEMMA DueMonotone ==
    ASSUME NEW total \in Nat, NEW m \in Nat, NEW n \in Nat, m <= n,
           NEW span \in Nat, span > 0
    PROVE  Due(total, m, span) <= Due(total, n, span)
<1>1. CASE n >= span
  <2>1. Due(total, n, span) = total
    BY <1>1 DEF Due
  <2> QED BY <2>1, DueBounds
<1>2. CASE n < span
  <2>1. total * m \in Nat /\ total * n \in Nat /\ total * m <= total * n
    BY MulLe
  <2>2. (total * m) \div span <= (total * n) \div span
    BY <2>1, DivMono
  <2> QED BY <1>2, <2>2 DEF Due
<1> QED BY <1>1, <1>2

\* A lock whose monthly schedule has a month in it.
WellFormed(it) == it \in LockType /\ (it.mode = "monthly" => it.duration >= VEST_30D)

\* Both divisions of the monthly schedule are defined.
LEMMA Months ==
    ASSUME NEW it, WellFormed(it), NEW elapsed \in Nat
    PROVE  /\ elapsed \div MONTH_MS \in Nat
           /\ it.duration \in Nat /\ it.duration > 0 /\ it.total \in Nat
           /\ it.mode = "monthly" =>
                 it.duration \div MONTH_MS \in Nat /\ it.duration \div MONTH_MS > 0
<1>1. it.duration \in Nat /\ it.duration > 0 /\ it.total \in Nat
  <2>1. it.duration \in Durations /\ it.total \in Nat
    BY DEF WellFormed, LockType
  <2>2. Durations \subseteq Nat \ {0}
    BY VestingAssumption
  <2>3. it.duration \in Nat \ {0}
    BY <2>1, <2>2
  <2> QED BY <2>1, <2>3
<1>2. MONTH_MS \in Nat /\ MONTH_MS > 0 /\ VEST_30D \in Nat /\ MONTH_MS <= VEST_30D
  BY VestingAssumption
<1>3. elapsed \div MONTH_MS \in Nat
  BY <1>2, DivBounds
<1>4. ASSUME it.mode = "monthly"
      PROVE  it.duration \div MONTH_MS \in Nat /\ it.duration \div MONTH_MS > 0
  <2>1. it.duration >= MONTH_MS
    BY <1>1, <1>2, <1>4 DEF WellFormed
  <2> DEFINE q == it.duration \div MONTH_MS
  <2>2. q \in Nat /\ it.duration < MONTH_MS * q + MONTH_MS
    BY <1>1, <1>2, DivBounds
  <2> HIDE DEF q
  <2>3. ASSUME q = 0 PROVE FALSE
    <3>1. MONTH_MS * q = 0
      BY <1>2, <2>3
    <3> QED BY <1>1, <1>2, <2>1, <2>2, <3>1
  <2> QED BY <2>2, <2>3 DEF q
<1> QED BY <1>1, <1>3, <1>4

\* What has vested is a part of the total.
LEMMA VestedBounds ==
    ASSUME NEW it, WellFormed(it), NEW at \in Nat
    PROVE  VestedAmount(it, at) \in 0 .. it.total
<1>0. it.start \in Nat /\ it.mode \in Modes
  BY DEF WellFormed, LockType
<1>1. CASE at < it.start
  BY <1>1, Months DEF VestedAmount
<1>2. CASE at >= it.start
  <2> DEFINE elapsed == at - it.start
  <2>1. elapsed \in Nat
    BY <1>0, <1>2
  <2>2. it.duration \in Nat /\ it.duration > 0 /\ it.total \in Nat
    BY <2>1, Months
  <2>3. Due(it.total, elapsed, it.duration) \in 0 .. it.total
    BY <2>1, <2>2, DueBounds
  <2>4. it.mode = "monthly" =>
           Due(it.total, elapsed \div MONTH_MS, it.duration \div MONTH_MS) \in 0 .. it.total
    BY <2>1, <2>2, Months, DueBounds
  <2> QED BY <1>0, <1>2, <2>2, <2>3, <2>4 DEF VestedAmount, Modes
<1> QED BY <1>0, <1>1, <1>2

\* It never falls.
LEMMA VestedMonotone ==
    ASSUME NEW it, WellFormed(it),
           NEW at \in Nat, NEW later \in Nat, at <= later
    PROVE  VestedAmount(it, at) <= VestedAmount(it, later)
<1>0. it.start \in Nat /\ it.mode \in Modes
  BY DEF WellFormed, LockType
<1>1. CASE at < it.start
  <2>1. VestedAmount(it, at) = 0
    BY <1>1 DEF VestedAmount
  <2> QED BY <2>1, VestedBounds
<1>2. CASE at >= it.start
  <2> DEFINE m == at - it.start
             n == later - it.start
  <2>1. m \in Nat /\ n \in Nat /\ m <= n /\ later >= it.start
    BY <1>0, <1>2
  <2>2. it.duration \in Nat /\ it.duration > 0 /\ it.total \in Nat
    BY <2>1, Months
  <2>3. CASE it.mode = "cliff"
    BY <1>0, <1>2, <2>1, <2>2, <2>3 DEF VestedAmount
  <2>4. CASE it.mode = "linear"
    <3>1. Due(it.total, m, it.duration) <= Due(it.total, n, it.duration)
      BY <2>1, <2>2, DueMonotone
    <3> QED BY <1>0, <1>2, <2>1, <2>4, <3>1 DEF VestedAmount
  <2>5. CASE it.mode = "monthly"
    <3>1. MONTH_MS \in Nat /\ MONTH_MS > 0
      BY VestingAssumption
    <3>2. m \div MONTH_MS <= n \div MONTH_MS
      BY <2>1, <3>1, DivMono
    <3>3. /\ m \div MONTH_MS \in Nat /\ n \div MONTH_MS \in Nat
          /\ it.duration \div MONTH_MS \in Nat /\ it.duration \div MONTH_MS > 0
      BY <2>1, <2>5, Months
    <3>4. Due(it.total, m \div MONTH_MS, it.duration \div MONTH_MS)
             <= Due(it.total, n \div MONTH_MS, it.duration \div MONTH_MS)
      BY <2>2, <3>2, <3>3, DueMonotone
    <3> QED BY <1>0, <1>2, <2>1, <2>5, <3>4 DEF VestedAmount
  <2> QED BY <1>0, <2>3, <2>4, <2>5 DEF Modes
<1> QED BY <1>0, <1>1, <1>2

---------------------------------------------------------------------------
(* Steps *)

IInv == VestingTypeOK /\ PaidAsVested

\* The parts of IInv about one lock.
LEMMA OneLock ==
    ASSUME IInv, NEW l \in DOMAIN locks
    PROVE  /\ WellFormed(locks[l]) /\ locks[l].start <= now
           /\ locks[l].claimed <= VestedAmount(locks[l], now)
           /\ locks[l].locked = locks[l].total - locks[l].claimed
           /\ now \in Nat /\ locks \in Seq(LockType) /\ l \in 1 .. Len(locks)
<1>1. locks \in Seq(LockType) /\ l \in 1 .. Len(locks)
  BY LenProperties DEF IInv, VestingTypeOK
<1>2. locks[l] \in LockType
  BY <1>1, ElementOfSeq
<1> QED BY <1>1, <1>2 DEF IInv, VestingTypeOK, PaidAsVested, WellFormed

\* A new lock holds all it will pay.
LEMMA LockStep ==
    ASSUME IInv,
           NEW u \in Holders, NEW amount \in Lots, NEW mode \in Modes,
           NEW duration \in Durations, LockTokens(u, amount, mode, duration)
    PROVE  IInv'
<1> DEFINE it == [beneficiary |-> u, locked |-> amount, total |-> amount, claimed |-> 0,
                  start |-> now, duration |-> duration, mode |-> mode]
<1>1. amount \in Nat /\ amount <= wallet[u] /\ wallet \in [Holders -> Nat] /\ now \in Nat
  BY VestingAssumption DEF LockTokens, IInv, VestingTypeOK
<1>2. wallet' \in [Holders -> Nat] /\ now' = now
  BY <1>1 DEF LockTokens
<1>3. WellFormed(it)
  BY <1>1 DEF WellFormed, LockType, LockTokens, LockAllowed
<1>4. locks \in Seq(LockType) /\ locks' = Append(locks, it)
  BY DEF IInv, VestingTypeOK, LockTokens
<1>5. it \in LockType
  BY <1>3 DEF WellFormed
<1>6. /\ locks' \in Seq(LockType) /\ Len(locks') = Len(locks) + 1
      /\ \A l \in 1 .. Len(locks) : locks'[l] = locks[l]
      /\ locks'[Len(locks) + 1] = it
  BY <1>4, <1>5, AppendProperties
<1>7. DOMAIN locks = 1 .. Len(locks) /\ DOMAIN locks' = 1 .. Len(locks) + 1 /\ Len(locks) \in Nat
  BY <1>4, <1>6, LenProperties
<1>8. 0 <= VestedAmount(it, now)
  BY <1>1, <1>3, VestedBounds
<1>9. it.claimed = 0 /\ it.locked = it.total - it.claimed /\ it.start <= now
  BY <1>1
<1> HIDE DEF it
<1>10. ASSUME NEW l \in DOMAIN locks'
       PROVE  /\ locks'[l].start <= now'
              /\ locks'[l].mode = "monthly" => locks'[l].duration >= VEST_30D
              /\ locks'[l].claimed <= VestedAmount(locks'[l], now')
              /\ locks'[l].locked = locks'[l].total - locks'[l].claimed
  <2>1. CASE l \in DOMAIN locks
    BY <1>2, <1>6, <1>7, <2>1, OneLock DEF WellFormed
  <2>2. CASE l = Len(locks) + 1
    BY <1>2, <1>3, <1>6, <1>8, <1>9, <2>2 DEF WellFormed
  <2> QED BY <1>7, <2>1, <2>2
<1> QED BY <1>1, <1>2, <1>6, <1>10 DEF IInv, VestingTypeOK, PaidAsVested, VestedAmount

\* What a claim changes of a lock.
LEMMA PaidLock ==
    ASSUME NEW it \in LockType, NEW amount \in Nat, amount <= it.locked
    PROVE  LET after == [it EXCEPT !.claimed = it.claimed + amount,
                                   !.locked = it.locked - amount]
           IN  /\ after \in LockType
               /\ after.claimed = it.claimed + amount /\ after.locked = it.locked - amount
               /\ after.total = it.total /\ after.start = it.start
               /\ after.mode = it.mode /\ after.duration = it.duration
<1>1. it.claimed \in Nat /\ it.locked \in Nat
  BY DEF LockType
<1>2. it.claimed + amount \in Nat /\ it.locked - amount \in Nat
  BY <1>1
<1> QED BY <1>2 DEF LockType

\* A claim pays exactly what the schedule has reached, which the lock holds.
LEMMA ClaimStep ==
    ASSUME IInv, NEW l \in DOMAIN locks, ClaimVested(l)
    PROVE  IInv'
<1> DEFINE it     == locks[l]
           amount == Claimable(l)
           vested == VestedAmount(it, now)
           after  == [it EXCEPT !.claimed = it.claimed + amount, !.locked = it.locked - amount]
<1>1. /\ WellFormed(it) /\ it.start <= now /\ it.claimed <= vested
      /\ it.locked = it.total - it.claimed /\ now \in Nat
  BY OneLock
<1>2. it \in LockType /\ it.claimed \in Nat /\ it.total \in Nat /\ it.locked \in Nat
      /\ it.beneficiary \in Holders
  BY <1>1 DEF WellFormed, LockType
<1>3. vested \in 0 .. it.total
  BY <1>1, VestedBounds
<1>4. amount > 0 /\ it.locked >= amount /\ amount = vested - it.claimed /\ amount \in Nat
  BY <1>1, <1>2, <1>3 DEF ClaimVested, Claimable
<1>5. locks' = [locks EXCEPT ![l] = after] /\ now' = now
  BY DEF ClaimVested
<1>6. wallet' \in [Holders -> Nat]
  BY <1>2, <1>4 DEF ClaimVested, IInv, VestingTypeOK
<1>7. /\ after \in LockType /\ WellFormed(after) /\ after.start = it.start
      /\ after.claimed = vested /\ after.locked = after.total - after.claimed
      /\ VestedAmount(after, now) = vested
  <2> HIDE DEF it, amount, vested
  <2>1. after \in LockType
    BY <1>2, <1>4, PaidLock DEF after
  <2>2. /\ after.claimed = it.claimed + amount /\ after.locked = it.locked - amount
        /\ after.total = it.total /\ after.start = it.start
        /\ after.mode = it.mode /\ after.duration = it.duration
    BY <1>2, <1>4, PaidLock DEF after
  <2> HIDE DEF after
  <2>3. WellFormed(after)
    BY <1>1, <2>1, <2>2 DEF WellFormed
  <2>4. VestedAmount(after, now) = VestedAmount(it, now)
    BY <2>2 DEF VestedAmount
  <2>5. vested = VestedAmount(it, now)
    BY DEF vested
  <2>6. after.claimed = vested /\ after.locked = after.total - after.claimed
    BY <1>1, <1>2, <1>3, <1>4, <2>2
  <2> QED BY <2>1, <2>2, <2>3, <2>4, <2>5, <2>6
<1>8. locks \in Seq(LockType) /\ l \in 1 .. Len(locks)
  BY OneLock
<1> HIDE DEF it, amount, vested, after
<1>9. /\ locks' \in Seq(LockType) /\ DOMAIN locks' = DOMAIN locks
      /\ locks'[l] = after /\ \A k \in DOMAIN locks : k # l => locks'[k] = locks[k]
  BY <1>5, <1>7, <1>8, ExceptSeq
<1>10. ASSUME NEW k \in DOMAIN locks'
       PROVE  /\ locks'[k].start <= now'
              /\ locks'[k].mode = "monthly" => locks'[k].duration >= VEST_30D
              /\ locks'[k].claimed <= VestedAmount(locks'[k], now')
              /\ locks'[k].locked = locks'[k].total - locks'[k].claimed
  <2>1. CASE k = l
    BY <1>1, <1>3, <1>5, <1>7, <1>9, <2>1 DEF WellFormed
  <2>2. CASE k # l
    BY <1>5, <1>9, <2>2, OneLock DEF WellFormed
  <2> QED BY <2>1, <2>2
<1> QED BY <1>1, <1>5, <1>6, <1>9, <1>10 DEF IInv, VestingTypeOK, PaidAsVested, VestedAmount

\* Time only adds to what has vested.
LEMMA ElapseStep ==
    ASSUME IInv, Elapse
    PROVE  IInv'
<1>1. now \in Nat /\ now' \in Nat /\ now <= now'
  <2>1. Times \subseteq Nat
    BY VestingAssumption
  <2> QED BY <2>1 DEF IInv, VestingTypeOK, Elapse
<1>2. locks' = locks /\ wallet' = wallet
  BY DEF Elapse
<1>3. ASSUME NEW l \in DOMAIN locks
      PROVE  locks[l].start <= now' /\ locks[l].claimed <= VestedAmount(locks[l], now')
  <2>1. /\ WellFormed(locks[l]) /\ locks[l].start <= now
        /\ locks[l].claimed <= VestedAmount(locks[l], now)
    BY OneLock
  <2>2. VestedAmount(locks[l], now) <= VestedAmount(locks[l], now')
    BY <1>1, <2>1, VestedMonotone
  <2>3. /\ VestedAmount(locks[l], now) \in Nat /\ VestedAmount(locks[l], now') \in Nat
        /\ locks[l].claimed \in Nat /\ locks[l].start \in Nat
    BY <1>1, <2>1, VestedBounds DEF WellFormed, LockType
  <2> QED BY <1>1, <2>1, <2>2, <2>3
<1> QED BY <1>1, <1>2, <1>3 DEF IInv, VestingTypeOK, PaidAsVested, VestedAmount

---------------------------------------------------------------------------
(* Theorems *)

LEMMA Inductive == VestingSpec => []IInv
<1>1. VestingInit => IInv
  <2> SUFFICES ASSUME VestingInit PROVE IInv
    OBVIOUS
  <2>1. <<>> \in Seq(LockType) /\ DOMAIN locks = {}
    BY EmptySeq DEF VestingInit
  <2> QED BY <2>1, VestingAssumption DEF VestingInit, IInv, VestingTypeOK, PaidAsVested
<1>2. IInv /\ [VestingNext]_vestingVars => IInv'
  <2> SUFFICES ASSUME IInv, [VestingNext]_vestingVars PROVE IInv'
    OBVIOUS
  <2>1. CASE UNCHANGED vestingVars
    BY <2>1 DEF vestingVars, IInv, VestingTypeOK, PaidAsVested, VestedAmount
  <2>2. CASE VestingNext
    BY <2>2, LockStep, ClaimStep, ElapseStep DEF VestingNext
  <2> QED BY <2>1, <2>2
<1> QED BY <1>1, <1>2, PTL DEF VestingSpec

\* Locks and wallets keep their types, and a monthly schedule has a month.
THEOREM VestingTypeCorrect == VestingSpec => []VestingTypeOK
BY Inductive, PTL DEF IInv

\* However claims are spread over time, a lock (lock_tokens, claim_vested) has
\* paid out no more than its schedule allows and holds all the rest.
THEOREM LocksPayAsVested == VestingSpec => []PaidAsVested
BY Inductive, PTL DEF IInv

---------------------------------------------------------------------------
(* The capabilities of a package *)

\* The markers on the AdminCap tell what has been made: one PriceConfig, and
\* one registry, which names the cap minted last.
AuthorityInv ==
    /\ relayerCaps \in {0, 1} /\ minted \in Nat
    /\ "price" \notin markers => relayerCaps = 0
    /\ IF "graduation" \in markers
       THEN minted > 0 /\ registries = <<minted>>
       ELSE minted = 0 /\ registries = <<>>
    /\ package = "none" => markers = {}

LEMMA AuthorityStarts == AuthorityInit => AuthorityInv
  BY DEF AuthorityInit, AuthorityInv

LEMMA AuthorityStep ==
  ASSUME AuthorityInv, [AuthorityNext]_authorityVars
  PROVE  AuthorityInv'
<1> USE DEF AuthorityInv
<1>1. CASE Publish
  BY <1>1 DEF Publish, MintsCap
<1>2. CASE Upgrade
  <2>1. markers' = {} \/ markers' = {"price"}
    BY <1>2 DEF Upgrade
  <2>2. Cardinality({}) = 0 /\ Cardinality({"price"}) = 1
    BY FS_EmptySet, FS_Singleton
  <2> QED
    BY <1>2, <2>1, <2>2 DEF Upgrade
<1>3. CASE CreatePriceConfig
  BY <1>3 DEF CreatePriceConfig
<1>4. CASE InitGraduation
  <2>1. registries' = <<minted + 1>>
    BY <1>4 DEF InitGraduation
  <2> QED
    BY <1>4, <2>1 DEF InitGraduation, MintsCap
<1>5. CASE \E r \in DOMAIN registries : RotateGraduationCap(r)
  <2>1. PICK r \in DOMAIN registries : RotateGraduationCap(r)
    BY <1>5
  <2>2. "graduation" \in markers /\ registries = <<minted>> /\ r = 1
    BY <2>1
  <2>3. registries' = <<minted + 1>>
    BY <2>1, <2>2 DEF RotateGraduationCap
  <2> QED
    BY <2>1, <2>2, <2>3 DEF RotateGraduationCap, MintsCap
<1>6. CASE UNCHANGED authorityVars
  BY <1>6 DEF authorityVars
<1> QED
  BY <1>1, <1>2, <1>3, <1>4, <1>5, <1>6 DEF AuthorityNext

LEMMA AuthorityIsOne == AuthorityInv => OneAuthority
<1> SUFFICES ASSUME AuthorityInv
             PROVE  OneAuthority
  OBVIOUS
<1>1. relayerCaps <= 1
  BY DEF AuthorityInv
<1>2. ASSUME NEW cap \in 1 .. minted
      PROVE  Accepted(cap) <=> cap = minted
  <2>1. registries = <<minted>>
    BY <1>2 DEF AuthorityInv
  <2>2. DOMAIN registries = {1} /\ registries[1] = minted
    BY <2>1
  <2> QED
    BY <2>2 DEF Accepted
<1> QED
  BY <1>1, <1>2 DEF OneAuthority

\* init, create_price_config, init_graduation, rotate_graduation_cap: however
\* a package came to the chain and however often its cap was rotated, one
\* PriceRelayerCap exists and one GraduationCap works.
THEOREM AuthorityIsUnique == AuthoritySpec => []OneAuthority
<1>1. AuthoritySpec => []AuthorityInv
  BY AuthorityStarts, AuthorityStep, PTL DEF AuthoritySpec
<1> QED
  BY <1>1, AuthorityIsOne, PTL

---------------------------------------------------------------------------
(* The keys of sessions *)

Births == Builds \cup {"turnkey"}
Row    == [owner : Owners, session : Nat, isEnclave : BOOLEAN]

KeysTypeOK ==
    /\ born \in Seq(Births)
    /\ enclave \in Nat /\ (enclave # 0 => enclave \in Keys /\ born[enclave] \in Builds)
    /\ pcrs \in Builds /\ pcrs \in accepted
    /\ approved \subseteq Keys
    /\ DOMAIN signers \subseteq Keys /\ signers \in [DOMAIN signers -> Row]
    /\ answered \subseteq [owner : Owners, key : DOMAIN signers, attested : BOOLEAN]
    /\ sessions \in Seq([owner : Owners, key : DOMAIN signers, attested : BOOLEAN])
    /\ gas \subseteq [key : DOMAIN signers, owner : Owners]

\* A row says where its key was born.
RowsTellBirth == \A k \in DOMAIN signers : signers[k].isEnclave <=> born[k] # "turnkey"

\* What was answered is what the row says, and a key made at Turnkey has been
\* given to its row's owner alone.
AnswersFollowRows ==
    \A a \in answered :
        /\ a.attested = signers[a.key].isEnclave
        /\ ~signers[a.key].isEnclave => a.owner = signers[a.key].owner

\* So the gas at such a key is its owner's.
GasIsOwners == \A g \in gas : ~signers[g.key].isEnclave => g.owner = signers[g.key].owner

ApprovedWereAccepted == \A k \in approved : born[k] \in accepted

RowsNameSessions ==
    \A k \in DOMAIN signers : signers[k].session # 0 =>
        /\ signers[k].session \in DOMAIN sessions
        /\ sessions[signers[k].session].key = k

ReturnsGoBack == \A r \in returned : r.from = r.to

AttestedWereAccepted ==
    \A s \in DOMAIN sessions : sessions[s].attested => born[sessions[s].key] \in accepted

KeysInv ==
    /\ KeysTypeOK /\ RowsTellBirth /\ AnswersFollowRows /\ GasIsOwners
    /\ ApprovedWereAccepted /\ RowsNameSessions /\ ReturnsGoBack /\ AttestedWereAccepted

LEMMA KeysStart == KeysInit => KeysInv
  BY KeysAssumption
     DEF KeysInit, KeysInv, KeysTypeOK, RowsTellBirth, AnswersFollowRows, GasIsOwners,
         ApprovedWereAccepted, RowsNameSessions, ReturnsGoBack, AttestedWereAccepted,
         Births, Row, Keys

LEMMA WiderSeq ==
  ASSUME NEW S, NEW T, S \subseteq T, NEW q \in Seq(S)
  PROVE  q \in Seq(T)
<1>1. q \in [1 .. Len(q) -> T] /\ Len(q) \in Nat
  OBVIOUS
<1> QED
  BY <1>1

Session == [owner : Owners, key : DOMAIN signers, attested : BOOLEAN]

\* A session names a key that has a row.
LEMMA SessionsNameKeys ==
  ASSUME KeysTypeOK, NEW s \in DOMAIN sessions
  PROVE  sessions[s] \in Session /\ sessions[s].key \in DOMAIN signers /\ sessions[s].key \in Keys
<1>1. sessions \in Seq(Session)
  BY DEF KeysTypeOK, Session
<1>2. sessions[s] \in Session
  BY <1>1
<1> QED
  BY <1>2 DEF KeysTypeOK, Session

\* A new key leaves the others as they were.
LEMMA NewKey ==
  ASSUME KeysTypeOK, NEW birth \in Births, born' = Append(born, birth)
  PROVE  /\ born' \in Seq(Births) /\ Len(born') = Len(born) + 1
         /\ Keys \subseteq Keys' /\ Len(born') \in Keys' \ Keys
         /\ \A k \in Keys : born'[k] = born[k]
         /\ born'[Len(born')] = birth
  BY DEF KeysTypeOK, Keys

LEMMA EnclaveStep ==
  ASSUME KeysInv, NEW build \in Builds, EnclaveStarts(build) \/ UpdatePcrs(build)
  PROVE  KeysInv'
<1>1. CASE EnclaveStarts(build)
  <2>1. born' = Append(born, build) /\ enclave' = Len(born') /\ build \in Births
    BY <1>1 DEF EnclaveStarts, Births
  <2>2. /\ born' \in Seq(Births) /\ Keys \subseteq Keys' /\ Len(born') \in Keys' \ Keys
        /\ \A k \in Keys : born'[k] = born[k]
        /\ born'[Len(born')] = build
    BY <2>1, NewKey DEF KeysInv
  <2>3. UNCHANGED <<pcrs, approved, accepted, signers, answered, sessions, gas, returned>>
    BY <1>1 DEF EnclaveStarts
  <2>4. KeysTypeOK'
    <3>1. Len(born') \in Nat
      BY <2>2
    <3> QED
      BY <2>1, <2>2, <2>3, <3>1 DEF KeysInv, KeysTypeOK, Row
  <2>5. RowsTellBirth' /\ ApprovedWereAccepted'
    BY <2>2, <2>3 DEF KeysInv, KeysTypeOK, RowsTellBirth, ApprovedWereAccepted
  <2>6. AttestedWereAccepted'
    <3> SUFFICES ASSUME NEW s \in DOMAIN sessions, sessions[s].attested
                 PROVE  born'[sessions[s].key] \in accepted
      BY <2>3 DEF AttestedWereAccepted
    <3>1. sessions[s].key \in Keys
      BY SessionsNameKeys DEF KeysInv
    <3> QED
      BY <2>2, <3>1 DEF KeysInv, AttestedWereAccepted
  <2> QED
    BY <2>3, <2>4, <2>5, <2>6
       DEF KeysInv, AnswersFollowRows, GasIsOwners, RowsNameSessions, ReturnsGoBack
<1>2. CASE UpdatePcrs(build)
  <2>1. /\ pcrs' = build /\ accepted' = accepted \cup {build}
        /\ UNCHANGED <<born, enclave, approved, signers, answered, sessions, gas, returned>>
    BY <1>2 DEF UpdatePcrs
  <2>2. KeysTypeOK'
    BY <2>1 DEF KeysInv, KeysTypeOK, Keys, Row
  <2> QED
    BY <2>1, <2>2
       DEF KeysInv, RowsTellBirth, AnswersFollowRows, GasIsOwners, ApprovedWereAccepted,
           RowsNameSessions, ReturnsGoBack, AttestedWereAccepted
<1> QED
  BY <1>1, <1>2

LEMMA RegistryStep ==
  ASSUME KeysInv, NEW k \in Keys, RegisterEnclaveKey(k) \/ RevokeKey(k)
  PROVE  KeysInv'
<1>1. /\ UNCHANGED <<born, enclave, pcrs, accepted, signers, answered, sessions, gas, returned>>
      /\ approved' \subseteq approved \cup {k}
      /\ k \in approved' => k \in approved \/ born[k] = pcrs
  BY DEF RegisterEnclaveKey, MatchesPcrs, RevokeKey
<1>2. KeysTypeOK'
  BY <1>1 DEF KeysInv, KeysTypeOK, Keys, Row
<1>3. ApprovedWereAccepted'
  BY <1>1 DEF KeysInv, KeysTypeOK, ApprovedWereAccepted
<1> QED
  BY <1>1, <1>2, <1>3
     DEF KeysInv, RowsTellBirth, AnswersFollowRows, GasIsOwners, RowsNameSessions,
         ReturnsGoBack, AttestedWereAccepted

\* A row that is there stays; one that is not is the provisioning owner's.
LEMMA InsertedRow ==
  ASSUME KeysTypeOK, NEW k, NEW o \in Owners, NEW flag \in BOOLEAN,
         signers' = Inserted(k, o, flag)
  PROVE  /\ DOMAIN signers' = DOMAIN signers \cup {k}
         /\ signers' \in [DOMAIN signers' -> Row]
         /\ \A j \in DOMAIN signers : signers'[j] = signers[j]
         /\ k \notin DOMAIN signers =>
                signers'[k] = [owner |-> o, session |-> 0, isEnclave |-> flag]
  BY DEF KeysTypeOK, Inserted, Row

\* A row for k, which is of that origin, is there or new; its answer is o's.
LEMMA ProvisionStep ==
  ASSUME KeysInv, NEW k, NEW o \in Owners, NEW flag \in BOOLEAN,
         born' \in Seq(Births), Keys \subseteq Keys', k \in Keys',
         \A j \in Keys : born'[j] = born[j],
         flag <=> born'[k] # "turnkey",
         flag \/ k \notin DOMAIN signers,
         Provisions(k, o, flag),
         UNCHANGED <<enclave, pcrs, approved, accepted, sessions, gas, returned>>
  PROVE  KeysInv'
<1>1. /\ DOMAIN signers' = DOMAIN signers \cup {k}
      /\ signers' \in [DOMAIN signers' -> Row]
      /\ \A j \in DOMAIN signers : signers'[j] = signers[j]
      /\ k \notin DOMAIN signers =>
             signers'[k] = [owner |-> o, session |-> 0, isEnclave |-> flag]
  BY InsertedRow DEF Provisions, KeysInv
<1>2. answered' \subseteq answered \cup {[owner |-> o, key |-> k, attested |-> flag]}
  BY DEF Provisions
<1>3. RowsTellBirth'
  <2> SUFFICES ASSUME NEW j \in DOMAIN signers'
               PROVE  signers'[j].isEnclave <=> born'[j] # "turnkey"
    BY DEF RowsTellBirth
  <2>1. CASE j \in DOMAIN signers
    BY <1>1, <2>1 DEF KeysInv, KeysTypeOK, RowsTellBirth
  <2>2. CASE j \notin DOMAIN signers
    BY <1>1, <2>2
  <2> QED
    BY <2>1, <2>2
<1>4. signers'[k].isEnclave = flag
  <2>1. k \in DOMAIN signers' /\ signers'[k] \in Row
    BY <1>1
  <2> QED
    BY <1>3, <2>1 DEF RowsTellBirth, Row
<1>5. KeysTypeOK'
  <2>1. enclave # 0 => enclave \in Keys' /\ born'[enclave] \in Builds
    BY DEF KeysInv, KeysTypeOK
  <2>2. approved \subseteq Keys' /\ DOMAIN signers' \subseteq Keys'
    BY <1>1 DEF KeysInv, KeysTypeOK
  <2>3. answered' \subseteq [owner : Owners, key : DOMAIN signers', attested : BOOLEAN]
    BY <1>1, <1>2 DEF KeysInv, KeysTypeOK
  <2>4. sessions \in Seq([owner : Owners, key : DOMAIN signers', attested : BOOLEAN])
    <3>1. Session \subseteq [owner : Owners, key : DOMAIN signers', attested : BOOLEAN]
      BY <1>1 DEF Session
    <3>2. sessions \in Seq(Session)
      BY DEF KeysInv, KeysTypeOK, Session
    <3> QED
      BY <3>1, <3>2, WiderSeq
  <2>5. gas \subseteq [key : DOMAIN signers', owner : Owners]
    BY <1>1 DEF KeysInv, KeysTypeOK
  <2> QED
    BY <1>1, <2>1, <2>2, <2>3, <2>4, <2>5 DEF KeysInv, KeysTypeOK
<1>6. AnswersFollowRows'
  <2> SUFFICES ASSUME NEW a \in answered'
               PROVE  /\ a.attested = signers'[a.key].isEnclave
                      /\ ~signers'[a.key].isEnclave => a.owner = signers'[a.key].owner
    BY DEF AnswersFollowRows
  <2>1. CASE a \in answered
    <3>1. a.key \in DOMAIN signers
      BY <2>1 DEF KeysInv, KeysTypeOK
    <3> QED
      BY <1>1, <2>1, <3>1 DEF KeysInv, AnswersFollowRows
  <2>2. CASE a = [owner |-> o, key |-> k, attested |-> flag]
    BY <1>1, <1>4, <2>2
  <2> QED
    BY <1>2, <2>1, <2>2
<1>7. GasIsOwners'
  BY <1>1 DEF KeysInv, KeysTypeOK, GasIsOwners
<1>8. ApprovedWereAccepted'
  BY DEF KeysInv, KeysTypeOK, ApprovedWereAccepted
<1>9. RowsNameSessions'
  BY <1>1 DEF KeysInv, RowsNameSessions
<1>10. AttestedWereAccepted'
  <2> SUFFICES ASSUME NEW s \in DOMAIN sessions, sessions[s].attested
               PROVE  born'[sessions[s].key] \in accepted
    BY DEF AttestedWereAccepted
  <2>1. sessions[s].key \in Keys
    BY SessionsNameKeys DEF KeysInv
  <2> QED
    BY <2>1 DEF KeysInv, AttestedWereAccepted
<1> QED
  BY <1>3, <1>5, <1>6, <1>7, <1>8, <1>9, <1>10 DEF KeysInv, ReturnsGoBack

\* A key made at Turnkey has no row yet; the enclave's may have one.
LEMMA ProvisioningStep ==
  ASSUME KeysInv, NEW o \in Owners, ProvisionTurnkey(o) \/ ProvisionEnclave(o)
  PROVE  KeysInv'
<1>1. CASE ProvisionTurnkey(o)
  <2>1. born' = Append(born, "turnkey") /\ "turnkey" \in Births
    BY <1>1 DEF ProvisionTurnkey, Births
  <2>2. /\ born' \in Seq(Births) /\ Keys \subseteq Keys' /\ Len(born') \in Keys' \ Keys
        /\ \A k \in Keys : born'[k] = born[k]
        /\ born'[Len(born')] = "turnkey"
    BY <2>1, NewKey DEF KeysInv
  <2>3. Len(born') \notin DOMAIN signers
    BY <2>2 DEF KeysInv, KeysTypeOK
  <2>4. /\ Provisions(Len(born'), o, FALSE)
        /\ UNCHANGED <<enclave, pcrs, approved, accepted, sessions, gas, returned>>
    BY <1>1 DEF ProvisionTurnkey
  <2> DEFINE k == Len(born')
  <2>5. /\ k \in Keys' /\ born'[k] = "turnkey" /\ k \notin DOMAIN signers
        /\ Provisions(k, o, FALSE)
    BY <2>2, <2>3, <2>4
  <2> HIDE DEF k
  <2> QED
    BY <2>2, <2>4, <2>5, ProvisionStep
<1>2. CASE ProvisionEnclave(o)
  <2>1. /\ enclave \in Keys /\ born[enclave] # "turnkey"
        /\ Provisions(enclave, o, TRUE)
        /\ UNCHANGED <<born, enclave, pcrs, approved, accepted, sessions, gas, returned>>
    BY <1>2, KeysAssumption DEF ProvisionEnclave, KeysInv, KeysTypeOK
  <2>2. born' \in Seq(Births) /\ Keys' = Keys
    BY <2>1 DEF KeysInv, KeysTypeOK, Keys
  <2> QED
    BY <2>1, <2>2, ProvisionStep
<1> QED
  BY <1>1, <1>2

LEMMA OpenStep ==
  ASSUME KeysInv, NEW a \in answered, Open(a)
  PROVE  KeysInv'
<1> DEFINE new == [owner |-> a.owner, key |-> a.key, attested |-> a.attested]
<1>1. /\ sessions' = Append(sessions, new)
      /\ gas' = gas \cup {[key |-> a.key, owner |-> a.owner]}
      /\ answered' = answered \ {a} /\ (a.attested => a.key \in approved)
      /\ UNCHANGED <<born, enclave, pcrs, approved, accepted, signers, returned>>
  BY DEF Open
<1>2. a.owner \in Owners /\ a.key \in DOMAIN signers /\ a.attested \in BOOLEAN
  BY DEF KeysInv, KeysTypeOK
<1>3. new \in Session /\ sessions \in Seq(Session)
  BY <1>2 DEF KeysInv, KeysTypeOK, Session
<1>4. new.key = a.key /\ new.attested = a.attested
  OBVIOUS
<1> HIDE DEF new
<1>5. /\ sessions' \in Seq(Session)
      /\ DOMAIN sessions' = DOMAIN sessions \cup {Len(sessions) + 1}
      /\ \A s \in DOMAIN sessions : sessions'[s] = sessions[s]
      /\ sessions'[Len(sessions) + 1] = new
  BY <1>1, <1>3
<1>6. KeysTypeOK'
  BY <1>1, <1>2, <1>5 DEF KeysInv, KeysTypeOK, Session, Keys, Row
<1>7. GasIsOwners'
  BY <1>1, <1>2 DEF KeysInv, GasIsOwners, AnswersFollowRows
<1>8. AnswersFollowRows'
  BY <1>1 DEF KeysInv, AnswersFollowRows
<1>9. RowsNameSessions'
  BY <1>1, <1>5 DEF KeysInv, RowsNameSessions
<1>10. AttestedWereAccepted'
  BY <1>1, <1>4, <1>5 DEF KeysInv, AttestedWereAccepted, ApprovedWereAccepted
<1> QED
  BY <1>1, <1>6, <1>7, <1>8, <1>9, <1>10
     DEF KeysInv, RowsTellBirth, ApprovedWereAccepted, ReturnsGoBack

\* The row that is bound is that of the key the session names.
LEMMA TradeStep ==
  ASSUME KeysInv, NEW s \in DOMAIN sessions, TradeRequested(s)
  PROVE  KeysInv'
<1>1. UNCHANGED <<born, enclave, pcrs, approved, accepted, answered, sessions, gas, returned>>
  BY DEF TradeRequested
<1>2. s \in Nat
  BY DEF KeysInv, KeysTypeOK
<1>3. /\ DOMAIN signers' = DOMAIN signers
      /\ \A k \in DOMAIN signers :
             \/ signers'[k] = signers[k]
             \/ k = sessions[s].key /\ signers'[k] = [signers[k] EXCEPT !.session = s]
  BY DEF TradeRequested, Bindable
<1>4. \A k \in DOMAIN signers :
          /\ signers'[k] \in Row
          /\ signers'[k].owner = signers[k].owner
          /\ signers'[k].isEnclave = signers[k].isEnclave
          /\ \/ signers'[k].session = signers[k].session
             \/ k = sessions[s].key /\ signers'[k].session = s
  BY <1>2, <1>3 DEF KeysInv, KeysTypeOK, Row
<1>5. KeysTypeOK'
  <2>1. signers' \in [DOMAIN signers' -> Row]
    BY <1>3, <1>4 DEF TradeRequested
  <2> QED
    BY <1>1, <1>3, <2>1 DEF KeysInv, KeysTypeOK, Keys
<1>6. RowsNameSessions'
  BY <1>1, <1>3, <1>4 DEF KeysInv, RowsNameSessions
<1>7. RowsTellBirth' /\ AnswersFollowRows' /\ GasIsOwners'
  BY <1>1, <1>3, <1>4 DEF KeysInv, KeysTypeOK, RowsTellBirth, AnswersFollowRows, GasIsOwners
<1> QED
  BY <1>1, <1>5, <1>6, <1>7
     DEF KeysInv, ApprovedWereAccepted, ReturnsGoBack, AttestedWereAccepted

\* Only a key made at Turnkey is swept, and its gas is its row's owner's.
LEMMA SweepStep ==
  ASSUME KeysInv, NEW s \in DOMAIN sessions, SweepSessionGas(s)
  PROVE  KeysInv'
<1>1. PICK k \in RowOf(s) :
          LET there == {g \in gas : g.key = k}
          IN  /\ Sweepable(k) /\ gas' = gas \ there
              /\ returned' = returned \cup
                     {[from |-> g.owner, to |-> signers[k].owner] : g \in there}
              /\ UNCHANGED <<born, enclave, pcrs, approved, accepted, signers, answered,
                             sessions>>
  BY DEF SweepSessionGas
<1>2. ReturnsGoBack'
  BY <1>1 DEF Sweepable, KeysInv, GasIsOwners, ReturnsGoBack
<1>3. KeysTypeOK'
  BY <1>1 DEF KeysInv, KeysTypeOK, Keys
<1> QED
  BY <1>1, <1>2, <1>3
     DEF KeysInv, RowsTellBirth, AnswersFollowRows, GasIsOwners, ApprovedWereAccepted,
         RowsNameSessions, AttestedWereAccepted

LEMMA KeysStep ==
  ASSUME KeysInv, [KeysNext]_keyVars
  PROVE  KeysInv'
<1>1. CASE UNCHANGED keyVars
  BY <1>1 DEF keyVars, KeysInv, KeysTypeOK, RowsTellBirth, AnswersFollowRows, GasIsOwners,
              ApprovedWereAccepted, RowsNameSessions, ReturnsGoBack, AttestedWereAccepted,
              Keys, Row
<1>2. CASE KeysNext
  BY <1>2, EnclaveStep, RegistryStep, ProvisioningStep, OpenStep, TradeStep, SweepStep DEF KeysNext
<1> QED
  BY <1>1, <1>2

\* The bridge, the registry, the enclave and the page, over any number of
\* owners, keys, sessions and builds: a row is bound to a session that names
\* its key, gas goes back to the owner who granted it, and the key of an
\* attested session was born in a build the registry has accepted.
THEOREM KeysStay == KeysSpec => []KeysStayWithOwners
<1>1. KeysSpec => []KeysInv
  BY KeysStart, KeysStep, PTL DEF KeysSpec
<1>2. KeysInv => KeysStayWithOwners
  BY DEF KeysInv, RowsNameSessions, ReturnsGoBack, AttestedWereAccepted, KeysStayWithOwners
<1> QED
  BY <1>1, <1>2, PTL

---------------------------------------------------------------------------
(* The price publisher *)

\* Answers, of which there is at least one, as the publisher sees them.
LEMMA PriceBounds ==
  ASSUME NEW D, IsFiniteSet(D), D # {}, NEW a \in [D -> Nat \ {0}]
  PROVE  /\ Prices(a) \subseteq Nat \ {0}
         /\ Min(Prices(a)) \in Prices(a) /\ Max(Prices(a)) \in Prices(a)
         /\ \A p \in Prices(a) : Min(Prices(a)) <= p /\ p <= Max(Prices(a))
<1>1. DOMAIN a = D
  OBVIOUS
<1>2. Prices(a) \subseteq Nat \ {0} /\ Prices(a) # {}
  BY <1>1 DEF Prices
<1>3. a \in Surjection(D, Prices(a))
  BY <1>1 DEF Prices, Surjection
<1>4. IsFiniteSet(Prices(a))
  BY <1>3, FS_Surjection
<1>5. \E p \in Prices(a) : \A q \in Prices(a) : p >= q
  <2>1. PICK p \in Prices(a) : \A q \in Prices(a) : q <= p
    BY <1>2, <1>4, FiniteHasGreatest
  <2>2. \A q \in Prices(a) : p >= q
    BY <1>2, <2>1
  <2>3. QED
    BY <2>2
<1>6. \E p \in Prices(a) : \A q \in Prices(a) : p <= q
  BY <1>2, LeastNumber
<1>7. /\ Max(Prices(a)) \in Prices(a)
      /\ \A q \in Prices(a) : Max(Prices(a)) >= q
  BY <1>5 DEF Max
<1>8. /\ Min(Prices(a)) \in Prices(a)
      /\ \A q \in Prices(a) : Min(Prices(a)) <= q
  BY <1>6 DEF Min
<1>9. QED
  BY <1>2, <1>7, <1>8

\* For every place there is an answer that takes it when they are put in order.
LEMMA AnswerAt ==
  ASSUME NEW a, IsFiniteSet(DOMAIN a), a \in [DOMAIN a -> Nat \ {0}],
         NEW k \in Nat, k < Cardinality(DOMAIN a)
  PROVE  \E p \in Prices(a) : /\ Cardinality({s \in DOMAIN a : a[s] < p}) <= k
                              /\ k < Cardinality({s \in DOMAIN a : a[s] <= p})
<1> DEFINE below(p) == {s \in DOMAIN a : a[s] < p}
           upTo(p)  == {s \in DOMAIN a : a[s] <= p}
           High     == {p \in Prices(a) : k < Cardinality(upTo(p))}
<1>1. /\ Cardinality(DOMAIN a) \in Nat /\ DOMAIN a # {}
      /\ Prices(a) \subseteq Nat
  <2>1. Cardinality(DOMAIN a) \in Nat /\ DOMAIN a # {}
    BY FS_EmptySet, FS_CardinalityType
  <2>2. QED
    BY <2>1, PriceBounds
<1>2. \A p : /\ IsFiniteSet(below(p)) /\ Cardinality(below(p)) \in Nat
             /\ IsFiniteSet(upTo(p)) /\ Cardinality(upTo(p)) \in Nat
  <2>1. \A p : below(p) \subseteq DOMAIN a /\ upTo(p) \subseteq DOMAIN a
    OBVIOUS
  <2>2. \A S \in SUBSET DOMAIN a : IsFiniteSet(S) /\ Cardinality(S) \in Nat
    BY FS_Subset, FS_CardinalityType
  <2>3. QED
    BY <2>1, <2>2
<1>3. Max(Prices(a)) \in High
  <2> DEFINE m == Max(Prices(a))
  <2>1. m \in Prices(a) /\ \A p \in Prices(a) : p <= m
    BY <1>1, PriceBounds
  <2>2. upTo(m) = DOMAIN a
    BY <1>1, <2>1 DEF Prices
  <2>3. QED
    BY <2>1, <2>2
<1>4. PICK p \in High : \A q \in High : p <= q
  <2>1. High \subseteq Nat /\ High # {}
    BY <1>1, <1>3
  <2> HIDE DEF High
  <2>2. QED
    BY <2>1, LeastNumber
<1>5. Cardinality(below(p)) <= k
  <2>1. CASE below(p) = {}
    BY <2>1, FS_EmptySet
  <2>2. CASE below(p) # {}
    <3> DEFINE Q == {a[s] : s \in below(p)}
    <3>1. p \in Nat /\ \A s \in DOMAIN a : a[s] \in Nat
      BY <1>1
    <3>2. Q \subseteq Nat /\ Q # {} /\ \A q \in Q : q <= p
      BY <2>2, <3>1
    <3>3. PICK q \in Q : \A r \in Q : r <= q
      <4> HIDE DEF Q
      <4>1. QED
        BY <3>1, <3>2, GreatestNumber
    <3>4. q \in Nat /\ q < p /\ q \in Prices(a)
      BY <3>1, <1>1 DEF Prices
    <3>5. upTo(q) = below(p)
      BY <3>1, <3>3, <3>4
    <3>6. q \notin High
      <4> HIDE DEF High
      <4>1. High \subseteq Nat
        BY <1>1 DEF High
      <4>2. QED
        BY <1>4, <3>1, <3>4, <4>1
    <3>7. ~(k < Cardinality(upTo(q)))
      BY <3>4, <3>6
    <3>8. QED
      <4> HIDE DEF below, upTo
      <4>1. QED
        BY <1>2, <3>5, <3>7
  <2>3. QED
    BY <2>1, <2>2
<1>6. QED
  BY <1>4, <1>5

\* The median is between the least and the greatest answer.
LEMMA MedianBetween ==
  ASSUME NEW a, IsFiniteSet(DOMAIN a), DOMAIN a # {}, a \in [DOMAIN a -> Nat \ {0}]
  PROVE  /\ Median(a) \in Nat
         /\ Min(Prices(a)) <= Median(a) /\ Median(a) <= Max(Prices(a))
<1> DEFINE below(p) == Cardinality({s \in DOMAIN a : a[s] < p})
           upTo(p)  == Cardinality({s \in DOMAIN a : a[s] <= p})
           nth(k)   == CHOOSE p \in Prices(a) : below(p) <= k /\ k < upTo(p)
           n        == Cardinality(DOMAIN a)
           lo       == Min(Prices(a))
           hi       == Max(Prices(a))
<1>1. n \in Nat /\ n > 0
  BY FS_EmptySet, FS_CardinalityType
<1>2. lo \in Nat /\ hi \in Nat /\ \A p \in Prices(a) : p \in Nat /\ lo <= p /\ p <= hi
  BY PriceBounds
<1>3. ASSUME NEW k \in Nat, k < n
      PROVE  nth(k) \in Nat /\ lo <= nth(k) /\ nth(k) <= hi
  <2>1. \E p \in Prices(a) : below(p) <= k /\ k < upTo(p)
    <3>1. \E p \in Prices(a) : /\ Cardinality({s \in DOMAIN a : a[s] < p}) <= k
                                /\ k < Cardinality({s \in DOMAIN a : a[s] <= p})
      BY <1>3, AnswerAt
    <3>2. QED
      BY <3>1, Zenon
  <2> HIDE DEF below, upTo
  <2>2. nth(k) \in Prices(a)
    BY <2>1
  <2> HIDE DEF nth
  <2>3. QED
    BY <1>2, <2>2
<1>4. Median(a) = IF n % 2 = 1 THEN nth(n \div 2)
                  ELSE (nth(n \div 2 - 1) + nth(n \div 2)) \div 2
  BY Zenon DEF Median
<1> HIDE DEF nth, n, lo, hi
<1>5. /\ n \div 2 \in Nat /\ n \div 2 < n
      /\ n % 2 # 1 => n \div 2 - 1 \in Nat /\ n \div 2 - 1 < n
  BY <1>1
<1>6. CASE n % 2 = 1
  BY <1>3, <1>4, <1>5, <1>6 DEF lo, hi
<1>7. CASE n % 2 # 1
  <2> DEFINE x == nth(n \div 2 - 1)
             y == nth(n \div 2)
  <2>1. x \in Nat /\ y \in Nat /\ lo <= x /\ lo <= y /\ x <= hi /\ y <= hi
    BY <1>3, <1>5, <1>7
  <2>2. Median(a) = (x + y) \div 2
    BY <1>4, <1>7
  <2> HIDE DEF x, y
  <2>3. (x + y) \div 2 \in Nat /\ lo <= (x + y) \div 2 /\ (x + y) \div 2 <= hi
    BY <1>2, <2>1
  <2>4. QED
    BY <2>2, <2>3 DEF lo, hi
<1>8. QED
  BY <1>6, <1>7

\* With fewer broken sources than answers, an honest one is among them, and a
\* price that is published is within the spread of the market.
LEMMA ConfidentIsClose ==
  ASSUME NEW a \in Answers, market \in Quotes, Confident(a)
  PROVE  /\ Median(a) \in Nat
         /\ Gap([price |-> Median(a), market |-> market, number |-> reading.number + 1]) * 100
              <= MAX_SPREAD * market
<1>1. PICK D \in SUBSET Sources : /\ a \in [D -> Quotes]
                                  /\ \A s \in D \ Broken : a[s] = market
  BY DEF Answers
<1>2. IsFiniteSet(D) /\ DOMAIN a = D /\ a \in [D -> Nat \ {0}] /\ market \in Nat
  BY <1>1, PublisherAssumption, FS_Subset
<1>3. PICK s \in D : s \notin Broken
  <2>1. SUFFICES ASSUME D \subseteq Broken PROVE FALSE
    OBVIOUS
  <2>2. IsFiniteSet(Broken) /\ Cardinality(Broken) \in Nat
    BY PublisherAssumption, FS_Subset, FS_CardinalityType
  <2>3. Cardinality(D) <= Cardinality(Broken) /\ Cardinality(D) \in Nat
    BY <1>2, <2>1, <2>2, FS_Subset, FS_CardinalityType
  <2>4. QED
    BY <1>2, <2>2, <2>3, PublisherAssumption DEF Confident
<1> DEFINE lo == Min(Prices(a))
           hi == Max(Prices(a))
           p  == Median(a)
<1>4. market \in Prices(a)
  BY <1>1, <1>2, <1>3 DEF Prices
<1>5. lo \in Nat /\ hi \in Nat /\ lo <= market /\ market <= hi
  BY <1>2, <1>3, <1>4, PriceBounds
<1>6. p \in Nat /\ lo <= p /\ p <= hi
  BY <1>2, <1>3, MedianBetween
<1>7. (hi - lo) * 100 <= MAX_SPREAD * lo /\ MAX_SPREAD \in Nat
  BY PublisherAssumption DEF Confident
<1> HIDE DEF lo, hi, p
<1> DEFINE gap == IF p > market THEN p - market ELSE market - p
<1>8. gap \in Nat /\ gap <= hi - lo
  BY <1>2, <1>5, <1>6
<1>9. MAX_SPREAD * lo <= MAX_SPREAD * market
  BY <1>2, <1>5, <1>7
<1>10. gap * 100 <= MAX_SPREAD * market
  <2>1. gap * 100 <= (hi - lo) * 100
    BY <1>5, <1>8
  <2>2. MAX_SPREAD * lo \in Nat /\ MAX_SPREAD * market \in Nat
    BY <1>2, <1>5, <1>7
  <2> HIDE DEF gap
  <2>3. QED
    BY <1>5, <1>7, <1>8, <1>9, <2>1, <2>2
<1>11. QED
  BY <1>6, <1>10 DEF Gap, p

ReadingType == [price : Nat, market : Nat, number : Nat]

\* The price of a reading, if it has one, is within the spread of the market.
Close(r) == r.price # 0 => Gap(r) * 100 <= MAX_SPREAD * r.market

\* The reading of a push is newer than what is on chain until a push lands;
\* then no push that is left was built on the cap as it is now.
PublisherInv ==
    /\ market \in Quotes
    /\ publisher \in {"ask", "build", "await"}
    /\ reading \in ReadingType /\ config \in ReadingType /\ capVersion \in Nat
    /\ pushes \subseteq [reading : ReadingType, version : Nat]
    /\ Close(reading) /\ Close(config)
    /\ config.number <= reading.number
    /\ \A p \in pushes :
          /\ Close(p.reading)
          /\ p.reading.number <= reading.number /\ p.version <= capVersion
          /\ Current(p) => config.number < p.reading.number
    /\ publisher = "build" =>
          /\ config.number < reading.number
          /\ \A p \in pushes : p.reading.number < reading.number

LEMMA PublisherStarts == PublisherInit => PublisherInv
  BY DEF PublisherInit, NoReading, PublisherInv, ReadingType, Close

LEMMA PublisherStep ==
  ASSUME PublisherInv, [PublisherNext]_priceVars
  PROVE  PublisherInv'
<1> USE DEF PublisherInv
<1>0. /\ \A r \in ReadingType : r.price \in Nat /\ r.market \in Nat /\ r.number \in Nat
      /\ \A p \in pushes : /\ p.reading \in ReadingType /\ p.version \in Nat
                           /\ p.reading.number \in Nat
      /\ reading.number \in Nat /\ config.number \in Nat
  BY DEF ReadingType
<1>1. CASE MarketMoves
  BY <1>1 DEF MarketMoves, Current, Close, Gap
<1>2. CASE Ask
  <2>1. PICK a \in Answers :
          /\ publisher' = IF Confident(a) THEN "build" ELSE "ask"
          /\ reading' = [price  |-> IF Confident(a) THEN Median(a) ELSE 0,
                         market |-> market,
                         number |-> reading.number + 1]
          /\ UNCHANGED <<market, pushes, capVersion, config>>
    BY <1>2 DEF Ask
  <2>2. market \in Nat
    BY PublisherAssumption
  <2>3. reading' \in ReadingType /\ Close(reading)' /\ reading'.number = reading.number + 1
    <3>1. CASE Confident(a)
      BY <1>0, <2>1, <2>2, <3>1, ConfidentIsClose DEF ReadingType, Close
    <3>2. CASE ~Confident(a)
      BY <1>0, <2>1, <2>2, <3>2 DEF ReadingType, Close
    <3>3. QED
      BY <3>1, <3>2
  <2>4. QED
    BY <1>0, <2>1, <2>3 DEF Current, Close, Gap
<1>3. CASE Build
  <2>1. publisher = "build" /\ publisher' = "await"
        /\ pushes' = pushes \cup {[reading |-> reading, version |-> capVersion]}
        /\ UNCHANGED <<market, reading, capVersion, config>>
    BY <1>3 DEF Build
  <2>2. \A p \in pushes' : p \in pushes \/ (p.reading = reading /\ p.version = capVersion)
    BY <2>1
  <2>3. QED
    BY <1>0, <2>1, <2>2 DEF Current, Close, Gap
<1>4. CASE EndTick
  BY <1>4 DEF EndTick, Current, Close, Gap
<1>5. CASE \E p \in pushes : Land(p)
  <2>1. PICK p \in pushes : Land(p)
    BY <1>5
  <2>2. /\ p.version = capVersion /\ config' = p.reading /\ capVersion' = capVersion + 1
        /\ pushes' \subseteq pushes
        /\ UNCHANGED <<market, publisher, reading>>
    BY <2>1 DEF Land, Current
  <2>3. \A q \in pushes' : ~Current(q)'
    BY <1>0, <2>2 DEF Current
  <2>4. QED
    BY <1>0, <2>2, <2>3 DEF Close, Gap
<1>6. CASE UNCHANGED priceVars
  BY <1>6 DEF priceVars, Current, Close, Gap
<1>7. QED
  BY <1>1, <1>2, <1>3, <1>4, <1>5, <1>6 DEF PublisherNext

\* However late a push lands, and whatever the broken sources answer, the price
\* on chain is within the spread of the market it was read from, and a push
\* that may still land is of a later reading.
THEOREM PriceIsClose == PublisherSpec => []PriceFollowsMarket
<1>1. PublisherInv => PriceFollowsMarket
  BY DEF PublisherInv, PriceFollowsMarket, Close, ReadingType
<1>2. PublisherInv /\ [PublisherNext]_priceVars => PublisherInv'
  BY PublisherStep
<1>3. QED
  BY <1>1, <1>2, PublisherStarts, PTL DEF PublisherSpec

---------------------------------------------------------------------------
(* The reads of the content bounty *)

\* The larger and the smaller of two numbers.
LEMMA MaxOfTwo ==
  ASSUME NEW a \in Int, NEW b \in Int
  PROVE  Max({a, b}) = IF a >= b THEN a ELSE b
  BY DEF Max

LEMMA MinOfTwo ==
  ASSUME NEW a \in Int, NEW b \in Int
  PROVE  Min({a, b}) = IF a <= b THEN a ELSE b
  BY DEF Min

\* A finite set has a subset of every size up to its own.
LEMMA SubsetOfSize ==
  ASSUME NEW S, IsFiniteSet(S), NEW k \in Nat, k <= Cardinality(S)
  PROVE  \E b \in SUBSET S : Cardinality(b) = k
<1> DEFINE Good == {s \in SUBSET S : k <= Cardinality(s) =>
                                        \E b \in SUBSET s : Cardinality(b) = k}
<1>1. ASSUME NEW s \in SUBSET S, \A u \in s : s \ {u} \in Good
      PROVE  s \in Good
  <2>1. SUFFICES ASSUME k < Cardinality(s)
                 PROVE  \E b \in SUBSET s : Cardinality(b) = k
    <3>1. IsFiniteSet(s) /\ Cardinality(s) \in Nat
      BY FS_Subset, FS_CardinalityType
    <3>2. k <= Cardinality(s) => k = Cardinality(s) \/ k < Cardinality(s)
      BY <3>1
    <3>3. QED
      BY <3>2
  <2>2. IsFiniteSet(s) /\ Cardinality(s) \in Nat
    BY FS_Subset, FS_CardinalityType
  <2>3. PICK u : u \in s
    <3>1. s # {}
      BY <2>1, <2>2, FS_EmptySet
    <3>2. QED
      BY <3>1
  <2>4. Cardinality(s \ {u}) = Cardinality(s) - 1
    BY <2>2, <2>3, FS_RemoveElement
  <2>5. s \ {u} \in Good
    BY <1>1, <2>3
  <2>6. k <= Cardinality(s \ {u})
    BY <2>1, <2>2, <2>4
  <2>7. QED
    BY <2>5, <2>6
<1>2. SUBSET S \subseteq Good
  <2> HIDE DEF Good
  <2>1. QED
    BY <1>1, SubsetsAreGood
<1>3. S \in Good
  BY <1>2
<1>4. QED
  BY <1>3

Pending  == {r \in Submitters : submit[r].at # "none"}
Unbilled == {r \in Submitters : submit[r].at = "bill"}

\* A call of the poller costs at most as much as the larger of its two kinds.
Call == Max({PageSize, BatchSize})

TickType == [at : {"sleep", "search", "refresh", "bill-search", "bill-refresh"},
             month : Nat, ledger : Nat, cost : Nat, pages : Nat,
             covered : SUBSET Posts, due : SUBSET Posts]

BountyType ==
    /\ month \in Nat /\ charged \in Nat /\ billed \in Nat /\ missed \in Nat /\ beside \in Nat
    /\ tick \in TickType
    /\ tracked \subseteq Posts
    /\ submit \in [Submitters -> [at : {"none", "fetch", "bill"},
                                  post : Posts \cup {"none"}, month : Nat]]
    /\ \A r \in Submitters : submit[r].at # "none" => submit[r].post \in Posts

\* What is charged is entered, missed or about to be entered; and the reads that
\* are entered or about to be stay below the budget and what may overshoot it.
BountyInv ==
    /\ BountyType
    /\ tick.cost <= Call
    /\ tick.at \notin {"bill-search", "bill-refresh"} => tick.cost = 0
    /\ charged = billed + missed + tick.cost + Cardinality(Unbilled)
    /\ billed + tick.cost + Cardinality(Pending)
         < MonthlyBudget + Call + Cardinality(Submitters) + beside
    /\ Ticking =>
          /\ MonthlyBudget > 0 /\ tick.month <= month
          /\ IF tick.month = month
             THEN tick.ledger > 0 => billed + tick.ledger <= MonthlyBudget + beside
             ELSE billed <= beside

\* The fields of a tick.
LEMMA TickFields ==
  ASSUME BountyType
  PROVE  /\ month \in Nat /\ charged \in Nat /\ billed \in Nat
         /\ missed \in Nat /\ beside \in Nat
         /\ tick.at \in {"sleep", "search", "refresh", "bill-search", "bill-refresh"}
         /\ tick.month \in Nat /\ tick.ledger \in Nat /\ tick.cost \in Nat
         /\ tick.pages \in Nat /\ tick.covered \subseteq Posts /\ tick.due \subseteq Posts
  BY DEF BountyType, TickType

\* The sizes.
LEMMA BountySizes ==
  /\ MonthlyBudget \in Nat /\ MaxMissed \in Nat
  /\ PageSize \in Nat \ {0} /\ BatchSize \in Nat \ {0} /\ Call \in Nat \ {0}
  /\ PageSize <= Call /\ BatchSize <= Call
  /\ IsFiniteSet(Submitters) /\ Cardinality(Submitters) \in Nat
<1>1. PageSize \in Nat \ {0} /\ BatchSize \in Nat \ {0}
      /\ MonthlyBudget \in Nat /\ MaxMissed \in Nat
      /\ IsFiniteSet(Submitters) /\ Cardinality(Submitters) \in Nat
  BY BountyAssumption, FS_CardinalityType
<1>2. Call = IF PageSize >= BatchSize THEN PageSize ELSE BatchSize
  BY <1>1, MaxOfTwo DEF Call
<1>3. QED
  BY <1>1, <1>2

\* The requests under way, and those that have been charged for, are at most all.
LEMMA RequestCounts ==
  /\ Cardinality(Pending) \in Nat /\ Cardinality(Unbilled) \in Nat
  /\ Cardinality(Unbilled) <= Cardinality(Pending)
  /\ Cardinality(Pending) <= Cardinality(Submitters)
<1>1. Unbilled \subseteq Pending /\ Pending \subseteq Submitters
  BY DEF Unbilled, Pending
<1>2. IsFiniteSet(Pending)
  BY <1>1, FS_Subset, BountySizes
<1>3. QED
  BY <1>1, <1>2, FS_Subset, FS_CardinalityType, BountySizes

LEMMA BountyStarts == BountyInit => BountyInv
<1> SUFFICES ASSUME BountyInit PROVE BountyInv
  OBVIOUS
<1>1. Pending = {} /\ Unbilled = {}
  BY DEF BountyInit, NoRequest, Pending, Unbilled
<1>2. Cardinality(Pending) = 0 /\ Cardinality(Unbilled) = 0
  BY <1>1, FS_EmptySet
<1>3. BountyType
  BY DEF BountyInit, NoRequest, Idle, BountyType, TickType
<1>4. QED
  BY <1>2, <1>3, BountySizes DEF BountyInit, Idle, Ticking, BountyInv

\* The poller takes at most BatchSize posts at a time.
LEMMA BatchFits ==
  ASSUME BountyType
  PROVE  Batch \subseteq tick.due /\ IsFiniteSet(Batch) /\ Cardinality(Batch) <= BatchSize
<1> DEFINE size == Min({BatchSize, Cardinality(tick.due)})
<1>1. IsFiniteSet(tick.due) /\ Cardinality(tick.due) \in Nat
  BY BountyAssumption, TickFields, FS_Subset, FS_CardinalityType
<1>2. size \in Nat /\ size <= BatchSize /\ size <= Cardinality(tick.due)
  BY <1>1, BountySizes, MinOfTwo
<1>3. \E b \in SUBSET tick.due : Cardinality(b) = size
  <2> HIDE DEF size
  <2>1. QED
    BY <1>1, <1>2, SubsetOfSize
<1>4. Batch \in SUBSET tick.due /\ Cardinality(Batch) = size
  BY <1>3 DEF Batch
<1>5. QED
  BY <1>1, <1>2, <1>4, FS_Subset

\* A call of the poller costs between one read and Call.
LEMMA CallCosts ==
  ASSUME NEW found, IsFiniteSet(found),
         Cardinality(found) <= PageSize \/ Cardinality(found) <= BatchSize
  PROVE  /\ Max({1, Cardinality(found)}) \in Nat
         /\ Max({1, Cardinality(found)}) <= Call
<1>1. Cardinality(found) \in Nat
  BY FS_CardinalityType
<1>2. Max({1, Cardinality(found)}) =
         IF 1 >= Cardinality(found) THEN 1 ELSE Cardinality(found)
  BY <1>1, MaxOfTwo
<1>3. QED
  BY <1>1, <1>2, BountySizes

\* What is left in the ledger after a call.
LEMMA LedgerLeft ==
  ASSUME BountyType, NEW cost \in Nat
  PROVE  /\ Ledger(cost) \in Nat
         /\ Ledger(cost) > 0 => Ledger(cost) = tick.ledger - cost
<1>1. tick.ledger \in Nat
  BY TickFields
<1>2. QED
  BY <1>1, MaxOfTwo DEF Ledger

\* The steps of the poller that charge nothing and bill nothing.
LEMMA PollerStep ==
  ASSUME BountyInv, TickStarts \/ StopsSearching \/ TickEnds \/ TickDies
  PROVE  BountyInv'
<1>1. Pending' = Pending /\ Unbilled' = Unbilled
  BY DEF TickStarts, StopsSearching, TickEnds, TickDies, Pending, Unbilled
<1>0. /\ month \in Nat /\ charged \in Nat /\ billed \in Nat
      /\ missed \in Nat /\ beside \in Nat
      /\ tick.month \in Nat /\ tick.ledger \in Nat /\ tick.cost \in Nat
  BY TickFields DEF BountyInv
<1>2. \A covered : Refreshing(covered) \subseteq SUBSET Posts
  BY DEF Refreshing, BountyInv, BountyType, TickType
<1>3. CASE TickStarts
  <2>1. PICK at \in {"search", "refresh"}, due \in SUBSET Posts :
          tick' = [Idle EXCEPT !.at = at, !.month = month, !.due = due,
                               !.ledger = MonthlyBudget - billed]
    BY <1>2, <1>3 DEF TickStarts
  <2>2. /\ MonthlyBudget - billed \in Nat /\ MonthlyBudget > 0
        /\ ~Ticking /\ tick.cost = 0
        /\ UNCHANGED <<month, charged, billed, missed, beside, tracked, submit>>
    <3>1. ~Ticking /\ ~(billed >= MonthlyBudget)
          /\ UNCHANGED <<month, charged, billed, missed, beside, tracked, submit>>
      BY <1>3 DEF TickStarts, Frozen, budgetVars
    <3>2. tick.cost = 0
      BY <3>1 DEF Ticking, BountyInv
    <3>3. QED
      BY <1>0, <3>1, <3>2, BountySizes
  <2>3. /\ tick' \in TickType /\ tick'.cost = 0 /\ tick'.month = month
        /\ tick'.ledger = MonthlyBudget - billed
    BY <1>0, <2>1, <2>2 DEF Idle, TickType
  <2>4. BountyType'
    BY <2>2, <2>3 DEF BountyInv, BountyType
  <2>5. QED
    BY <1>0, <1>1, <2>2, <2>3, <2>4, BountySizes, RequestCounts DEF Ticking, BountyInv
<1>4. CASE StopsSearching
  <2>1. PICK due \in SUBSET Posts :
          tick' = [tick EXCEPT !.at = "refresh", !.due = due, !.covered = {}, !.pages = 0]
    BY <1>2, <1>4 DEF StopsSearching
  <2>2. /\ tick.at = "search"
        /\ UNCHANGED <<month, charged, billed, missed, beside, tracked, submit>>
    BY <1>4 DEF StopsSearching, budgetVars
  <2>3. /\ tick' \in TickType /\ tick'.cost = tick.cost /\ tick'.month = tick.month
        /\ tick'.ledger = tick.ledger /\ tick'.at = "refresh"
    BY <2>1 DEF BountyInv, BountyType, TickType
  <2>4. BountyType'
    BY <2>2, <2>3 DEF BountyInv, BountyType
  <2>5. QED
    BY <1>0, <1>1, <2>2, <2>3, <2>4 DEF Ticking, BountyInv
<1>5. CASE TickEnds \/ TickDies
  <2>1. /\ tick' = Idle /\ UNCHANGED <<month, charged, billed, beside, tracked, submit>>
        /\ missed' = missed + tick.cost
    <3>1. CASE TickEnds
      BY <1>0, <3>1 DEF TickEnds, budgetVars, BountyInv
    <3>2. CASE TickDies
      BY <1>0, <3>2 DEF TickDies, Miss, BountyInv
    <3>3. QED
      BY <1>5, <3>1, <3>2
  <2>2. /\ tick' \in TickType /\ tick'.cost = 0 /\ ~Ticking'
    BY <2>1 DEF Idle, TickType, Ticking
  <2>3. BountyType'
    BY <1>0, <2>1, <2>2 DEF BountyInv, BountyType
  <2>4. QED
    BY <1>0, <1>1, <2>1, <2>2, <2>3, BountySizes, RequestCounts DEF BountyInv
<1>6. QED
  BY <1>3, <1>4, <1>5

\* The provider charges for a page of the search, or for a batch.
LEMMA ChargeStep ==
  ASSUME BountyInv, NEW found \in SUBSET Posts, Searches(found) \/ Refreshes(found)
  PROVE  BountyInv'
<1> DEFINE cost == Max({1, Cardinality(found)})
<1>1. Pending' = Pending /\ Unbilled' = Unbilled
  BY DEF Searches, Refreshes, Pending, Unbilled
<1>0. /\ month \in Nat /\ charged \in Nat /\ billed \in Nat
      /\ missed \in Nat /\ beside \in Nat
      /\ tick.month \in Nat /\ tick.ledger \in Nat /\ tick.cost \in Nat
  BY TickFields DEF BountyInv
<1>2. IsFiniteSet(found)
  BY BountyAssumption, FS_Subset
<1>3. Cardinality(found) <= PageSize \/ Cardinality(found) <= BatchSize
  <2>1. CASE Searches(found)
    BY <2>1 DEF Searches
  <2>2. CASE Refreshes(found)
    <3>1. found \subseteq Batch /\ IsFiniteSet(Batch) /\ Cardinality(Batch) <= BatchSize
      BY <2>2, BatchFits DEF Refreshes, BountyInv
    <3>2. Cardinality(found) \in Nat /\ Cardinality(Batch) \in Nat
          /\ Cardinality(found) <= Cardinality(Batch)
      BY <1>2, <3>1, FS_Subset, FS_CardinalityType
    <3>3. QED
      BY <3>1, <3>2, BountySizes
  <2>3. QED
    BY <2>1, <2>2
<1>4. cost \in Nat /\ cost <= Call
  BY <1>2, <1>3, CallCosts
<1>5. /\ charged' = charged + cost /\ tick.ledger > 0 /\ tick.at \in {"search", "refresh"}
      /\ tick'.cost = cost /\ tick'.month = tick.month /\ tick'.ledger = tick.ledger
      /\ tick'.at \in {"bill-search", "bill-refresh"}
      /\ UNCHANGED <<month, billed, missed, beside, tracked, submit>>
  BY DEF Searches, Refreshes, Charge, BountyInv, BountyType, TickType
<1>6. BountyType'
  <2>1. Batch \subseteq tick.due
    BY BatchFits DEF BountyInv
  <2> HIDE DEF cost
  <2>2. \/ tick' = [tick EXCEPT !.at = "bill-search", !.cost = cost, !.pages = @ + 1,
                                !.covered = @ \cup found]
        \/ tick' = [tick EXCEPT !.at = "bill-refresh", !.cost = cost, !.due = @ \ Batch]
    BY DEF Searches, Refreshes, cost
  <2>3. tick \in TickType
    BY DEF BountyInv, BountyType
  <2>4. tick' \in TickType
    <3>1. tick.pages + 1 \in Nat /\ tick.covered \cup found \subseteq Posts
          /\ tick.due \ Batch \subseteq Posts
      BY TickFields DEF BountyInv
    <3>2. CASE tick' = [tick EXCEPT !.at = "bill-search", !.cost = cost, !.pages = @ + 1,
                                    !.covered = @ \cup found]
      BY <1>4, <2>3, <3>1, <3>2 DEF TickType
    <3>3. CASE tick' = [tick EXCEPT !.at = "bill-refresh", !.cost = cost, !.due = @ \ Batch]
      BY <1>4, <2>3, <3>1, <3>3 DEF TickType
    <3>4. QED
      BY <2>2, <3>2, <3>3
  <2>5. charged' \in Nat
    BY <1>0, <1>4, <1>5
  <2>6. QED
    BY <1>5, <2>4, <2>5 DEF BountyInv, BountyType
<1>7. QED
  <2> HIDE DEF cost
  <2>1. QED
    BY <1>0, <1>1, <1>4, <1>5, <1>6, BountySizes, RequestCounts DEF Ticking, BountyInv

\* and the poller enters it.
LEMMA BillStep ==
  ASSUME BountyInv, BillsSearch \/ BillsRefresh
  PROVE  BountyInv'
<1> DEFINE left == Ledger(tick.cost)
<1>1. Pending' = Pending /\ Unbilled' = Unbilled
  BY DEF BillsSearch, BillsRefresh, Pending, Unbilled
<1>0. /\ month \in Nat /\ charged \in Nat /\ billed \in Nat
      /\ missed \in Nat /\ beside \in Nat
      /\ tick.month \in Nat /\ tick.ledger \in Nat /\ tick.cost \in Nat
  BY TickFields DEF BountyInv
<1>2. left \in Nat /\ (left > 0 => left = tick.ledger - tick.cost)
  BY LedgerLeft DEF BountyInv, BountyType, TickType
<1>3. /\ tick'.cost = 0 /\ tick'.ledger = left /\ tick'.month = tick.month
      /\ tick'.at \in {"search", "refresh"} /\ tick.at # "sleep"
      /\ UNCHANGED <<month, charged, beside, submit>>
      /\ \/ tick.month = month /\ billed' = billed + tick.cost /\ missed' = missed
         \/ tick.month # month /\ missed' = missed + tick.cost /\ billed' = billed
  BY DEF BillsSearch, BillsRefresh, Bill, BountyInv, BountyType, TickType
<1>4. BountyType'
  <2> HIDE DEF left
  <2>1. /\ \/ tick' = [tick EXCEPT !.at = "search", !.cost = 0, !.ledger = left]
           \/ tick' = [tick EXCEPT !.at = "refresh", !.cost = 0, !.ledger = left]
        /\ tracked' = tracked \/ tracked' = tracked \cup tick.covered
    BY DEF BillsSearch, BillsRefresh, left
  <2>2. tick \in TickType /\ tracked \subseteq Posts /\ tick.covered \subseteq Posts
    BY TickFields DEF BountyInv, BountyType
  <2>3. tick' \in TickType
    <3>1. CASE tick' = [tick EXCEPT !.at = "search", !.cost = 0, !.ledger = left]
      BY <1>2, <2>2, <3>1 DEF TickType
    <3>2. CASE tick' = [tick EXCEPT !.at = "refresh", !.cost = 0, !.ledger = left]
      BY <1>2, <2>2, <3>2 DEF TickType
    <3>3. QED
      BY <2>1, <3>1, <3>2
  <2>4. billed' \in Nat /\ missed' \in Nat /\ tracked' \subseteq Posts
    BY <1>0, <1>3, <2>1, <2>2
  <2>5. QED
    BY <1>3, <2>3, <2>4 DEF BountyInv, BountyType
<1>5. QED
  <2> HIDE DEF left
  <2>1. QED
    BY <1>0, <1>1, <1>2, <1>3, <1>4, BountySizes, RequestCounts DEF Ticking, BountyInv

\* The requests.  One of them changes its place; the counts change by one.
LEMMA RequestMoves ==
  ASSUME NEW r \in Submitters, NEW old, NEW new, new.at # old.at,
         BountyType, submit[r] = old,
         submit' = [submit EXCEPT ![r] = new]
  PROVE  /\ Cardinality(Pending') =
              IF old.at = "none" THEN Cardinality(Pending) + 1
              ELSE IF new.at = "none" THEN Cardinality(Pending) - 1 ELSE Cardinality(Pending)
         /\ Cardinality(Unbilled') =
              IF new.at = "bill" THEN Cardinality(Unbilled) + 1
              ELSE IF old.at = "bill" THEN Cardinality(Unbilled) - 1
              ELSE Cardinality(Unbilled)
<1>1. IsFiniteSet(Pending) /\ IsFiniteSet(Unbilled)
  BY BountySizes, FS_Subset DEF Pending, Unbilled
<1>2. /\ submit \in [Submitters -> [at : {"none", "fetch", "bill"},
                                    post : Posts \cup {"none"}, month : Nat]]
      /\ submit'[r] = new /\ \A q \in Submitters \ {r} : submit'[q] = submit[q]
  BY DEF BountyType
<1>3. /\ old.at # "none" /\ new.at = "none" => r \in Pending /\ Pending' = Pending \ {r}
      /\ old.at = "none" => r \notin Pending /\ Pending' = Pending \cup {r}
      /\ old.at # "none" /\ new.at # "none" => Pending' = Pending
  BY <1>2 DEF Pending
<1>4. /\ old.at = "bill" => r \in Unbilled /\ Unbilled' = Unbilled \ {r}
      /\ new.at = "bill" => r \notin Unbilled /\ Unbilled' = Unbilled \cup {r}
      /\ old.at # "bill" /\ new.at # "bill" => Unbilled' = Unbilled
  BY <1>2 DEF Unbilled
<1>5. \A S, x : IsFiniteSet(S) =>
        /\ x \in S => Cardinality(S \ {x}) = Cardinality(S) - 1
        /\ x \notin S => Cardinality(S \cup {x}) = Cardinality(S) + 1
  BY FS_AddElement, FS_RemoveElement
<1>6. QED
  BY <1>1, <1>3, <1>4, <1>5

LEMMA RequestStep ==
  ASSUME BountyInv, NEW r \in Submitters,
         \/ \E p \in Posts : SubmitChecks(r, p)
         \/ SubmitFetches(r) \/ SubmitBills(r) \/ SubmitFails(r)
  PROVE  BountyInv'
<1>0. /\ month \in Nat /\ charged \in Nat /\ billed \in Nat
      /\ missed \in Nat /\ beside \in Nat
      /\ tick.month \in Nat /\ tick.ledger \in Nat /\ tick.cost \in Nat
  BY TickFields DEF BountyInv
<1>1. /\ submit \in [Submitters -> [at : {"none", "fetch", "bill"},
                                    post : Posts \cup {"none"}, month : Nat]]
      /\ tick \in TickType /\ tracked \subseteq Posts /\ submit[r].at \in {"none", "fetch", "bill"}
      /\ submit[r].at # "none" => submit[r].post \in Posts
      /\ submit[r].month \in Nat /\ submit[r].post \in Posts \cup {"none"}
  BY DEF BountyInv, BountyType
<1>2. CASE \E p \in Posts : SubmitChecks(r, p)
  <2>1. PICK p \in Posts : SubmitChecks(r, p)
    BY <1>2
  <2>2. /\ submit[r].at = "none"
        /\ submit' = [submit EXCEPT ![r] = [at |-> "fetch", post |-> p, month |-> month]]
        /\ ~(billed >= MonthlyBudget)
        /\ UNCHANGED <<month, charged, billed, missed, beside, tracked, tick>>
    BY <2>1 DEF SubmitChecks, Frozen, budgetVars
  <2>3. BountyType'
    BY <1>0, <1>1, <2>2 DEF BountyInv, BountyType
  <2>4. /\ Cardinality(Pending') = Cardinality(Pending) + 1
        /\ Cardinality(Unbilled') = Cardinality(Unbilled)
    <3> DEFINE new == [at |-> "fetch", post |-> p, month |-> month]
               old == submit[r]
    <3>1. new.at = "fetch" /\ old.at = "none" /\ submit' = [submit EXCEPT ![r] = new]
      BY <2>2
    <3> HIDE DEF new
    <3>2. QED
      BY <3>1, RequestMoves DEF BountyInv
  <2>5. Cardinality(Pending') <= Cardinality(Submitters)
    <3>1. Pending' \subseteq Submitters
      BY DEF Pending
    <3>2. QED
      BY <3>1, BountySizes, FS_Subset
  <2>6. QED
    BY <1>0, <2>2, <2>3, <2>4, <2>5, BountySizes, RequestCounts DEF Ticking, BountyInv
<1>3. CASE SubmitFetches(r)
  <2>1. /\ submit[r].at = "fetch" /\ charged' = charged + 1
        /\ submit' = [submit EXCEPT ![r] = [submit[r] EXCEPT !.at = "bill"]]
        /\ [submit[r] EXCEPT !.at = "bill"].at = "bill"
        /\ UNCHANGED <<month, billed, missed, beside, tracked, tick>>
    BY <1>1, <1>3 DEF SubmitFetches, Charge
  <2>2. BountyType'
    BY <1>0, <1>1, <2>1 DEF BountyInv, BountyType
  <2>3. /\ Cardinality(Pending') = Cardinality(Pending)
        /\ Cardinality(Unbilled') = Cardinality(Unbilled) + 1
    BY <2>1, RequestMoves DEF BountyInv
  <2>4. QED
    BY <1>0, <2>1, <2>2, <2>3, BountySizes, RequestCounts DEF Ticking, BountyInv
<1>4. CASE SubmitBills(r)
  <2>1. /\ submit[r].at = "bill" /\ submit' = [submit EXCEPT ![r] = NoRequest]
        /\ NoRequest.at = "none"
        /\ \/ billed' = billed + 1 /\ missed' = missed
           \/ billed' = billed /\ missed' = missed + 1
        /\ beside' = IF Ticking THEN beside + (billed' - billed) ELSE beside
        /\ tracked' \in {tracked, tracked \cup {submit[r].post}}
        /\ UNCHANGED <<month, charged, tick>>
    BY <1>4 DEF SubmitBills, Bill, NoRequest
  <2>2. BountyType'
    <3>1. tracked' \subseteq Posts
      BY <1>1, <2>1
    <3>2. billed' \in Nat /\ missed' \in Nat /\ beside' \in Nat
      BY <1>0, <2>1
    <3>3. submit' \in [Submitters -> [at : {"none", "fetch", "bill"},
                                      post : Posts \cup {"none"}, month : Nat]]
      BY <1>1, <2>1 DEF NoRequest
    <3>4. QED
      BY <1>0, <1>1, <2>1, <3>1, <3>2, <3>3 DEF BountyInv, BountyType
  <2>3. /\ Cardinality(Pending') = Cardinality(Pending) - 1
        /\ Cardinality(Unbilled') = Cardinality(Unbilled) - 1
    BY <2>1, RequestMoves DEF BountyInv
  <2>4. QED
    BY <1>0, <2>1, <2>2, <2>3, BountySizes, RequestCounts DEF Ticking, BountyInv
<1>5. CASE SubmitFails(r)
  <2> DEFINE lost == IF submit[r].at = "bill" THEN 1 ELSE 0
  <2>1. /\ submit[r].at # "none" /\ submit' = [submit EXCEPT ![r] = NoRequest]
        /\ NoRequest.at = "none" /\ missed' = missed + lost
        /\ UNCHANGED <<month, charged, billed, beside, tracked, tick>>
    BY <1>5 DEF SubmitFails, Miss, NoRequest
  <2>2. BountyType'
    <3>1. missed' \in Nat
      BY <1>0, <2>1
    <3>2. submit' \in [Submitters -> [at : {"none", "fetch", "bill"},
                                      post : Posts \cup {"none"}, month : Nat]]
      BY <1>1, <2>1 DEF NoRequest
    <3>3. QED
      BY <1>0, <1>1, <2>1, <3>1, <3>2 DEF BountyInv, BountyType
  <2>3. /\ Cardinality(Pending') = Cardinality(Pending) - 1
        /\ Cardinality(Unbilled') = Cardinality(Unbilled) - lost
    <3>1. Cardinality(Unbilled) - 0 = Cardinality(Unbilled)
      BY RequestCounts
    <3> DEFINE new == NoRequest
               old == submit[r]
    <3>2. new.at = "none" /\ old.at # "none" /\ submit' = [submit EXCEPT ![r] = new]
      BY <2>1
    <3>3. /\ Cardinality(Pending') = Cardinality(Pending) - 1
          /\ Cardinality(Unbilled') = IF old.at = "bill" THEN Cardinality(Unbilled) - 1
                                      ELSE Cardinality(Unbilled)
      <4> HIDE DEF new
      <4>1. QED
        BY <3>2, RequestMoves DEF BountyInv
    <3>4. QED
      BY <3>1, <3>3
  <2>4. QED
    BY <1>0, <2>1, <2>2, <2>3, BountySizes, RequestCounts DEF Ticking, BountyInv
<1>6. QED
  BY <1>2, <1>3, <1>4, <1>5

\* A batch that throws is skipped, charged for or not.
LEMMA SkipStep ==
  ASSUME BountyInv, SkipsBatch
  PROVE  BountyInv'
<1>0. /\ month \in Nat /\ charged \in Nat /\ billed \in Nat
      /\ missed \in Nat /\ beside \in Nat
      /\ tick.month \in Nat /\ tick.ledger \in Nat /\ tick.cost \in Nat
  BY TickFields DEF BountyInv
<1>1. Pending' = Pending /\ Unbilled' = Unbilled
  BY DEF SkipsBatch, Pending, Unbilled
<1>2. /\ tick' = [tick EXCEPT !.due = @ \ Batch]
      /\ \/ UNCHANGED <<charged, missed>>
         \/ charged' = charged + 1 /\ missed' = missed + 1
      /\ UNCHANGED <<month, billed, beside, tracked, submit>>
  BY DEF SkipsBatch, Miss, Charge, budgetVars
<1>3. /\ tick' \in TickType /\ tick'.cost = tick.cost /\ tick'.month = tick.month
      /\ tick'.ledger = tick.ledger /\ tick'.at = tick.at
  <2>1. tick \in TickType /\ tick.due \ Batch \subseteq Posts
    BY TickFields DEF BountyInv, BountyType
  <2>2. QED
    BY <1>2, <2>1 DEF TickType
<1>4. BountyType'
  BY <1>0, <1>2, <1>3 DEF BountyInv, BountyType
<1>5. QED
  BY <1>0, <1>1, <1>2, <1>3, <1>4, BountySizes, RequestCounts DEF Ticking, BountyInv

LEMMA BountyStep ==
  ASSUME BountyInv, [BountyNext]_bountyVars
  PROVE  BountyInv'
<1>0. /\ month \in Nat /\ charged \in Nat /\ billed \in Nat
      /\ missed \in Nat /\ beside \in Nat
      /\ tick.month \in Nat /\ tick.ledger \in Nat /\ tick.cost \in Nat
  BY TickFields DEF BountyInv
<1>1. CASE NewMonth
  <2>1. /\ month' = month + 1 /\ tick.at \notin {"bill-search", "bill-refresh"}
        /\ \A r \in Submitters : submit[r].at # "bill"
        /\ charged' = 0 /\ billed' = 0 /\ missed' = 0 /\ beside' = 0
        /\ UNCHANGED <<tracked, disqualified, tick, submit>>
    BY <1>1 DEF NewMonth
  <2>2. Unbilled = {} /\ Unbilled' = {} /\ Pending' = Pending
    BY <2>1 DEF Unbilled, Pending
  <2>3. Cardinality({}) = 0
    BY FS_EmptySet
  <2>4. BountyType'
    BY <1>0, <2>1 DEF BountyInv, BountyType
  <2>5. QED
    BY <1>0, <2>1, <2>2, <2>3, <2>4, BountySizes, RequestCounts DEF Ticking, BountyInv
<1>2. CASE (\E p \in Posts : Disqualify(p)) \/ UNCHANGED bountyVars
  <2>1. UNCHANGED <<month, charged, billed, missed, beside, tracked, tick, submit>>
    BY <1>2 DEF Disqualify, bountyVars, budgetVars
  <2>2. BountyType' /\ Unbilled' = Unbilled /\ Pending' = Pending
    BY <2>1 DEF BountyInv, BountyType, Unbilled, Pending
  <2>3. QED
    BY <2>1, <2>2 DEF Ticking, BountyInv
<1>3. QED
  BY <1>1, <1>2, PollerStep, ChargeStep, BillStep, RequestStep, SkipStep DEF BountyNext

\* However the poller's ticks, the requests of users, failures and the turn of
\* the month interleave, the provider's charges of a month stay within the
\* budget, but for the last call, the requests past their check, and the reads
\* that the ledger can not see.
THEOREM BudgetIsHeld == BountySpec => []BudgetHeld
<1>1. BountyInv => BudgetHeld
  <2> SUFFICES ASSUME BountyInv PROVE BudgetHeld
    OBVIOUS
  <2>2. /\ billed \in Nat /\ missed \in Nat /\ beside \in Nat /\ tick.cost \in Nat
    BY TickFields DEF BountyInv
  <2>3. QED
    BY <2>2, BountySizes, RequestCounts DEF Call, BudgetHeld, BountyInv
<1>2. BountyInv /\ [BountyNext]_bountyVars => BountyInv'
  BY BountyStep
<1>3. QED
  BY <1>1, <1>2, BountyStarts, PTL DEF BountySpec

---------------------------------------------------------------------------
(* The orders a page executes *)

OrderType == [id : OrderIds, count : Nat, done : BOOLEAN, ready : BOOLEAN]

\* A tick waits at a place in its list where an order is not done.
WaitingTick == {t \in [list : Seq(OrderType), at : Nat] :
                   t.at \in 1 .. Len(t.list) /\ ~t.list[t.at].done}

BuyType == [order : OrderType, landed : BOOLEAN]

OrdersType ==
    /\ store \in Seq(OrderType)
    /\ ticks \in [Pages -> Seq(WaitingTick)]
    /\ buying \in [Pages -> SUBSET BuyType]
    /\ firing \in [Pages -> SUBSET OrderIds]
    /\ DOMAIN bought = OrderIds

\* Each stored order has its own id and is done when it has reached its limit,
\* and none of them was cancelled.
StoreOk ==
    /\ \A j, k \in DOMAIN store : store[j].id = store[k].id => j = k
    /\ \A o \in {store[k] : k \in DOMAIN store} :
          Limit[o.id] > 0 /\ o.count >= Limit[o.id] => o.done
    /\ cancelled \cap StoredIds = {}

\* A buy of an order that nothing excuses: it was decided on from the order as
\* it is in the store, unless that has been cancelled.
BuyOk(b) ==
    LET id == b.order.id
    IN  /\ bought[id] <= b.order.count + (IF b.landed THEN 1 ELSE 0)
        /\ Limit[id] > 0 => b.order.count < Limit[id]
        /\ \/ id \in cancelled
           \/ \E k \in DOMAIN store :
                 store[k].id = id /\ store[k].count = b.order.count /\ ~store[k].done

\* What holds of an order that nothing excuses.
Accounted(id) ==
    /\ bought[id] \in Nat
    /\ Limit[id] > 0 => bought[id] <= Limit[id]
    /\ \A p \in Pages : id \in firing[p] <=> \E b \in buying[p] : b.order.id = id
    /\ \A p, q \in Pages : \A b \in buying[p], c \in buying[q] :
          b.order.id = id /\ c.order.id = id => p = q /\ b = c
    /\ \A p \in Pages : \A b \in buying[p] : b.order.id = id => BuyOk(b)
    /\ (\A p \in Pages : id \notin firing[p]) =>
          \A k \in DOMAIN store : store[k].id = id => bought[id] <= store[k].count

OrdersInv ==
    /\ OrdersType /\ StoreOk
    /\ \A id \in OrderIds \ excused : Accounted(id)

\* Places of the store, in order.
LEMMA KeptPlaces ==
  ASSUME OrdersType, NEW places \in SUBSET (DOMAIN store)
  PROVE  /\ Kept(places) \in Seq(OrderType)
         /\ \A k \in DOMAIN Kept(places) : \E j \in places : Kept(places)[k] = store[j]
         /\ \A j \in places : \E k \in DOMAIN Kept(places) : Kept(places)[k] = store[j]
         /\ StoreOk => \A j, k \in DOMAIN Kept(places) :
                          Kept(places)[j].id = Kept(places)[k].id => j = k
<1> DEFINE size == Cardinality(places)
           at   == InOrder(places)
<1>1. store \in Seq(OrderType) /\ DOMAIN store = 1 .. Len(store) /\ Len(store) \in Nat
      /\ \A k \in DOMAIN store : store[k] \in OrderType
  BY DEF OrdersType
<1>2. places \in SUBSET Nat /\ IsFiniteSet(places)
  <2>1. places \subseteq 1 .. Len(store) /\ IsFiniteSet(1 .. Len(store))
    BY <1>1, FS_Interval
  <2>2. QED
    BY <2>1, <1>1, FS_Subset
<1>3. /\ size \in Nat /\ at \in [1 .. size -> places]
      /\ \A n \in places : \E k \in 1 .. size : at[k] = n
      /\ \A j, k \in 1 .. size : j < k => at[j] < at[k]
  BY <1>2, InOrderSorts
<1>4. Kept(places) = [k \in 1 .. size |-> store[at[k]]]
  BY DEF Kept
<1> HIDE DEF size, at
<1>5. Kept(places) \in Seq(OrderType)
  <2>1. Kept(places) \in [1 .. size -> OrderType]
    BY <1>1, <1>3, <1>4
  <2>2. QED
    BY <2>1, <1>3
<1>6. DOMAIN Kept(places) = 1 .. size
      /\ \A k \in 1 .. size : at[k] \in places /\ Kept(places)[k] = store[at[k]]
  BY <1>3, <1>4
<1>7. \A j, k \in 1 .. size : at[j] = at[k] => j = k
  <2>1. ASSUME NEW j \in 1 .. size, NEW k \in 1 .. size, at[j] = at[k]
        PROVE  j = k
    <3>1. j < k \/ k < j \/ j = k
      BY <1>3
    <3>2. ~(at[j] < at[k]) /\ ~(at[k] < at[j])
      BY <1>2, <1>6, <2>1
    <3>3. QED
      BY <1>3, <3>1, <3>2
  <2>2. QED
    BY <2>1
<1>8. \A j \in places : \E k \in DOMAIN Kept(places) : Kept(places)[k] = store[j]
  BY <1>3, <1>6
<1>9. ASSUME StoreOk, NEW j \in DOMAIN Kept(places), NEW k \in DOMAIN Kept(places),
             Kept(places)[j].id = Kept(places)[k].id
      PROVE  j = k
  <2>1. at[j] \in DOMAIN store /\ at[k] \in DOMAIN store
        /\ store[at[j]].id = store[at[k]].id
    BY <1>6, <1>9
  <2>2. at[j] = at[k]
    BY <2>1, <1>9 DEF StoreOk
  <2>3. QED
    BY <1>6, <1>7, <1>9, <2>2
<1>10. QED
  BY <1>5, <1>6, <1>8, <1>9

LEMMA OrdersStart == TrancheInit => OrdersInv
<1> SUFFICES ASSUME TrancheInit PROVE OrdersInv
  OBVIOUS
<1>1. OrdersType
  BY DEF TrancheInit, OrdersType
<1>2. StoreOk
  BY DEF TrancheInit, StoreOk, StoredIds
<1>3. \A id \in OrderIds : Accounted(id)
  BY TrancheAssumption DEF TrancheInit, Accounted
<1>4. QED
  BY <1>1, <1>2, <1>3 DEF OrdersInv

\* The user's forms.
LEMMA CancelStep ==
  ASSUME OrdersInv, NEW id \in OrderIds, CancelOrder(id)
  PROVE  OrdersInv'
<1> DEFINE places == {k \in DOMAIN store : store[k].id # id}
<1>1. /\ store' = Kept(places) /\ cancelled' = cancelled \cup {id}
      /\ UNCHANGED <<ticks, buying, firing, bought, excused, reloads>>
  BY DEF CancelOrder
<1>2. /\ Kept(places) \in Seq(OrderType)
      /\ \A k \in DOMAIN Kept(places) : \E j \in places : Kept(places)[k] = store[j]
      /\ \A j \in places : \E k \in DOMAIN Kept(places) : Kept(places)[k] = store[j]
      /\ \A j, k \in DOMAIN Kept(places) :
            Kept(places)[j].id = Kept(places)[k].id => j = k
  BY KeptPlaces DEF OrdersInv
<1>3. OrdersType'
  BY <1>1, <1>2 DEF OrdersInv, OrdersType
<1>4. StoreOk'
  BY <1>1, <1>2 DEF OrdersInv, StoreOk, StoredIds
<1>5. ASSUME NEW i \in OrderIds \ excused'
      PROVE  Accounted(i)'
  <2>1. Accounted(i)
    BY <1>1 DEF OrdersInv
  <2>2. ASSUME NEW b, BuyOk(b)
        PROVE  BuyOk(b)'
    <3>1. CASE b.order.id \in cancelled'
      BY <1>1, <2>2, <3>1 DEF BuyOk
    <3>2. CASE b.order.id \notin cancelled'
      <4>1. PICK j \in DOMAIN store :
              store[j].id = b.order.id /\ store[j].count = b.order.count /\ ~store[j].done
        BY <1>1, <2>2, <3>2 DEF BuyOk
      <4>2. j \in places
        BY <1>1, <3>2, <4>1
      <4>3. PICK k \in DOMAIN store' : store'[k] = store[j]
        BY <1>1, <1>2, <4>2
      <4>4. QED
        BY <1>1, <2>2, <4>1, <4>3 DEF BuyOk
    <3>3. QED
      BY <3>1, <3>2
  <2>3. QED
    BY <1>1, <1>2, <2>1, <2>2 DEF Accounted
<1>6. QED
  BY <1>3, <1>4, <1>5 DEF OrdersInv

LEMMA ClearStep ==
  ASSUME OrdersInv, ClearDone
  PROVE  OrdersInv'
<1> DEFINE places == {k \in DOMAIN store : ~store[k].done}
<1>1. /\ store' = Kept(places)
      /\ UNCHANGED <<ticks, buying, firing, bought, cancelled, excused, reloads>>
  BY DEF ClearDone
<1>2. /\ Kept(places) \in Seq(OrderType)
      /\ \A k \in DOMAIN Kept(places) : \E j \in places : Kept(places)[k] = store[j]
      /\ \A j \in places : \E k \in DOMAIN Kept(places) : Kept(places)[k] = store[j]
      /\ \A j, k \in DOMAIN Kept(places) :
            Kept(places)[j].id = Kept(places)[k].id => j = k
  BY KeptPlaces DEF OrdersInv
<1>3. OrdersType'
  BY <1>1, <1>2 DEF OrdersInv, OrdersType
<1>4. StoreOk'
  BY <1>1, <1>2 DEF OrdersInv, StoreOk, StoredIds
<1>5. ASSUME NEW i \in OrderIds \ excused'
      PROVE  Accounted(i)'
  <2>1. Accounted(i)
    BY <1>1 DEF OrdersInv
  <2>2. ASSUME NEW b, BuyOk(b)
        PROVE  BuyOk(b)'
    <3>1. CASE b.order.id \in cancelled
      BY <1>1, <2>2, <3>1 DEF BuyOk
    <3>2. CASE b.order.id \notin cancelled
      <4>1. PICK j \in DOMAIN store :
              store[j].id = b.order.id /\ store[j].count = b.order.count /\ ~store[j].done
        BY <2>2, <3>2 DEF BuyOk
      <4>2. PICK k \in DOMAIN store' : store'[k] = store[j]
        BY <1>1, <1>2, <4>1
      <4>3. QED
        BY <1>1, <2>2, <4>1, <4>2 DEF BuyOk
    <3>3. QED
      BY <3>1, <3>2
  <2>3. QED
    BY <1>1, <1>2, <2>1, <2>2 DEF Accounted
<1>6. QED
  BY <1>3, <1>4, <1>5 DEF OrdersInv

LEMMA CreateStep ==
  ASSUME OrdersInv, NEW id \in OrderIds, CreateOrder(id)
  PROVE  OrdersInv'
<1> DEFINE new == [id |-> id, count |-> 0, done |-> FALSE, ready |-> TRUE]
<1>1. /\ store' = Append(store, new) /\ bought[id] = 0
      /\ \A k \in DOMAIN store : store[k].id # id
      /\ id \notin cancelled
      /\ UNCHANGED <<ticks, buying, firing, bought, cancelled, excused, reloads>>
  BY DEF CreateOrder, StoredIds
<1>2. /\ new \in OrderType /\ new.id = id /\ new.count = 0 /\ ~new.done
      /\ store \in Seq(OrderType)
  BY DEF OrderType, OrdersInv, OrdersType
<1> HIDE DEF new
<1>3. /\ store' \in Seq(OrderType)
      /\ DOMAIN store = 1 .. Len(store) /\ DOMAIN store' = 1 .. (Len(store) + 1)
      /\ Len(store) \in Nat
      /\ store'[Len(store) + 1] = new
      /\ \A k \in DOMAIN store : store'[k] = store[k]
  BY <1>1, <1>2
<1>4. \A k \in DOMAIN store' : k \in DOMAIN store \/ k = Len(store) + 1
  BY <1>3
<1>5. OrdersType'
  BY <1>1, <1>3 DEF OrdersInv, OrdersType
<1>6. StoreOk'
  <2>1. \A j, k \in DOMAIN store' : store'[j].id = store'[k].id => j = k
    BY <1>1, <1>2, <1>3, <1>4 DEF OrdersInv, StoreOk
  <2>2. \A o \in {store'[k] : k \in DOMAIN store'} :
           Limit[o.id] > 0 /\ o.count >= Limit[o.id] => o.done
    <3>1. Limit[id] \in Nat
      BY TrancheAssumption
    <3>2. QED
      BY <1>2, <1>3, <1>4, <3>1 DEF OrdersInv, StoreOk
  <2>3. (cancelled \cap StoredIds)' = {}
    BY <1>1, <1>2, <1>3, <1>4 DEF OrdersInv, StoreOk, StoredIds
  <2>4. QED
    BY <2>1, <2>2, <2>3 DEF StoreOk
<1>7. ASSUME NEW i \in OrderIds \ excused'
      PROVE  Accounted(i)'
  <2>1. Accounted(i)
    BY <1>1 DEF OrdersInv
  <2>2. ASSUME NEW b, BuyOk(b)
        PROVE  BuyOk(b)'
    BY <1>1, <1>3, <2>2 DEF BuyOk
  <2>3. QED
    BY <1>1, <1>2, <1>3, <1>4, <2>1, <2>2 DEF Accounted
<1>8. QED
  BY <1>5, <1>6, <1>7 DEF OrdersInv

LEMMA ReadyStep ==
  ASSUME OrdersInv, NEW id \in OrderIds, BecomesReady(id)
  PROVE  OrdersInv'
<1>1. UNCHANGED <<ticks, buying, firing, bought, cancelled, excused, reloads>>
  BY DEF BecomesReady
<1>2. store \in Seq(OrderType) /\ Len(store) \in Nat /\ DOMAIN store = 1 .. Len(store)
      /\ \A k \in DOMAIN store : store[k] \in OrderType
  BY DEF OrdersInv, OrdersType
<1>3. /\ DOMAIN store' = DOMAIN store
      /\ \A k \in DOMAIN store :
            /\ store'[k] \in OrderType
            /\ store'[k].id = store[k].id /\ store'[k].count = store[k].count
            /\ store'[k].done = store[k].done
  BY <1>2 DEF BecomesReady, OrderType
<1>4. store' \in Seq(OrderType)
  <2>1. store' \in [1 .. Len(store) -> OrderType]
    BY <1>2, <1>3 DEF BecomesReady
  <2>2. QED
    BY <1>2, <2>1
<1>5. OrdersType'
  BY <1>1, <1>4 DEF OrdersInv, OrdersType
<1>6. StoreOk'
  BY <1>1, <1>3 DEF OrdersInv, StoreOk, StoredIds
<1>7. ASSUME NEW i \in OrderIds \ excused'
      PROVE  Accounted(i)'
  <2>1. Accounted(i)
    BY <1>1 DEF OrdersInv
  <2>2. ASSUME NEW b, BuyOk(b)
        PROVE  BuyOk(b)'
    BY <1>1, <1>3, <2>2 DEF BuyOk
  <2>3. QED
    BY <1>1, <1>3, <2>1, <2>2 DEF Accounted
<1>8. QED
  BY <1>5, <1>6, <1>7 DEF OrdersInv

\* Buys are started.  For an order that nothing excuses they are of the order as
\* it is in the store, and no page is buying it.
LEMMA LoopStep ==
  ASSUME OrdersInv, NEW p \in Pages, NEW orders \in SUBSET OrderType,
         NEW rest \in Seq(WaitingTick), LoopGoesOn(p, orders, rest),
         \A o \in orders : ~o.done /\ o.id \notin firing[p]
  PROVE  OrdersInv'
<1> DEFINE Started(o) == [order |-> o, landed |-> FALSE]
<1>1. /\ ticks \in [Pages -> Seq(WaitingTick)]
      /\ buying \in [Pages -> SUBSET BuyType]
      /\ firing \in [Pages -> SUBSET OrderIds]
  BY DEF OrdersInv, OrdersType
<1>2. \A o \in OrderType : /\ Started(o) \in BuyType /\ Started(o).order = o
                           /\ ~Started(o).landed /\ o.id \in OrderIds
                           /\ o.count \in Nat
  BY DEF BuyType, OrderType
<1>3. /\ buying' = [buying EXCEPT ![p] = @ \cup {Started(o) : o \in orders}]
      /\ firing' = [firing EXCEPT ![p] = @ \cup {o.id : o \in orders}]
      /\ excused' = excused \cup Excuses(p, orders)
      /\ ticks' = [ticks EXCEPT ![p] = rest]
      /\ UNCHANGED <<store, bought, cancelled, reloads>>
  BY DEF LoopGoesOn
<1> HIDE DEF Started
<1>4. /\ \A q \in Pages \ {p} : buying'[q] = buying[q] /\ firing'[q] = firing[q]
      /\ \A b : b \in buying'[p] <=> b \in buying[p] \/ \E o \in orders : b = Started(o)
      /\ \A i : i \in firing'[p] <=> i \in firing[p] \/ \E o \in orders : i = o.id
  BY <1>1, <1>3
<1>5. OrdersType'
  <2>1. ticks' \in [Pages -> Seq(WaitingTick)]
    BY <1>1, <1>3
  <2>2. buying' \in [Pages -> SUBSET BuyType]
    BY <1>1, <1>2, <1>3
  <2>3. firing' \in [Pages -> SUBSET OrderIds]
    BY <1>1, <1>2, <1>3
  <2>4. QED
    BY <1>3, <2>1, <2>2, <2>3 DEF OrdersInv, OrdersType
<1>6. StoreOk'
  BY <1>3 DEF OrdersInv, StoreOk, StoredIds
<1>7. ASSUME NEW b
      PROVE  BuyOk(b)' <=> BuyOk(b)
  BY <1>3 DEF BuyOk
<1>8. ASSUME NEW i \in OrderIds \ excused'
      PROVE  Accounted(i)'
  <2>1. Accounted(i) /\ i \notin Excuses(p, orders)
    BY <1>3 DEF OrdersInv
  <2>2. \A o \in orders : o.id = i =>
           o \in Stored(i) /\ \A q \in Pages \ {p} : i \notin firing[q]
    BY <2>1 DEF Excuses
  <2>3. CASE \A o \in orders : o.id # i
    <3>1. \A q \in Pages : i \in firing'[q] <=> i \in firing[q]
      BY <1>4, <2>3
    <3>2. \A q \in Pages : \A b : b.order.id = i => (b \in buying'[q] <=> b \in buying[q])
      BY <1>2, <1>4, <2>3
    <3>3. QED
      BY <1>3, <1>7, <2>1, <3>1, <3>2 DEF Accounted
  <2>4. CASE \E o \in orders : o.id = i
    <3>1. PICK o \in orders : o.id = i
      BY <2>4
    <3>2. \A q \in Pages : i \notin firing[q]
      BY <2>2, <3>1
    <3>3. \A q \in Pages : \A b \in buying[q] : b.order.id # i
      BY <2>1, <3>2 DEF Accounted
    <3>4. PICK k \in DOMAIN store : store[k] = o
      BY <2>2, <3>1 DEF Stored
    <3>5. \A x \in orders : x.id = i => x = o
      <4>1. ASSUME NEW x \in orders, x.id = i PROVE x = o
        <5>1. PICK j \in DOMAIN store : store[j] = x
          BY <2>2, <4>1 DEF Stored
        <5>2. j = k
          BY <3>1, <3>4, <4>1, <5>1 DEF OrdersInv, StoreOk
        <5>3. QED
          BY <3>4, <5>1, <5>2
      <4>2. QED
        BY <4>1
    <3>6. \A q \in Pages : i \in firing'[q] <=> q = p
      BY <1>4, <3>1, <3>2
    <3>7. \A q \in Pages : \A b \in buying'[q] : b.order.id = i => q = p /\ b = Started(o)
      BY <1>2, <1>4, <3>3, <3>5
    <3>8. Started(o) \in buying'[p] /\ Started(o).order.id = i
      BY <1>2, <1>4, <3>1
    <3>9. BuyOk(Started(o))
      <4>1. bought[i] <= o.count /\ bought[i] \in Nat
        BY <2>1, <3>1, <3>2, <3>4 DEF Accounted
      <4>2. Limit[i] > 0 => o.count < Limit[i]
        <5>1. ~o.done /\ Limit[i] \in Nat /\ o.count \in Nat
          BY <1>2, <3>1, TrancheAssumption
        <5>2. Limit[i] > 0 /\ o.count >= Limit[i] => o.done
          BY <3>1, <3>4 DEF OrdersInv, StoreOk
        <5>3. QED
          BY <5>1, <5>2
      <4>3. ~o.done
        BY <3>1
      <4>4. QED
        BY <1>2, <3>1, <3>4, <4>1, <4>2, <4>3 DEF BuyOk
    <3>10. QED
      BY <1>3, <1>7, <2>1, <3>6, <3>7, <3>8, <3>9 DEF Accounted
  <2>5. QED
    BY <2>3, <2>4
<1>9. QED
  BY <1>5, <1>6, <1>8 DEF OrdersInv

\* Where the loop goes on to.
LEMMA NextAwaitIs ==
  ASSUME NEW p \in Pages, NEW list \in Seq(OrderType), NEW from \in Nat \ {0}
  PROVE  /\ NextAwait(p, list, from) \in Nat
         /\ NextAwait(p, list, from) <= Len(list) + 1
         /\ NextAwait(p, list, from) <= Len(list) =>
               NextAwait(p, list, from) \in 1 .. Len(list)
               /\ ~list[NextAwait(p, list, from)].done
<1> DEFINE dips == {k \in from .. Len(list) :
                       list[k].id \in DipOrders /\ Startable(p, list[k])}
<1>1. Len(list) \in Nat
  OBVIOUS
<1>2. CASE dips = {}
  BY <1>1, <1>2 DEF NextAwait
<1>3. CASE dips # {}
  <2>1. dips \subseteq Nat
    BY <1>1
  <2>2. \E k \in dips : \A j \in dips : k <= j
    <3> HIDE DEF dips
    <3>1. QED
      BY <1>3, <2>1, LeastNumber
  <2>3. NextAwait(p, list, from) \in dips
    BY <1>3, <2>2 DEF NextAwait
  <2>4. QED
    BY <1>1, <2>3 DEF Startable
<1>4. QED
  BY <1>2, <1>3

LEMMA LoopParts ==
  ASSUME NEW p \in Pages, NEW list \in Seq(OrderType), NEW from \in Nat \ {0},
         NEW others \in Seq(WaitingTick)
  PROVE  /\ TranchesDue(p, list, from) \subseteq OrderType
         /\ \A o \in TranchesDue(p, list, from) : ~o.done /\ o.id \notin firing[p]
         /\ Awaiting(others, p, list, from) \in Seq(WaitingTick)
<1> DEFINE next == NextAwait(p, list, from)
<1>1. /\ next \in Nat /\ next <= Len(list) + 1 /\ Len(list) \in Nat
      /\ next <= Len(list) => next \in 1 .. Len(list) /\ ~list[next].done
      /\ \A k \in 1 .. Len(list) : list[k] \in OrderType
  BY NextAwaitIs
<1>2. TranchesDue(p, list, from) \subseteq OrderType
  <2>1. \A k \in from .. next - 1 : k \in 1 .. Len(list)
    BY <1>1
  <2>2. QED
    BY <1>1, <2>1 DEF TranchesDue
<1>3. \A o \in TranchesDue(p, list, from) : ~o.done /\ o.id \notin firing[p]
  BY DEF TranchesDue, Startable
<1>4. Awaiting(others, p, list, from) \in Seq(WaitingTick)
  <2>1. CASE next > Len(list)
    BY <2>1 DEF Awaiting
  <2>2. CASE next <= Len(list)
    <3> DEFINE t == [list |-> list, at |-> next]
    <3>1. t \in WaitingTick
      BY <1>1, <2>2 DEF WaitingTick
    <3>2. Awaiting(others, p, list, from) = Append(others, t)
      BY <1>1, <2>2 DEF Awaiting
    <3> HIDE DEF t
    <3>3. QED
      BY <3>1, <3>2
  <2>3. QED
    BY <1>1, <2>1, <2>2
<1>5. QED
  BY <1>2, <1>3, <1>4

LEMMA TickStep ==
  ASSUME OrdersInv, NEW p \in Pages, Tick(p)
  PROVE  OrdersInv'
<1> DEFINE orders == TranchesDue(p, store, 1)
           rest   == Awaiting(ticks[p], p, store, 1)
<1>1. store \in Seq(OrderType) /\ ticks[p] \in Seq(WaitingTick)
  BY DEF OrdersInv, OrdersType
<1>2. /\ orders \subseteq OrderType /\ rest \in Seq(WaitingTick)
      /\ \A o \in orders : ~o.done /\ o.id \notin firing[p]
  BY <1>1, LoopParts
<1>3. LoopGoesOn(p, orders, rest)
  BY DEF Tick
<1> HIDE DEF orders, rest
<1>4. QED
  BY <1>2, <1>3, LoopStep

\* A price is known, and the loop goes on.
LEMMA PriceStep ==
  ASSUME OrdersInv, NEW p \in Pages, NEW t \in DOMAIN ticks[p], PriceArrives(p, t)
  PROVE  OrdersInv'
<1> DEFINE list == ticks[p][t].list
           o    == list[ticks[p][t].at]
           from == ticks[p][t].at + 1
           due  == TranchesDue(p, list, from)
           rest == Awaiting(Others(p, t), p, list, from)
<1>1. ticks[p] \in Seq(WaitingTick) /\ ticks[p][t] \in WaitingTick
  BY DEF OrdersInv, OrdersType
<1>2. /\ list \in Seq(OrderType) /\ ticks[p][t].at \in 1 .. Len(list)
      /\ o \in OrderType /\ ~o.done /\ from \in Nat \ {0}
  BY <1>1 DEF WaitingTick
<1>3. Others(p, t) \in Seq(WaitingTick)
  <2>1. t \in 1 .. Len(ticks[p]) /\ Len(ticks[p]) \in Nat
    BY <1>1
  <2>2. SubSeq(ticks[p], 1, t - 1) \in Seq(WaitingTick)
    <3>1. \A i \in 1 .. t - 1 : ticks[p][i] \in WaitingTick
      BY <1>1, <2>1
    <3>2. QED
      BY <1>1, <2>1, <3>1, SubSeqProperties
  <2>3. SubSeq(ticks[p], t + 1, Len(ticks[p])) \in Seq(WaitingTick)
    BY <1>1, <2>1, SubSeqProperties
  <2>4. QED
    BY <2>2, <2>3, ConcatProperties DEF Others
<1> HIDE DEF list, o, from
<1>4. /\ due \subseteq OrderType /\ rest \in Seq(WaitingTick)
      /\ \A x \in due : ~x.done /\ x.id \notin firing[p]
  BY <1>2, <1>3, LoopParts
<1>5. PICK dip \in {{}, {o}} : /\ dip = {} \/ NotFiring(p, o.id)
                               /\ LoopGoesOn(p, dip \cup due, rest)
  BY Zenon DEF PriceArrives, list, o, from
<1>6. dip \cup due \in SUBSET OrderType
      /\ \A x \in dip \cup due : ~x.done /\ x.id \notin firing[p]
  BY <1>2, <1>4, <1>5 DEF NotFiring
<1> HIDE DEF due, rest
<1>7. QED
  BY <1>4, <1>5, <1>6, LoopStep

\* A buy lands.
LEMMA LandsStep ==
  ASSUME OrdersInv, NEW p \in Pages, NEW b \in buying[p], BuyLands(p, b)
  PROVE  OrdersInv'
<1> DEFINE new == [b EXCEPT !.landed = TRUE]
           id  == b.order.id
<1>1. /\ b \in BuyType /\ buying \in [Pages -> SUBSET BuyType]
      /\ id \in OrderIds /\ b.order.count \in Nat
  BY DEF OrdersInv, OrdersType, BuyType, OrderType
<1>2. new \in BuyType /\ new.order = b.order /\ new.landed
  BY <1>1 DEF BuyType
<1>3. /\ ~b.landed
      /\ buying' = [buying EXCEPT ![p] = (@ \ {b}) \cup {new}]
      /\ bought' = [bought EXCEPT ![id] = @ + 1]
      /\ UNCHANGED <<store, ticks, firing, cancelled, excused, reloads>>
  BY DEF BuyLands
<1> HIDE DEF new
<1>4. /\ \A q \in Pages \ {p} : buying'[q] = buying[q]
      /\ buying'[p] = (buying[p] \ {b}) \cup {new}
  BY <1>1, <1>3
<1>5. OrdersType'
  <2>1. buying' \in [Pages -> SUBSET BuyType]
    BY <1>1, <1>2, <1>3
  <2>2. QED
    BY <1>3, <2>1 DEF OrdersInv, OrdersType
<1>6. StoreOk'
  BY <1>3 DEF OrdersInv, StoreOk, StoredIds
<1>7. ASSUME NEW i \in OrderIds \ excused'
      PROVE  Accounted(i)'
  <2>1. Accounted(i)
    BY <1>3 DEF OrdersInv
  <2>2. CASE i # id
    <3>1. bought'[i] = bought[i]
      BY <1>3, <2>2 DEF OrdersInv, OrdersType
    <3>2. \A q \in Pages : \A c : c.order.id = i => (c \in buying'[q] <=> c \in buying[q])
      BY <1>2, <1>4, <2>2
    <3>3. ASSUME NEW c, c.order.id = i
          PROVE  BuyOk(c)' <=> BuyOk(c)
      BY <1>3, <3>1, <3>3 DEF BuyOk
    <3>4. QED
      BY <1>3, <2>1, <3>1, <3>2, <3>3 DEF Accounted
  <2>3. CASE i = id
    <3>1. bought'[i] = bought[i] + 1 /\ bought[i] \in Nat
      BY <1>1, <1>3, <2>1, <2>3 DEF OrdersInv, OrdersType, Accounted
    <3>2. BuyOk(b)
      BY <2>1, <2>3 DEF Accounted
    <3>3. bought[i] <= b.order.count /\ (Limit[i] > 0 => b.order.count < Limit[i])
          /\ Limit[i] \in Nat
      BY <1>1, <1>3, <2>3, <3>1, <3>2, TrancheAssumption DEF BuyOk
    <3>4. BuyOk(new)'
      BY <1>1, <1>2, <1>3, <2>3, <3>1, <3>2, <3>3 DEF BuyOk
    <3>5. \A q \in Pages : \A c \in buying'[q] : c.order.id = i => q = p /\ c = new
      BY <1>4, <2>1, <2>3 DEF Accounted
    <3>6. new \in buying'[p] /\ new.order.id = i
      BY <1>2, <1>4, <2>3
    <3>7. \A q \in Pages : i \in firing'[q] <=> q = p
      BY <1>3, <2>1, <2>3 DEF Accounted
    <3>8. Limit[i] > 0 => bought'[i] <= Limit[i]
      BY <1>1, <3>1, <3>3
    <3>9. QED
      BY <3>1, <3>4, <3>5, <3>6, <3>7, <3>8 DEF Accounted
  <2>4. QED
    BY <2>2, <2>3
<1>8. QED
  BY <1>5, <1>6, <1>7 DEF OrdersInv

\* A buy is over: the order is as it was, or has one buy more.
LEMMA EndsStep ==
  ASSUME OrdersInv, NEW p \in Pages, NEW b \in buying[p], BuyEnds(p, b)
  PROVE  OrdersInv'
<1> DEFINE id  == b.order.id
           new == AfterBuy(b.order)
<1>1. /\ b \in BuyType /\ buying \in [Pages -> SUBSET BuyType]
      /\ firing \in [Pages -> SUBSET OrderIds]
      /\ id \in OrderIds /\ b.order \in OrderType /\ b.order.count \in Nat
      /\ Limit[id] \in Nat
  BY TrancheAssumption DEF OrdersInv, OrdersType, BuyType, OrderType
<1>2. /\ new \in OrderType /\ new.id = id /\ new.count = b.order.count + 1
      /\ Limit[id] > 0 /\ new.count >= Limit[id] => new.done
  <2> DEFINE o == b.order
             d == Limit[id] > 0 /\ o.count + 1 >= Limit[id]
  <2>1. o \in OrderType /\ o.count + 1 \in Nat /\ d \in BOOLEAN
    BY <1>1
  <2>2. new = [o EXCEPT !.count = @ + 1, !.ready = FALSE, !.done = d]
    BY Zenon DEF AfterBuy
  <2> HIDE DEF new, o, d
  <2>3. /\ new \in OrderType /\ new.id = o.id /\ new.count = o.count + 1 /\ new.done = d
    BY <2>1, <2>2 DEF OrderType
  <2>4. QED
    BY <2>3 DEF o, d
<1>3. /\ buying' = [buying EXCEPT ![p] = @ \ {b}]
      /\ firing' = [firing EXCEPT ![p] = @ \ {id}]
      /\ \/ store' = Updated(new) /\ UNCHANGED excused
         \/ /\ store' = store
            /\ excused' = IF b.landed THEN excused \cup {id} ELSE excused
      /\ UNCHANGED <<ticks, bought, cancelled, reloads>>
  BY DEF BuyEnds
<1> HIDE DEF new
<1>4. /\ \A q \in Pages \ {p} : buying'[q] = buying[q] /\ firing'[q] = firing[q]
      /\ buying'[p] = buying[p] \ {b} /\ firing'[p] = firing[p] \ {id}
  BY <1>1, <1>3
<1>5. /\ store \in Seq(OrderType) /\ Len(store) \in Nat /\ DOMAIN store = 1 .. Len(store)
      /\ \A k \in DOMAIN store : store[k] \in OrderType
  BY DEF OrdersInv, OrdersType
<1>6. /\ DOMAIN store' = DOMAIN store
      /\ store' \in Seq(OrderType)
      /\ \A k \in DOMAIN store : store'[k].id = store[k].id
      /\ \A k \in DOMAIN store : store[k].id # id => store'[k] = store[k]
      /\ \/ \A k \in DOMAIN store : store[k].id = id => store'[k] = new
         \/ /\ store' = store
            /\ excused' = IF b.landed THEN excused \cup {id} ELSE excused
  <2>1. CASE store' = Updated(new)
    <3>1. /\ DOMAIN store' = DOMAIN store
          /\ \A k \in DOMAIN store :
                store'[k] = IF store[k].id = id THEN new ELSE store[k]
      BY <1>2, <2>1 DEF Updated
    <3>2. store' \in [1 .. Len(store) -> OrderType]
      BY <1>2, <1>5, <2>1 DEF Updated
    <3>3. QED
      BY <1>2, <1>5, <3>1, <3>2
  <2>2. CASE /\ store' = store
             /\ excused' = IF b.landed THEN excused \cup {id} ELSE excused
    BY <1>5, <2>2
  <2>3. QED
    BY <1>3, <2>1, <2>2
<1>7. OrdersType'
  <2>1. buying' \in [Pages -> SUBSET BuyType] /\ firing' \in [Pages -> SUBSET OrderIds]
    BY <1>1, <1>3
  <2>2. QED
    BY <1>3, <1>6, <2>1 DEF OrdersInv, OrdersType
<1>8. StoreOk'
  <2>1. \A k \in DOMAIN store : Limit[store'[k].id] > 0 /\ store'[k].count >= Limit[store'[k].id]
                                   => store'[k].done
    BY <1>2, <1>6 DEF OrdersInv, StoreOk
  <2>2. \A j, k \in DOMAIN store' : store'[j].id = store'[k].id => j = k
    BY <1>6 DEF OrdersInv, StoreOk
  <2>3. (cancelled \cap StoredIds)' = {}
    BY <1>3, <1>6 DEF OrdersInv, StoreOk, StoredIds
  <2>4. QED
    BY <1>6, <2>1, <2>2, <2>3 DEF StoreOk
<1>9. ASSUME NEW i \in OrderIds \ excused'
      PROVE  Accounted(i)'
  <2>1. Accounted(i)
    BY <1>3 DEF OrdersInv
  <2>2. CASE i # id
    <3>1. \A q \in Pages : \A c : c.order.id = i => (c \in buying'[q] <=> c \in buying[q])
      BY <1>4, <2>2
    <3>2. \A q \in Pages : i \in firing'[q] <=> i \in firing[q]
      BY <1>4, <2>2
    <3>3. ASSUME NEW c, c.order.id = i, BuyOk(c)
          PROVE  BuyOk(c)'
      BY <1>3, <1>6, <2>2, <3>3 DEF BuyOk
    <3>4. \A k \in DOMAIN store' : store'[k].id = i => k \in DOMAIN store /\ store'[k] = store[k]
      BY <1>6, <2>2
    <3>5. QED
      BY <1>3, <2>1, <3>1, <3>2, <3>3, <3>4 DEF Accounted
  <2>3. CASE i = id
    <3>1. BuyOk(b) /\ bought[i] \in Nat
      BY <2>1, <2>3 DEF Accounted
    <3>2. \A q \in Pages : \A c \in buying'[q] : c.order.id # i
      BY <1>4, <2>1, <2>3 DEF Accounted
    <3>3. \A q \in Pages : i \notin firing'[q]
      BY <1>3, <1>4, <2>1, <2>3 DEF Accounted
    <3>4. ASSUME NEW k \in DOMAIN store, store'[k].id = i
          PROVE  bought[i] <= store'[k].count
      <4>1. store[k].id = id
        BY <1>6, <2>3, <3>4
      <4>2. CASE store'[k] = new
        BY <1>1, <1>2, <2>3, <3>1, <4>2 DEF BuyOk
      <4>3. CASE store' = store /\ ~b.landed
        <5>1. id \notin cancelled
          BY <4>1 DEF OrdersInv, StoreOk, StoredIds
        <5>2. PICK j \in DOMAIN store : store[j].id = id /\ store[j].count = b.order.count
          BY <3>1, <5>1 DEF BuyOk
        <5>3. j = k
          BY <4>1, <5>2 DEF OrdersInv, StoreOk
        <5>4. bought[i] <= b.order.count
          BY <1>1, <2>3, <3>1, <4>3 DEF BuyOk
        <5>5. QED
          BY <4>3, <5>2, <5>3, <5>4
      <4>4. QED
        BY <1>6, <2>3, <4>1, <4>2, <4>3
    <3>5. QED
      BY <1>3, <1>6, <2>1, <3>2, <3>3, <3>4 DEF Accounted
  <2>4. QED
    BY <2>2, <2>3
<1>10. QED
  BY <1>7, <1>8, <1>9 DEF OrdersInv

\* A page is closed: the orders it was buying are excused.
LEMMA ReloadStep ==
  ASSUME OrdersInv, NEW p \in Pages, Reload(p)
  PROVE  OrdersInv'
<1>1. /\ ticks' = [ticks EXCEPT ![p] = <<>>]
      /\ buying' = [buying EXCEPT ![p] = {}] /\ firing' = [firing EXCEPT ![p] = {}]
      /\ excused' = excused \cup {b.order.id : b \in buying[p]}
      /\ UNCHANGED <<store, cancelled>>
  BY DEF Reload
<1>2. PICK late \in SUBSET buying[p] :
          bought' = [id \in OrderIds |->
                        bought[id] + Cardinality({b \in late : b.order.id = id})]
  BY DEF Reload
<1>3. /\ ticks \in [Pages -> Seq(WaitingTick)]
      /\ buying \in [Pages -> SUBSET BuyType]
      /\ firing \in [Pages -> SUBSET OrderIds]
  BY DEF OrdersInv, OrdersType
<1>4. OrdersType'
  <2>1. <<>> \in Seq(WaitingTick)
    OBVIOUS
  <2>2. ticks' \in [Pages -> Seq(WaitingTick)] /\ buying' \in [Pages -> SUBSET BuyType]
        /\ firing' \in [Pages -> SUBSET OrderIds]
    BY <1>1, <1>3, <2>1
  <2>3. QED
    BY <1>1, <1>2, <2>2 DEF OrdersInv, OrdersType
<1>5. StoreOk'
  BY <1>1 DEF OrdersInv, StoreOk, StoredIds
<1>6. ASSUME NEW i \in OrderIds \ excused'
      PROVE  Accounted(i)'
  <2>1. Accounted(i) /\ \A b \in buying[p] : b.order.id # i
    BY <1>1 DEF OrdersInv
  <2>2. bought'[i] = bought[i]
    <3>1. {b \in late : b.order.id = i} = {}
      BY <2>1
    <3>2. bought'[i] = bought[i] + 0 /\ bought[i] \in Nat
      BY <1>2, <2>1, <3>1, FS_EmptySet DEF Accounted
    <3>3. QED
      BY <3>2
  <2>3. /\ \A q \in Pages : i \in firing'[q] <=> i \in firing[q]
        /\ \A q \in Pages : \A c : c.order.id = i => (c \in buying'[q] <=> c \in buying[q])
    BY <1>1, <1>3, <2>1 DEF Accounted
  <2>4. ASSUME NEW c, c.order.id = i
        PROVE  BuyOk(c)' <=> BuyOk(c)
    BY <1>1, <2>2, <2>4 DEF BuyOk
  <2>5. QED
    BY <1>1, <2>1, <2>2, <2>3, <2>4 DEF Accounted
<1>7. QED
  BY <1>4, <1>5, <1>6 DEF OrdersInv

LEMMA OrdersStep ==
  ASSUME OrdersInv, [TrancheNext]_trancheVars
  PROVE  OrdersInv'
<1>1. CASE UNCHANGED trancheVars
  <2>1. UNCHANGED <<store, ticks, buying, firing, bought, cancelled, excused>>
    BY <1>1 DEF trancheVars
  <2>2. OrdersType' /\ StoreOk'
    BY <2>1 DEF OrdersInv, OrdersType, StoreOk, StoredIds
  <2>3. ASSUME NEW i \in OrderIds \ excused' PROVE Accounted(i)'
    BY <2>1 DEF OrdersInv, Accounted, BuyOk
  <2>4. QED
    BY <2>2, <2>3 DEF OrdersInv
<1>2. QED
  BY <1>1, CreateStep, CancelStep, ReadyStep, ClearStep, TickStep, PriceStep, LandsStep,
     EndsStep, ReloadStep DEF TrancheNext

LEMMA OrdersInvariant == TrancheSpec => []OrdersInv
<1>1. OrdersInv /\ [TrancheNext]_trancheVars => OrdersInv'
  BY OrdersStep
<1>2. QED
  BY <1>1, OrdersStart, PTL DEF TrancheSpec

\* However ticks, buys, pages and forms interleave, an order exceeds its limit
\* only if one of its buys was decided on from a list out of date, in two pages,
\* or in a page that closed or lost the answer.
THEOREM OverspendIsExcused == TrancheSpec => []OverspendNeedsOverlap
<1>1. OrdersInv => OverspendNeedsOverlap
  BY DEF OrdersInv, OverspendNeedsOverlap, Accounted
<1>2. QED
  BY <1>1, OrdersInvariant, PTL

\* A cancelled order does not come back, whatever was under way.
THEOREM CancelledIsGone == TrancheSpec => []CancelledStaysAway
<1>1. OrdersInv => CancelledStaysAway
  BY DEF OrdersInv, StoreOk, CancelledStaysAway
<1>2. QED
  BY <1>1, OrdersInvariant, PTL

---------------------------------------------------------------------------
(* Bundle detection: forests *)

\* A forest: each member but the roots has a parent of a lower rank.
Ranked(p, rank, limit) ==
    /\ limit \in Nat /\ rank \in [DOMAIN p -> 0 .. limit]
    /\ p \in [DOMAIN p -> DOMAIN p]
    /\ \A x \in DOMAIN p : p[x] # x => rank[p[x]] < rank[x]

Forest(p) == \E limit \in Nat : \E rank \in [DOMAIN p -> 0 .. limit] : Ranked(p, rank, limit)

\* What passes from parents to their children holds of every member.
LEMMA ForestInduction ==
  ASSUME NEW p, Forest(p), NEW Good,
         \A x \in DOMAIN p : (p[x] # x => p[x] \in Good) => x \in Good
  PROVE  \A x \in DOMAIN p : x \in Good
<1>1. PICK limit \in Nat : \E rank \in [DOMAIN p -> 0 .. limit] : Ranked(p, rank, limit)
  BY DEF Forest
<1>2. PICK rank \in [DOMAIN p -> 0 .. limit] : Ranked(p, rank, limit)
  BY <1>1
<1> DEFINE bad == {x \in DOMAIN p : x \notin Good}
           ranks == {rank[x] : x \in bad}
<1>3. SUFFICES ASSUME bad # {} PROVE FALSE
  OBVIOUS
<1>4. \A x \in DOMAIN p : rank[x] \in Nat
  OBVIOUS
<1>5. ranks \subseteq Nat /\ ranks # {}
  BY <1>3, <1>4
<1>6. PICK m \in ranks : \A n \in ranks : m <= n
  <2> HIDE DEF ranks
  <2> QED BY <1>5, LeastNumber
<1>7. PICK x \in bad : rank[x] = m
  BY <1>6
<1>8. p[x] # x /\ p[x] \in bad
  BY <1>2, <1>7 DEF Ranked
<1>9. rank[p[x]] \in ranks /\ rank[p[x]] < rank[x] /\ rank[p[x]] \in Nat /\ rank[x] \in Nat
  BY <1>8, <1>2, <1>4 DEF Ranked
<1> QED
  BY <1>6, <1>7, <1>9

\* What a recursion up to the roots takes from a root, and makes of a member and
\* the value of its parent.
Steps(p, V, a, f) == a \in [DOMAIN p -> V] /\ f \in [DOMAIN p -> [V -> V]]

\* A recursion up to the roots has a solution.
LEMMA ForestRecursion ==
  ASSUME NEW p, Forest(p), NEW V, NEW a, NEW f, Steps(p, V, a, f)
  PROVE  \E g \in [DOMAIN p -> V] :
            \A x \in DOMAIN p : g[x] = IF p[x] = x THEN a[x] ELSE f[x][g[p[x]]]
<1>1. PICK limit \in Nat : \E rank \in [DOMAIN p -> 0 .. limit] : Ranked(p, rank, limit)
  BY DEF Forest
<1>2. PICK rank \in [DOMAIN p -> 0 .. limit] : Ranked(p, rank, limit)
  BY <1>1
<1> DEFINE next(g, x) == IF p[x] = x THEN a[x] ELSE f[x][g[p[x]]]
           upTo(k)    == {x \in DOMAIN p : rank[x] < k}
           Good       == {k \in Nat : \E g \in [DOMAIN p -> V] : \A x \in upTo(k) : g[x] = next(g, x)}
<1>3. 0 \in Good
  <2>1. upTo(0) = {}
    OBVIOUS
  <2> QED BY <2>1 DEF Steps
<1>4. ASSUME NEW k \in Nat, k \in Good PROVE k + 1 \in Good
  <2>1. PICK g \in [DOMAIN p -> V] : \A x \in upTo(k) : g[x] = next(g, x)
    BY <1>4
  <2> DEFINE h == [x \in DOMAIN p |-> next(g, x)]
  <2>2. h \in [DOMAIN p -> V]
    BY <1>2 DEF Ranked, Steps
  <2>3. ASSUME NEW x \in upTo(k + 1) PROVE h[x] = next(h, x)
    <3>1. CASE p[x] = x
      BY <3>1
    <3>2. CASE p[x] # x
      <4>1. p[x] \in DOMAIN p /\ rank[p[x]] < rank[x]
        BY <1>2, <3>2 DEF Ranked
      <4>2. p[x] \in upTo(k)
        BY <4>1
      <4>3. h[p[x]] = g[p[x]]
        BY <2>1, <4>1, <4>2
      <4> QED BY <3>2, <4>3
    <3> QED BY <3>1, <3>2
  <2> HIDE DEF h, upTo
  <2> QED BY <2>2, <2>3
<1>5. limit + 1 \in Good
  <2> HIDE DEF Good
  <2>1. Nat \subseteq Good
    BY <1>3, <1>4, NaturalsAreGood
  <2> QED BY <2>1
<1>6. \A x \in DOMAIN p : x \in upTo(limit + 1)
  OBVIOUS
<1> HIDE DEF upTo
<1> QED
  BY <1>5, <1>6

---------------------------------------------------------------------------
(* Roots *)

\* The function that Root takes its value from.
Roots(p) == CHOOSE root : root = [x \in DOMAIN p |-> IF p[x] = x THEN x ELSE root[p[x]]]

\* Root is a value of that function.
LEMMA RootIsOfRoots ==
  ASSUME NEW p, NEW w
  PROVE  Root(p, w) = Roots(p)[w]
  BY DEF Root, Roots

\* Going up from a member ends, at a member that is its own parent.
LEMMA RootIs ==
  ASSUME NEW p, Forest(p), NEW x \in DOMAIN p
  PROVE  /\ Root(p, x) = IF p[x] = x THEN x ELSE Root(p, p[x])
         /\ Root(p, x) \in DOMAIN p /\ p[Root(p, x)] = Root(p, x)
         /\ p[x] \in DOMAIN p
<1>0. p \in [DOMAIN p -> DOMAIN p]
  BY DEF Forest, Ranked
<1> DEFINE D == DOMAIN p
           a == [y \in D |-> y]
           f == [y \in D |-> [v \in D |-> v]]
<1>1. PICK g \in [D -> D] : \A y \in D : g[y] = IF p[y] = y THEN a[y] ELSE f[y][g[p[y]]]
  <2>1. Steps(p, D, a, f)
    BY DEF Steps
  <2> HIDE DEF a, f
  <2> QED BY <2>1, ForestRecursion
<1>2. g = [y \in D |-> IF p[y] = y THEN y ELSE g[p[y]]]
  <2>1. \A y \in D : g[y] = IF p[y] = y THEN y ELSE g[p[y]]
    BY <1>0, <1>1
  <2>2. g = [y \in D |-> g[y]]
    OBVIOUS
  <2> QED BY <2>1, <2>2
<1>3. Roots(p) = [y \in D |-> IF p[y] = y THEN y ELSE Roots(p)[p[y]]]
  BY <1>2 DEF Roots
<1>4. \A y \in D : Roots(p)[y] = IF p[y] = y THEN y ELSE Roots(p)[p[y]]
  <2> DEFINE R == Roots(p)
  <2>1. R = [y \in D |-> IF p[y] = y THEN y ELSE R[p[y]]]
    BY <1>3
  <2> HIDE DEF R
  <2>2. \A y \in D : R[y] = IF p[y] = y THEN y ELSE R[p[y]]
    BY <2>1
  <2> QED BY <2>2 DEF R
<1> DEFINE Good == {y \in D : Roots(p)[y] \in D /\ p[Roots(p)[y]] = Roots(p)[y]}
<1>5. \A y \in D : (p[y] # y => p[y] \in Good) => y \in Good
  BY <1>0, <1>4
<1>6. \A y \in D : y \in Good
  <2> HIDE DEF Good
  <2> QED BY <1>5, ForestInduction
<1> QED
  BY <1>0, <1>4, <1>6, RootIsOfRoots

\* Whatever goes up with the parents is the root.
LEMMA RootIsOnly ==
  ASSUME NEW p, Forest(p), NEW r,
         \A x \in DOMAIN p : r[x] = IF p[x] = x THEN x ELSE r[p[x]]
  PROVE  \A x \in DOMAIN p : Root(p, x) = r[x]
<1> DEFINE Good == {x \in DOMAIN p : Root(p, x) = r[x]}
<1>1. \A x \in DOMAIN p : (p[x] # x => p[x] \in Good) => x \in Good
  BY RootIs
<1>2. \A x \in DOMAIN p : x \in Good
  <2> HIDE DEF Good
  <2> QED BY <1>1, ForestInduction
<1> QED
  BY <1>2

\* A member is a root if it is its own, and a root is its own.
LEMMA RootOfRoot ==
  ASSUME NEW p, Forest(p), NEW x \in DOMAIN p
  PROVE  /\ p[x] = x <=> Root(p, x) = x
         /\ Root(p, Root(p, x)) = Root(p, x)
  BY RootIs

\* A root is below all that it is the root of.
LEMMA RootIsLower ==
  ASSUME NEW p, NEW limit \in Nat, NEW rank \in [DOMAIN p -> 0 .. limit], Ranked(p, rank, limit),
         NEW x \in DOMAIN p, Root(p, x) # x
  PROVE  rank[Root(p, x)] < rank[x]
<1>1. Forest(p)
  BY DEF Forest
<1> DEFINE Good == {y \in DOMAIN p : Root(p, y) # y => rank[Root(p, y)] < rank[y]}
<1>2. ASSUME NEW y \in DOMAIN p, p[y] # y => p[y] \in Good PROVE y \in Good
  <2>1. SUFFICES ASSUME Root(p, y) # y PROVE rank[Root(p, y)] < rank[y]
    OBVIOUS
  <2>2. p[y] # y /\ Root(p, y) = Root(p, p[y]) /\ p[y] \in DOMAIN p /\ Root(p, y) \in DOMAIN p
    BY <1>1, <2>1, RootIs
  <2>3. rank[p[y]] < rank[y]
    BY <2>2 DEF Ranked
  <2>4. rank[p[y]] \in Nat /\ rank[y] \in Nat /\ rank[Root(p, y)] \in Nat
    BY <2>2
  <2>5. Root(p, p[y]) = p[y] \/ rank[Root(p, p[y])] < rank[p[y]]
    BY <1>2, <2>2
  <2> QED BY <2>2, <2>3, <2>4, <2>5
<1>3. \A y \in DOMAIN p : y \in Good
  <2> HIDE DEF Good
  <2> QED BY <1>1, <1>2, ForestInduction
<1> QED
  BY <1>3

---------------------------------------------------------------------------
(* Path compression and union *)

\* The path that Found hangs under the root.
Paths(p, w) ==
  CHOOSE path : path = [x \in DOMAIN p |-> IF x = Root(p, w) THEN {} ELSE {x} \cup path[p[x]]]

\* Found hangs the members of that path under the root.
LEMMA FoundIsOfPaths ==
  ASSUME NEW p, NEW w
  PROVE  Found(p, w) = [x \in DOMAIN p |-> IF x \in Paths(p, w)[w] THEN Root(p, w) ELSE p[x]]
  BY DEF Found, Paths

\* The path from a member has the same root, and leaves it out.
LEMMA PathIs ==
  ASSUME NEW p, Forest(p), NEW w \in DOMAIN p, NEW x \in Paths(p, w)[w]
  PROVE  x \in DOMAIN p /\ Root(p, x) = Root(p, w) /\ x # Root(p, w)
<1> DEFINE D == DOMAIN p
           r == Root(p, w)
           a == [y \in D |-> IF y = r THEN {} ELSE {y}]
           f == [y \in D |-> [v \in SUBSET D |-> {y} \cup v]]
<1>1. PICK g \in [D -> SUBSET D] : \A y \in D : g[y] = IF p[y] = y THEN a[y] ELSE f[y][g[p[y]]]
  <2>1. Steps(p, SUBSET D, a, f)
    BY DEF Steps
  <2> HIDE DEF a, f
  <2> QED BY <2>1, ForestRecursion
<1>2. r \in D /\ p[r] = r /\ \A y \in D : p[y] \in D
  BY RootIs
<1> HIDE DEF r
<1>3. g = [y \in D |-> IF y = r THEN {} ELSE {y} \cup g[p[y]]]
  <2>1. ASSUME NEW y \in D PROVE g[y] = IF y = r THEN {} ELSE {y} \cup g[p[y]]
    <3>1. g[p[y]] \in SUBSET D
      BY <1>2
    <3>2. CASE p[y] = y
      BY <1>1, <3>1, <3>2
    <3>3. CASE p[y] # y
      <4>1. y # r /\ g[y] = f[y][g[p[y]]]
        BY <1>1, <1>2, <3>3
      <4> QED BY <3>1, <4>1
    <3> QED BY <3>2, <3>3
  <2>2. g = [y \in D |-> g[y]]
    OBVIOUS
  <2> QED BY <2>1, <2>2
<1> DEFINE path == Paths(p, w)
<1>4. path = [y \in D |-> IF y = r THEN {} ELSE {y} \cup path[p[y]]]
  BY <1>3 DEF Paths, r
<1> HIDE DEF path
<1>5. \A y \in D : path[y] = IF y = r THEN {} ELSE {y} \cup path[p[y]]
  BY <1>4
<1> DEFINE Good == {y \in D : Root(p, y) = r => \A v \in path[y] : v \in D /\ Root(p, v) = r /\ v # r}
<1>6. ASSUME NEW y \in D, p[y] # y => p[y] \in Good PROVE y \in Good
  <2>1. CASE y = r
    BY <1>5, <2>1
  <2>2. CASE y # r
    <3>1. SUFFICES ASSUME Root(p, y) = r, NEW v \in path[y]
                   PROVE  v \in D /\ Root(p, v) = r /\ v # r
      OBVIOUS
    <3>2. p[y] # y /\ Root(p, p[y]) = r
      BY <2>2, <3>1, RootIs
    <3> QED BY <1>5, <1>6, <2>2, <3>1, <3>2
  <2> QED BY <2>1, <2>2
<1>7. w \in Good
  <2> HIDE DEF Good
  <2> QED BY <1>6, ForestInduction
<1> QED
  BY <1>7 DEF r, path

\* Finding a root moves members, and changes no root.
LEMMA FoundIs ==
  ASSUME NEW p, Forest(p), NEW w \in DOMAIN p
  PROVE  /\ Forest(Found(p, w)) /\ DOMAIN Found(p, w) = DOMAIN p
         /\ \A x \in DOMAIN p : Root(Found(p, w), x) = Root(p, x)
<1> DEFINE D == DOMAIN p
           r == Root(p, w)
           path == Paths(p, w)[w]
           q == Found(p, w)
<1>1. r \in D /\ p[r] = r /\ \A y \in D : p[y] \in D
  BY RootIs
<1>2. q = [x \in D |-> IF x \in path THEN r ELSE p[x]]
  BY FoundIsOfPaths
<1>3. \A x \in path : x \in D /\ Root(p, x) = r /\ x # r
  BY PathIs
<1>4. PICK limit \in Nat : \E rank \in [D -> 0 .. limit] : Ranked(p, rank, limit)
  BY DEF Forest
<1>5. PICK rank \in [D -> 0 .. limit] : Ranked(p, rank, limit)
  BY <1>4
<1>6. \A x \in path : rank[r] < rank[x]
  <2> TAKE x \in path
  <2>1. x \in DOMAIN p /\ Root(p, x) = r /\ Root(p, x) # x
    BY <1>3
  <2>2. rank[Root(p, x)] < rank[x]
    BY <1>5, <2>1, RootIsLower
  <2> QED BY <2>1, <2>2
<1> HIDE DEF r, path, q
<1>7. DOMAIN q = D /\ q \in [D -> D]
  BY <1>1, <1>2
<1>8. Ranked(q, rank, limit)
  BY <1>2, <1>5, <1>6, <1>7 DEF Ranked
<1>9. Forest(q)
  BY <1>7, <1>8 DEF Forest
<1> DEFINE root == [x \in D |-> Root(p, x)]
<1>10. \A x \in D : root[x] = IF q[x] = x THEN x ELSE root[q[x]]
  <2> TAKE x \in D
  <2>1. CASE x \in path
    <3>1. q[x] = r /\ r # x /\ Root(p, r) = r /\ Root(p, x) = r
      BY <1>1, <1>2, <1>3, <2>1, RootIs
    <3> QED BY <1>1, <3>1
  <2>2. CASE x \notin path
    BY <1>1, <1>2, <2>2, RootIs
  <2> QED BY <2>1, <2>2
<1>11. \A x \in D : Root(q, x) = root[x]
  <2> HIDE DEF root
  <2>1. Forest(q) /\ \A x \in DOMAIN q : root[x] = IF q[x] = x THEN x ELSE root[q[x]]
    BY <1>7, <1>9, <1>10
  <2>2. \A x \in DOMAIN q : Root(q, x) = root[x]
    BY ONLY <2>1, RootIsOnly
  <2> QED BY <2>2, <1>7
<1> QED
  BY <1>7, <1>9, <1>11 DEF q

\* New members are roots.
LEMMA PresentIs ==
  ASSUME NEW p, Forest(p), NEW ws
  PROVE  /\ Forest(Present(p, ws)) /\ DOMAIN Present(p, ws) = DOMAIN p \cup ws
         /\ \A x \in DOMAIN p \cup ws :
               Root(Present(p, ws), x) = IF x \in DOMAIN p THEN Root(p, x) ELSE x
<1> DEFINE D == DOMAIN p
           q == Present(p, ws)
           root == [x \in D \cup ws |-> IF x \in D THEN Root(p, x) ELSE x]
<1>1. q = [x \in D \cup ws |-> IF x \in D THEN p[x] ELSE x]
  BY DEF Present
<1>2. \A x \in D : p[x] \in D
  BY RootIs
<1>3. DOMAIN q = D \cup ws /\ q \in [D \cup ws -> D \cup ws]
  BY <1>1, <1>2
<1> HIDE DEF q
<1>4. PICK limit \in Nat : \E rank \in [D -> 0 .. limit] : Ranked(p, rank, limit)
  BY DEF Forest
<1>5. PICK rank \in [D -> 0 .. limit] : Ranked(p, rank, limit)
  BY <1>4
<1> DEFINE ranks == [x \in D \cup ws |-> IF x \in D THEN rank[x] ELSE 0]
<1>6. ranks \in [D \cup ws -> 0 .. limit]
  OBVIOUS
<1>7. Ranked(q, ranks, limit)
  BY <1>1, <1>2, <1>3, <1>5, <1>6 DEF Ranked
<1>8. Forest(q)
  BY <1>3, <1>6, <1>7 DEF Forest
<1>9. \A x \in D \cup ws : root[x] = IF q[x] = x THEN x ELSE root[q[x]]
  BY <1>1, <1>2, RootIs
<1>10. \A x \in D \cup ws : Root(q, x) = root[x]
  <2> HIDE DEF root
  <2>1. Forest(q) /\ \A x \in DOMAIN q : root[x] = IF q[x] = x THEN x ELSE root[q[x]]
    BY <1>3, <1>8, <1>9
  <2>2. \A x \in DOMAIN q : Root(q, x) = root[x]
    BY ONLY <2>1, RootIsOnly
  <2> QED BY <2>2, <1>3
<1> QED
  BY <1>3, <1>8, <1>10 DEF q

Hung(p, a, b) == [p EXCEPT ![a] = b]

\* A root that is hung under another takes its members with it.
LEMMA HungIs ==
  ASSUME NEW p, Forest(p), NEW a \in DOMAIN p, NEW b \in DOMAIN p, p[a] = a, p[b] = b
  PROVE  /\ Forest(Hung(p, a, b)) /\ DOMAIN Hung(p, a, b) = DOMAIN p
         /\ \A x \in DOMAIN p : Root(Hung(p, a, b), x) = IF Root(p, x) = a THEN b ELSE Root(p, x)
<1> DEFINE D == DOMAIN p
           q == Hung(p, a, b)
           root == [x \in D |-> IF Root(p, x) = a THEN b ELSE Root(p, x)]
<1>1. \A x \in D : p[x] \in D
  BY RootIs
<1>2. p \in [D -> D] /\ DOMAIN q = D /\ q \in [D -> D] /\ q = [x \in D |-> IF x = a THEN b ELSE p[x]]
  BY <1>1 DEF Forest, Ranked, Hung
<1> HIDE DEF q
<1>4. PICK limit \in Nat : \E rank \in [D -> 0 .. limit] : Ranked(p, rank, limit)
  BY DEF Forest
<1>5. PICK rank \in [D -> 0 .. limit] : Ranked(p, rank, limit)
  BY <1>4
<1> DEFINE more == limit + limit + 1
           ranks == [x \in D |-> IF Root(p, x) = a /\ a # b THEN rank[x] + limit + 1 ELSE rank[x]]
<1>6. ranks \in [D -> 0 .. more] /\ more \in Nat
  OBVIOUS
<1>7. ASSUME NEW x \in D, q[x] # x PROVE ranks[q[x]] < ranks[x]
  <2>1. rank[x] \in Nat /\ rank[p[x]] \in Nat /\ rank[b] \in Nat /\ rank[b] <= limit
    BY <1>1
  <2>2. CASE x = a
    <3>1. q[x] = b /\ a # b /\ Root(p, a) = a /\ Root(p, b) = b
      BY <1>2, <1>7, <2>2, RootIs
    <3>2. ranks[b] = rank[b] /\ ranks[x] = rank[x] + limit + 1
      BY <2>2, <3>1
    <3> QED BY <2>1, <3>1, <3>2
  <2>3. CASE x # a
    <3>1. q[x] = p[x] /\ Root(p, x) = Root(p, p[x]) /\ p[x] \in D
      BY <1>1, <1>2, <1>7, <2>3, RootIs
    <3>2. rank[p[x]] < rank[x]
      BY <1>5, <1>7, <3>1 DEF Ranked
    <3> QED BY <2>1, <3>1, <3>2
  <2> QED BY <2>2, <2>3
<1>8. Forest(q)
  <2> HIDE DEF ranks, more
  <2> QED BY <1>2, <1>6, <1>7 DEF Forest, Ranked
<1>9. \A x \in D : root[x] = IF q[x] = x THEN x ELSE root[q[x]]
  <2> TAKE x \in D
  <2>0. Root(p, a) = a /\ Root(p, b) = b
    BY RootIs
  <2>1. CASE x = a
    BY <1>2, <2>0, <2>1
  <2>2. CASE x # a
    <3>1. q[x] = p[x] /\ p[x] \in D
      BY <1>1, <1>2, <2>2
    <3>2. CASE p[x] = x
      <4>1. Root(p, x) = x
        BY <3>2, RootIs
      <4> QED BY <2>2, <3>1, <3>2, <4>1
    <3>3. CASE p[x] # x
      <4>1. Root(p, x) = Root(p, p[x])
        BY <3>3, RootIs
      <4> QED BY <3>1, <3>3, <4>1
    <3> QED BY <3>2, <3>3
  <2> QED BY <2>1, <2>2
<1>10. \A x \in D : Root(q, x) = root[x]
  <2> HIDE DEF root
  <2>1. Forest(q) /\ \A x \in DOMAIN q : root[x] = IF q[x] = x THEN x ELSE root[q[x]]
    BY <1>2, <1>8, <1>9
  <2>2. \A x \in DOMAIN q : Root(q, x) = root[x]
    BY ONLY <2>1, RootIsOnly
  <2> QED BY <2>2, <1>2
<1> QED
  BY <1>2, <1>8, <1>10 DEF q

\* The roots after a union, from those before.
LEMMA UnionIs ==
  ASSUME NEW p, Forest(p), NEW a, NEW b
  PROVE  LET D == DOMAIN p \cup {a, b}
             root(x) == IF x \in DOMAIN p THEN Root(p, x) ELSE x
         IN  /\ Forest(Union(p, a, b)) /\ DOMAIN Union(p, a, b) = D
             /\ \A x \in D : /\ root(x) \in D /\ root(root(x)) = root(x)
                             /\ Root(Union(p, a, b), x) = IF root(x) = root(a) THEN root(b) ELSE root(x)
<1> DEFINE D == DOMAIN p \cup {a, b}
           root(x) == IF x \in DOMAIN p THEN Root(p, x) ELSE x
           f0 == Present(p, {a, b})
           f1 == Found(f0, a)
           f2 == Found(f1, b)
<1>0. a \in D /\ b \in D
  OBVIOUS
<1>1. Forest(f0) /\ DOMAIN f0 = D /\ \A x \in D : Root(f0, x) = root(x)
  BY PresentIs
<1> HIDE DEF f0, D, root
<1>2. Forest(f1) /\ DOMAIN f1 = D /\ \A x \in D : Root(f1, x) = root(x)
  BY <1>0, <1>1, FoundIs
<1> HIDE DEF f1
<1>3. Forest(f2) /\ DOMAIN f2 = D /\ \A x \in D : Root(f2, x) = root(x)
  BY <1>0, <1>2, FoundIs
<1> HIDE DEF f2
<1>4. \A x \in D : root(x) \in D /\ root(root(x)) = root(x) /\ f2[root(x)] = root(x)
  <2> TAKE x \in D
  <2>1. Root(f2, x) \in D /\ Root(f2, Root(f2, x)) = Root(f2, x) /\ f2[Root(f2, x)] = Root(f2, x)
    BY <1>3, RootIs, RootOfRoot
  <2> QED BY <1>3, <2>1
<1>5. Union(p, a, b) = [f2 EXCEPT ![root(a)] = root(b)]
  <2>1. Union(p, a, b) = [f2 EXCEPT ![Root(f2, a)] = Root(f2, b)]
    BY DEF Union, f0, f1, f2
  <2> QED BY <2>1, <1>0, <1>3
<1> DEFINE q == [f2 EXCEPT ![root(a)] = root(b)]
<1>6. /\ Forest(q) /\ DOMAIN q = DOMAIN f2
      /\ \A x \in DOMAIN f2 : Root(q, x) = IF Root(f2, x) = root(a) THEN root(b) ELSE Root(f2, x)
  <2> DEFINE ra == root(a)
             rb == root(b)
  <2>1. ra \in DOMAIN f2 /\ rb \in DOMAIN f2 /\ f2[ra] = ra /\ f2[rb] = rb
    BY <1>0, <1>3, <1>4
  <2> HIDE DEF ra, rb
  <2>2. q = Hung(f2, ra, rb)
    BY DEF ra, rb, Hung
  <2> HIDE DEF ra, rb, q
  <2>3. /\ Forest(q) /\ DOMAIN q = DOMAIN f2
        /\ \A x \in DOMAIN f2 : Root(q, x) = IF Root(f2, x) = ra THEN rb ELSE Root(f2, x)
    BY <1>3, <2>1, <2>2, HungIs
  <2> QED BY <2>3 DEF ra, rb
<1> HIDE DEF q
<1>7. /\ Forest(Union(p, a, b)) /\ DOMAIN Union(p, a, b) = D
      /\ \A x \in D : /\ root(x) \in D /\ root(root(x)) = root(x)
                      /\ Root(Union(p, a, b), x) = IF root(x) = root(a) THEN root(b) ELSE root(x)
  BY <1>3, <1>4, <1>5, <1>6 DEF q
<1> QED
  BY <1>7 DEF D, root

---------------------------------------------------------------------------
(* What a union-find keeps together *)

\* The sets that have all or nothing of what is under a root.
Closed(p) == {ws \in SUBSET Wallets : \A x \in DOMAIN p : x \in ws <=> Root(p, x) \in ws}

Forests == {p \in UNION {[D -> D] : D \in SUBSET Wallets} : Forest(p)}

\* Those are the forests whose members are wallets.
LEMMA ForestsAre ==
  ASSUME NEW p
  PROVE  p \in Forests <=> Forest(p) /\ DOMAIN p \subseteq Wallets
<1>1. ASSUME Forest(p), DOMAIN p \subseteq Wallets PROVE p \in Forests
  BY <1>1 DEF Forests, Forest, Ranked
<1>2. ASSUME p \in Forests PROVE Forest(p) /\ DOMAIN p \subseteq Wallets
  BY <1>2 DEF Forests
<1> QED
  BY <1>1, <1>2

\* The sets of p that have both or none of a and b.
Joined(p, a, b) == {ws \in Closed(p) : a \in ws <=> b \in ws}

\* q is what a union of a and b should make of p.
IsUnion(p, a, b, q) == /\ q \in Forests /\ DOMAIN q = DOMAIN p \cup {a, b}
                       /\ Closed(q) = Joined(p, a, b)

\* A union keeps together what was, and its two wallets.
LEMMA UnionCloses ==
  ASSUME NEW p \in Forests, NEW a \in Wallets, NEW b \in Wallets
  PROVE  IsUnion(p, a, b, Union(p, a, b))
<1> DEFINE D == DOMAIN p \cup {a, b}
           root(x) == IF x \in DOMAIN p THEN Root(p, x) ELSE x
           q == Union(p, a, b)
<1>1. /\ Forest(q) /\ DOMAIN q = D
      /\ \A x \in D : /\ root(x) \in D /\ root(root(x)) = root(x)
                      /\ Root(q, x) = IF root(x) = root(a) THEN root(b) ELSE root(x)
  <2>1. Forest(p)
    BY ForestsAre
  <2> QED BY <2>1, UnionIs
<1>2. q \in Forests
  BY <1>1, ForestsAre
<1>3. ASSUME NEW ws \in SUBSET Wallets
      PROVE  ws \in Closed(p) <=> \A x \in D : x \in ws <=> root(x) \in ws
  BY DEF Closed
<1>4. ASSUME NEW ws \in SUBSET Wallets
      PROVE  ws \in Closed(q) <=> \A x \in D : x \in ws <=> Root(q, x) \in ws
  BY <1>1 DEF Closed
<1>0. a \in D /\ b \in D
  OBVIOUS
<1> HIDE DEF D, q, root
<1>5. ASSUME NEW ws \in Closed(p), a \in ws <=> b \in ws PROVE ws \in Closed(q)
  <2>1. ws \in SUBSET Wallets
    BY DEF Closed
  <2>2. \A x \in D : x \in ws <=> root(x) \in ws
    BY <1>3, <2>1
  <2>3. \A x \in D : x \in ws <=> Root(q, x) \in ws
    BY <1>0, <1>1, <1>5, <2>2
  <2> QED BY <1>4, <2>1, <2>3
<1>6. ASSUME NEW ws \in Closed(q) PROVE ws \in Closed(p) /\ (a \in ws <=> b \in ws)
  <2>1. ws \in SUBSET Wallets
    BY DEF Closed
  <2>2. \A x \in D : x \in ws <=> Root(q, x) \in ws
    BY <1>4, <2>1
  <2>3. Root(q, a) = root(b) /\ Root(q, b) = root(b)
    BY <1>0, <1>1
  <2>4. ASSUME NEW x \in D PROVE x \in ws <=> root(x) \in ws
    <3>1. root(x) \in D /\ Root(q, root(x)) = Root(q, x)
      BY <1>1
    <3> QED BY <2>2, <3>1
  <2> QED BY <1>0, <1>3, <2>1, <2>2, <2>3, <2>4
<1>7. Closed(q) = Joined(p, a, b)
  BY <1>5, <1>6 DEF Joined
<1> QED
  BY <1>1, <1>2, <1>7 DEF D, q, IsUnion

---------------------------------------------------------------------------
(* Folds over a sequence *)

\* The greatest of finitely many numbers is one of them.
LEMMA MaxIsMember ==
  ASSUME NEW n \in Nat, NEW s \in SUBSET (1 .. n), s # {}
  PROVE  Max(s) \in s
<1>1. s \in SUBSET Nat
  OBVIOUS
<1>2. IsFiniteSet(s)
  <2>1. IsFiniteSet(1 .. n)
    BY FS_Interval
  <2> QED BY <2>1, FS_Subset
<1>3. \E b \in s : \A k \in s : k <= b
  BY <1>1, <1>2, FiniteHasGreatest
<1>4. \E b \in s : \A k \in s : b >= k
  BY <1>1, <1>3
<1> QED
  BY <1>4 DEF Max

\* What a fold starts from, and what it makes of a value at each place.
FoldSteps(n, V, base, f) == base \in V /\ f \in [1 .. n -> [V -> V]]

\* What the folds of the community modules are defined with.
Folded(g, n, base, f) ==
    \A s \in SUBSET (1 .. n) : g[s] = IF s = {} THEN base ELSE f[Max(s)][g[s \ {Max(s)}]]

\* It has a solution.
LEMMA FoldRecursion ==
  ASSUME NEW n \in Nat, NEW V, NEW base, NEW f, FoldSteps(n, V, base, f)
  PROVE  \E g \in [SUBSET (1 .. n) -> V] : Folded(g, n, base, f)
<1> DEFINE S == SUBSET (1 .. n)
           p == [s \in S |-> IF s = {} THEN s ELSE s \ {Max(s)}]
           a == [s \in S |-> base]
           h == [s \in S |-> IF s = {} THEN [v \in V |-> v] ELSE f[Max(s)]]
           rank == [s \in S |-> Cardinality(s)]
<1>0. base \in V /\ f \in [1 .. n -> [V -> V]]
  BY DEF FoldSteps
<1>1. /\ IsFiniteSet(1 .. n) /\ Cardinality(1 .. n) = n
      /\ \A s \in S : IsFiniteSet(s) /\ Cardinality(s) \in 0 .. n
  <2>0. IsFiniteSet(1 .. n) /\ Cardinality(1 .. n) = IF 1 > n THEN 0 ELSE n - 1 + 1
    <3>1. 1 \in Int /\ n \in Int
      OBVIOUS
    <3> QED BY <3>1, FS_Interval
  <2>1. IsFiniteSet(1 .. n) /\ Cardinality(1 .. n) = n
    BY <2>0
  <2>2. ASSUME NEW s \in S PROVE IsFiniteSet(s) /\ Cardinality(s) <= n
    <3>1. s \in SUBSET (1 .. n)
      OBVIOUS
    <3>2. IsFiniteSet(s) /\ Cardinality(s) <= Cardinality(1 .. n)
      BY <2>1, <3>1, FS_Subset
    <3> QED BY <2>1, <3>2
  <2>3. \A s \in S : Cardinality(s) \in Nat
    BY <2>2, FS_CardinalityType
  <2> QED BY <2>1, <2>2, <2>3
<1>2. \A s \in S : s # {} => Max(s) \in s
  BY MaxIsMember
<1>3. p \in [S -> S] /\ DOMAIN p = S
  OBVIOUS
<1>4. \A s \in S : s # {} => p[s] = s \ {Max(s)} /\ p[s] # s
  BY <1>2
<1>5. Ranked(p, rank, n)
  <2>1. rank \in [S -> 0 .. n]
    BY <1>1
  <2>2. ASSUME NEW s \in S, p[s] # s PROVE rank[p[s]] < rank[s]
    <3>1. s # {} /\ Max(s) \in s /\ p[s] = s \ {Max(s)}
      BY <1>2, <2>2
    <3>2. Cardinality(s \ {Max(s)}) = Cardinality(s) - 1 /\ Cardinality(s) \in Nat
      BY <1>1, <3>1, FS_RemoveElement
    <3> HIDE DEF p
    <3> QED BY <3>1, <3>2, <1>3
  <2> HIDE DEF p, rank, S
  <2> QED BY <1>3, <2>1, <2>2 DEF Ranked
<1>6. Forest(p)
  <2>1. rank \in [DOMAIN p -> 0 .. n]
    BY <1>1, <1>3
  <2> HIDE DEF p, rank, S
  <2> QED BY <1>5, <2>1 DEF Forest
<1>7. Steps(p, V, a, h)
  <2>1. \A s \in S : s # {} => Max(s) \in 1 .. n
    BY <1>2
  <2>2. a \in [S -> V]
    BY <1>0
  <2>3. h \in [S -> [V -> V]]
    BY <1>0, <2>1
  <2> HIDE DEF p, a, h, S
  <2> QED BY <1>3, <2>2, <2>3 DEF Steps
<1>8. PICK g \in [S -> V] : \A s \in S : g[s] = IF p[s] = s THEN a[s] ELSE h[s][g[p[s]]]
  <2> HIDE DEF p, a, h, S
  <2> QED BY <1>3, <1>6, <1>7, ForestRecursion
<1>9. ASSUME NEW s \in S PROVE g[s] = IF s = {} THEN base ELSE f[Max(s)][g[s \ {Max(s)}]]
  <2>1. CASE s = {}
    <3>1. p[s] = s /\ a[s] = base
      BY <2>1
    <3> HIDE DEF p, a, h
    <3> QED BY <1>8, <2>1, <3>1
  <2>2. CASE s # {}
    <3>1. p[s] # s /\ p[s] = s \ {Max(s)} /\ h[s] = f[Max(s)]
      BY <1>4, <2>2
    <3> HIDE DEF p, a, h
    <3> QED BY <1>8, <2>2, <3>1
  <2> QED BY <2>1, <2>2
<1> QED
  BY <1>9 DEF Folded

---------------------------------------------------------------------------
(* The groups, one after the other *)

\* The members of a finite set, each at a place.
LEMMA SetToSeqIs ==
  ASSUME NEW S, IsFiniteSet(S)
  PROVE  /\ Cardinality(S) \in Nat
         /\ SetToSeq(S) \in [1 .. Cardinality(S) -> S]
         /\ {SetToSeq(S)[i] : i \in 1 .. Cardinality(S)} = S
<1> DEFINE n == Cardinality(S)
           Places == {f \in [1 .. n -> S] : IsInjective(f)}
<1>1. n \in Nat /\ ExistsBijection(1 .. n, S)
  BY FS_CardinalityType
<1>2. PICK b : b \in Bijection(1 .. n, S)
  BY <1>1 DEF ExistsBijection
<1>3. b \in [1 .. n -> S] /\ IsInjective(b)
  BY <1>2 DEF Bijection, Injection, IsInjective
<1>4. SetToSeq(S) \in [1 .. n -> S] /\ IsInjective(SetToSeq(S))
  BY <1>3 DEF SetToSeq
<1>5. SetToSeq(S) \in Injection(1 .. n, S)
  BY <1>4 DEF Injection, IsInjective
<1>6. IsFiniteSet(1 .. n) /\ Cardinality(1 .. n) = n
  BY <1>1, FS_Interval
<1>7. SetToSeq(S) \in Surjection(1 .. n, S)
  BY <1>5, <1>6, FS_Injection
<1>8. \A x \in S : \E i \in 1 .. n : SetToSeq(S)[i] = x
  BY <1>7 DEF Surjection
<1> QED
  BY <1>1, <1>4, <1>8

\* The fold of MergeGroup.
Joins(p, a, seq) ==
  CHOOSE iter : iter = [s \in SUBSET DOMAIN seq |->
      IF s = {} THEN p ELSE Union(iter[s \ {Max(s)}], a, seq[Max(s)])]

\* MergeGroup is that fold, over all the places.
LEMMA MergeGroupIsJoins ==
  ASSUME NEW p, NEW g
  PROVE  MergeGroup(p, g) =
            Joins(p, CHOOSE w \in g : TRUE, SetToSeq(g))[DOMAIN SetToSeq(g)]
  BY DEF MergeGroup, FoldLeft, MapThenFoldSet, Joins

\* The fold of Merged.
Merges(p, seq) ==
  CHOOSE iter : iter = [s \in SUBSET DOMAIN seq |->
      IF s = {} THEN p ELSE MergeGroup(iter[s \ {Max(s)}], seq[Max(s)])]

\* So is Merged.
LEMMA MergedIsMerges ==
  ASSUME NEW funders, NEW trades
  PROVE  LET seq == SetToSeq(FundingGroups(funders)) \o SetToSeq(TemporalGroups(trades))
         IN  Merged(funders, trades) = Merges([w \in {} |-> w], seq)[DOMAIN seq]
  BY DEF Merged, FoldLeft, MapThenFoldSet, Merges

\* What joining to a the wallets at the places s makes of p.
JoinedAt(p, a, seq, s, q) ==
    /\ q \in Forests
    /\ DOMAIN q = DOMAIN p \cup (IF s = {} THEN {} ELSE {a}) \cup {seq[i] : i \in s}
    /\ Closed(q) = {ws \in Closed(p) : \A i \in s : a \in ws <=> seq[i] \in ws}

\* Joining wallets to a, in any order, keeps each of them with it.
LEMMA JoinsAre ==
  ASSUME NEW p \in Forests, NEW a \in Wallets, NEW n \in Nat, NEW seq \in [1 .. n -> Wallets]
  PROVE  \A s \in SUBSET (1 .. n) : JoinedAt(p, a, seq, s, Joins(p, a, seq)[s])
<1> DEFINE D == 1 .. n
           f == [i \in D |-> [q \in Forests |-> Union(q, a, seq[i])]]
<1>0. DOMAIN seq = D
  OBVIOUS
<1>1. FoldSteps(n, Forests, p, f)
  BY UnionCloses DEF FoldSteps, IsUnion
<1>2. PICK g \in [SUBSET (1 .. n) -> Forests] : Folded(g, n, p, f)
  <2> HIDE DEF f
  <2> QED BY <1>1, FoldRecursion
<1>3. \A s \in SUBSET D : s # {} => Max(s) \in s /\ Max(s) \in D /\ s \ {Max(s)} \in SUBSET D
  BY MaxIsMember
<1>4. g = [s \in SUBSET D |-> IF s = {} THEN p ELSE Union(g[s \ {Max(s)}], a, seq[Max(s)])]
  <2>1. ASSUME NEW s \in SUBSET D
        PROVE  g[s] = IF s = {} THEN p ELSE Union(g[s \ {Max(s)}], a, seq[Max(s)])
    <3>1. CASE s = {}
      BY <1>2, <3>1 DEF Folded
    <3>2. CASE s # {}
      <4>1. g[s] = f[Max(s)][g[s \ {Max(s)}]] /\ g[s \ {Max(s)}] \in Forests
        BY <1>2, <1>3, <3>2 DEF Folded
      <4> QED BY <1>3, <3>2, <4>1
    <3> QED BY <3>1, <3>2
  <2>2. g = [s \in SUBSET D |-> g[s]]
    OBVIOUS
  <2> HIDE DEF D
  <2> QED BY <2>1, <2>2, Zenon
<1> DEFINE J == Joins(p, a, seq)
<1>5. J = [s \in SUBSET D |-> IF s = {} THEN p ELSE Union(J[s \ {Max(s)}], a, seq[Max(s)])]
  BY <1>0, <1>4 DEF Joins
<1> HIDE DEF J
<1>6. \A s \in SUBSET D : J[s] = IF s = {} THEN p ELSE Union(J[s \ {Max(s)}], a, seq[Max(s)])
  <2> HIDE DEF D
  <2> QED BY <1>5
<1> DEFINE Keeps(s) == {ws \in Closed(p) : \A i \in s : a \in ws <=> seq[i] \in ws}
           Dom(s)   == DOMAIN p \cup (IF s = {} THEN {} ELSE {a}) \cup {seq[i] : i \in s}
           Good     == {s \in SUBSET D :
                           J[s] \in Forests /\ DOMAIN J[s] = Dom(s) /\ Closed(J[s]) = Keeps(s)}
<1>7. ASSUME NEW s \in SUBSET D, \A i \in s : s \ {i} \in Good PROVE s \in Good
  <2>1. CASE s = {}
    <3>1. J[s] = p /\ Dom(s) = DOMAIN p /\ Keeps(s) = Closed(p)
      BY <1>6, <2>1
    <3> HIDE DEF Dom, Keeps
    <3> QED BY <3>1
  <2>2. CASE s # {}
    <3> DEFINE m == Max(s)
    <3>1. m \in s /\ m \in D /\ s \ {m} \in Good /\ seq[m] \in Wallets
      BY <1>3, <1>7, <2>2
    <3>2. J[s] = Union(J[s \ {m}], a, seq[m])
      BY <1>6, <2>2
    <3> HIDE DEF m
    <3>3. /\ J[s \ {m}] \in Forests /\ DOMAIN J[s \ {m}] = Dom(s \ {m})
          /\ Closed(J[s \ {m}]) = Keeps(s \ {m})
      BY <3>1
    <3>4. /\ J[s] \in Forests /\ DOMAIN J[s] = Dom(s \ {m}) \cup {a, seq[m]}
          /\ Closed(J[s]) = {ws \in Keeps(s \ {m}) : a \in ws <=> seq[m] \in ws}
      <4> DEFINE q == J[s \ {m}]
                 w == seq[m]
      <4>1. q \in Forests /\ w \in Wallets /\ a \in Wallets
        BY <3>1, <3>3
      <4> HIDE DEF q, w
      <4>2. IsUnion(q, a, w, Union(q, a, w))
        BY <4>1, UnionCloses
      <4>3. J[s] = Union(q, a, w) /\ DOMAIN q = Dom(s \ {m}) /\ Closed(q) = Keeps(s \ {m})
        BY <3>2, <3>3 DEF q, w
      <4> HIDE DEF Dom, Keeps, Good, J
      <4>4. /\ J[s] \in Forests /\ DOMAIN J[s] = Dom(s \ {m}) \cup {a, w}
            /\ Closed(J[s]) = Joined(q, a, w)
        BY ONLY <4>2, <4>3 DEF IsUnion
      <4>5. Joined(q, a, w) = {ws \in Keeps(s \ {m}) : a \in ws <=> w \in ws}
        BY ONLY <4>3 DEF Joined
      <4> QED BY <4>4, <4>5 DEF w
    <3>5. Dom(s) = Dom(s \ {m}) \cup {a, seq[m]}
      BY <3>1, <2>2
    <3>6. Keeps(s) = {ws \in Keeps(s \ {m}) : a \in ws <=> seq[m] \in ws}
      BY <3>1
    <3> HIDE DEF Dom, Keeps
    <3> QED BY <3>4, <3>5, <3>6
  <2> QED BY <2>1, <2>2
<1>8. SUBSET D \subseteq Good
  <2>1. IsFiniteSet(D)
    BY FS_Interval
  <2> HIDE DEF Good, D
  <2> QED BY <1>7, <2>1, SubsetsAreGood
<1> QED
  BY <1>8 DEF J, JoinedAt

\* The sets that have all or nothing of g.
WholeOrNone(g, ws) == g \subseteq ws \/ g \cap ws = {}

\* A group that is merged becomes one with all it meets.
LEMMA MergeGroupIs ==
  ASSUME NEW p \in Forests, NEW g \in SUBSET Wallets, g # {}
  PROVE  /\ MergeGroup(p, g) \in Forests
         /\ DOMAIN MergeGroup(p, g) = DOMAIN p \cup g
         /\ \A ws : ws \in Closed(MergeGroup(p, g)) <=> ws \in Closed(p) /\ WholeOrNone(g, ws)
<1> DEFINE a   == CHOOSE w \in g : TRUE
           seq == SetToSeq(g)
           n   == Cardinality(g)
           q   == MergeGroup(p, g)
<1>1. IsFiniteSet(g)
  BY BundlesAssumption, FS_Subset
<1>2. n \in Nat /\ seq \in [1 .. n -> g] /\ {seq[i] : i \in 1 .. n} = g
  BY <1>1, SetToSeqIs
<1>3. a \in g
  OBVIOUS
<1>4. q = Joins(p, a, seq)[DOMAIN seq]
  BY MergeGroupIsJoins
<1> HIDE DEF a, seq, n, q
<1>5. seq \in [1 .. n -> Wallets] /\ a \in Wallets /\ DOMAIN seq = 1 .. n
  BY <1>2, <1>3
<1>6. 1 .. n \in SUBSET (1 .. n) /\ 1 .. n # {}
  BY <1>2
<1>7. /\ q \in Forests
      /\ DOMAIN q = DOMAIN p \cup (IF 1 .. n = {} THEN {} ELSE {a}) \cup {seq[i] : i \in 1 .. n}
      /\ Closed(q) = {ws \in Closed(p) : \A i \in 1 .. n : a \in ws <=> seq[i] \in ws}
  <2>1. JoinedAt(p, a, seq, 1 .. n, Joins(p, a, seq)[1 .. n])
    BY <1>2, <1>5, <1>6, JoinsAre
  <2> QED BY <1>4, <1>5, <2>1 DEF JoinedAt
<1>8. DOMAIN q = DOMAIN p \cup g
  BY <1>2, <1>3, <1>6, <1>7
<1>9. ASSUME NEW ws
      PROVE  (\A i \in 1 .. n : a \in ws <=> seq[i] \in ws) <=> WholeOrNone(g, ws)
  <2>1. (\A i \in 1 .. n : a \in ws <=> seq[i] \in ws) <=> \A w \in g : a \in ws <=> w \in ws
    BY <1>2
  <2> QED BY <1>3, <2>1 DEF WholeOrNone
<1> QED
  BY <1>7, <1>8, <1>9 DEF q

\* Merging groups, in any order, keeps whole each of them, and no more.
LEMMA MergesAre ==
  ASSUME NEW p \in Forests, NEW n \in Nat, NEW seq \in [1 .. n -> SUBSET Wallets],
         \A i \in 1 .. n : seq[i] # {}
  PROVE  \A s \in SUBSET (1 .. n) :
            /\ Merges(p, seq)[s] \in Forests
            /\ DOMAIN Merges(p, seq)[s] = DOMAIN p \cup UNION {seq[i] : i \in s}
            /\ \A ws : ws \in Closed(Merges(p, seq)[s]) <=>
                          ws \in Closed(p) /\ \A i \in s : WholeOrNone(seq[i], ws)
<1> DEFINE D == 1 .. n
           f == [i \in D |-> [q \in Forests |-> MergeGroup(q, seq[i])]]
<1>0. DOMAIN seq = D
  OBVIOUS
<1>1. FoldSteps(n, Forests, p, f)
  BY MergeGroupIs DEF FoldSteps
<1>2. PICK g \in [SUBSET (1 .. n) -> Forests] : Folded(g, n, p, f)
  <2> HIDE DEF f
  <2> QED BY <1>1, FoldRecursion
<1>3. \A s \in SUBSET D : s # {} => Max(s) \in s /\ Max(s) \in D /\ s \ {Max(s)} \in SUBSET D
  BY MaxIsMember
<1>4. g = [s \in SUBSET D |-> IF s = {} THEN p ELSE MergeGroup(g[s \ {Max(s)}], seq[Max(s)])]
  <2>1. ASSUME NEW s \in SUBSET D
        PROVE  g[s] = IF s = {} THEN p ELSE MergeGroup(g[s \ {Max(s)}], seq[Max(s)])
    <3>1. CASE s = {}
      BY <1>2, <3>1 DEF Folded
    <3>2. CASE s # {}
      <4>1. g[s] = f[Max(s)][g[s \ {Max(s)}]] /\ g[s \ {Max(s)}] \in Forests
        BY <1>2, <1>3, <3>2 DEF Folded
      <4> QED BY <1>3, <3>2, <4>1
    <3> QED BY <3>1, <3>2
  <2>2. g = [s \in SUBSET D |-> g[s]]
    OBVIOUS
  <2> HIDE DEF D
  <2> QED BY <2>1, <2>2, Zenon
<1> DEFINE M == Merges(p, seq)
<1>5. M = [s \in SUBSET D |-> IF s = {} THEN p ELSE MergeGroup(M[s \ {Max(s)}], seq[Max(s)])]
  BY <1>0, <1>4 DEF Merges
<1> HIDE DEF M
<1>6. \A s \in SUBSET D : M[s] = IF s = {} THEN p ELSE MergeGroup(M[s \ {Max(s)}], seq[Max(s)])
  <2> HIDE DEF D
  <2> QED BY <1>5
<1> DEFINE Dom(s)  == DOMAIN p \cup UNION {seq[i] : i \in s}
           Keeps(ws, s) == ws \in Closed(p) /\ \A i \in s : WholeOrNone(seq[i], ws)
           Good    == {s \in SUBSET D :
                           /\ M[s] \in Forests /\ DOMAIN M[s] = Dom(s)
                           /\ \A ws : ws \in Closed(M[s]) <=> Keeps(ws, s)}
<1>7. ASSUME NEW s \in SUBSET D, \A i \in s : s \ {i} \in Good PROVE s \in Good
  <2>1. CASE s = {}
    <3>1. M[s] = p /\ Dom(s) = DOMAIN p /\ \A ws : Keeps(ws, s) <=> ws \in Closed(p)
      BY <1>6, <2>1
    <3> HIDE DEF Dom, Keeps
    <3> QED BY <3>1
  <2>2. CASE s # {}
    <3> DEFINE m == Max(s)
               q == M[s \ {m}]
               w == seq[m]
    <3>1. m \in s /\ m \in D /\ s \ {m} \in Good /\ w \in SUBSET Wallets /\ w # {}
      BY <1>3, <1>7, <2>2
    <3>2. M[s] = MergeGroup(q, w)
      BY <1>6, <2>2
    <3>3. /\ q \in Forests /\ DOMAIN q = Dom(s \ {m})
          /\ \A ws : ws \in Closed(q) <=> Keeps(ws, s \ {m})
      <4> HIDE DEF Dom, Keeps, m
      <4> QED BY <3>1
    <3>4. Dom(s) = Dom(s \ {m}) \cup w
      BY <3>1
    <3>5. \A ws : Keeps(ws, s) <=> Keeps(ws, s \ {m}) /\ WholeOrNone(w, ws)
      BY <3>1
    <3> HIDE DEF m, q, w, Dom, Keeps
    <3>6. /\ MergeGroup(q, w) \in Forests /\ DOMAIN MergeGroup(q, w) = DOMAIN q \cup w
          /\ \A ws : ws \in Closed(MergeGroup(q, w)) <=> ws \in Closed(q) /\ WholeOrNone(w, ws)
      BY <3>1, <3>3, MergeGroupIs
    <3> QED BY <3>2, <3>3, <3>4, <3>5, <3>6
  <2> QED BY <2>1, <2>2
<1>8. SUBSET D \subseteq Good
  <2>1. IsFiniteSet(D)
    BY FS_Interval
  <2> HIDE DEF Good, D
  <2> QED BY <1>7, <2>1, SubsetsAreGood
<1> QED
  BY <1>8 DEF M

---------------------------------------------------------------------------
(* The clusters *)

\* The groups are not empty, and finitely many.
LEMMA GroupsAre ==
  ASSUME NEW funders, NEW trades, \A b \in trades : b.buyer \in Wallets
  PROVE  /\ FundingGroups(funders) \subseteq (SUBSET Wallets) \ {{}}
         /\ TemporalGroups(trades) \subseteq (SUBSET Wallets) \ {{}}
         /\ IsFiniteSet(FundingGroups(funders)) /\ IsFiniteSet(TemporalGroups(trades))
<1>1. /\ Cardinality({}) = 0
      /\ MIN_FUNDING_WALLETS \in Nat \ {0} /\ MIN_TEMPORAL_WALLETS \in Nat \ {0}
  BY FS_EmptySet, BundlesAssumption
<1>2. FundingGroups(funders) \subseteq (SUBSET Wallets) \ {{}}
  <2> SUFFICES ASSUME NEW g \in FundingGroups(funders)
               PROVE  g \in SUBSET Wallets /\ g # {}
    OBVIOUS
  <2>1. g \in SUBSET Wallets /\ Cardinality(g) >= MIN_FUNDING_WALLETS
    BY DEF FundingGroups
  <2> QED BY <1>1, <2>1
<1>3. TemporalGroups(trades) \subseteq (SUBSET Wallets) \ {{}}
  <2> SUFFICES ASSUME NEW g \in TemporalGroups(trades)
               PROVE  g \in SUBSET Wallets /\ g # {}
    OBVIOUS
  <2>1. g \in SUBSET Wallets /\ Cardinality(g) >= MIN_TEMPORAL_WALLETS
    BY DEF TemporalGroups, GroupsBy, Within
  <2> QED BY <1>1, <2>1
<1>4. IsFiniteSet(SUBSET Wallets)
  BY BundlesAssumption, FS_SUBSET
<1> QED
  BY <1>2, <1>3, <1>4, FS_Subset

\* The parents at the end keep whole exactly what every group is in whole or not at all.
LEMMA MergedIs ==
  ASSUME NEW funders, NEW trades, \A b \in trades : b.buyer \in Wallets
  PROVE  LET groups == FundingGroups(funders) \cup TemporalGroups(trades)
         IN  /\ Merged(funders, trades) \in Forests
             /\ DOMAIN Merged(funders, trades) = UNION groups
             /\ \A ws : ws \in Closed(Merged(funders, trades)) <=>
                           ws \in SUBSET Wallets /\ \A g \in groups : WholeOrNone(g, ws)
<1> DEFINE F == FundingGroups(funders)
           T == TemporalGroups(trades)
           fs == SetToSeq(F)
           ts == SetToSeq(T)
           m == Cardinality(F)
           k == Cardinality(T)
           seq == fs \o ts
           none == [w \in {} |-> w]
           groups == F \cup T
<1>1. /\ F \subseteq (SUBSET Wallets) \ {{}} /\ T \subseteq (SUBSET Wallets) \ {{}}
      /\ IsFiniteSet(F) /\ IsFiniteSet(T)
  BY GroupsAre
<1>2. Merged(funders, trades) = Merges(none, seq)[DOMAIN seq]
  BY MergedIsMerges
<1> HIDE DEF F, T
<1>3. /\ m \in Nat /\ fs \in [1 .. m -> F] /\ {fs[i] : i \in 1 .. m} = F
      /\ k \in Nat /\ ts \in [1 .. k -> T] /\ {ts[i] : i \in 1 .. k} = T
  BY <1>1, SetToSeqIs
<1> HIDE DEF fs, ts, m, k
<1>4. /\ seq = [i \in 1 .. m + k |-> IF i <= m THEN fs[i] ELSE ts[i - m]]
      /\ DOMAIN seq = 1 .. m + k
  <2>1. fs \in Seq(groups) /\ ts \in Seq(groups) /\ Len(fs) = m /\ Len(ts) = k
    <3>1. fs \in [1 .. m -> groups] /\ ts \in [1 .. k -> groups]
      BY <1>3
    <3> HIDE DEF groups
    <3> QED BY <1>3, <3>1
  <2> HIDE DEF groups
  <2>2. seq \in Seq(groups) /\ Len(seq) = m + k
        /\ \A i \in 1 .. m + k : seq[i] = IF i <= m THEN fs[i] ELSE ts[i - m]
    BY <2>1, ConcatProperties
  <2>3. seq \in [1 .. m + k -> groups]
    BY <2>2, LenProperties
  <2>4. seq = [i \in 1 .. m + k |-> seq[i]]
    BY <2>3
  <2> HIDE DEF seq
  <2> QED BY <2>2, <2>3, <2>4
<1> HIDE DEF seq
<1>5. /\ seq \in [1 .. m + k -> SUBSET Wallets] /\ \A i \in 1 .. m + k : seq[i] # {}
      /\ {seq[i] : i \in 1 .. m + k} = groups
  <2>1. \A i \in 1 .. m + k : seq[i] \in groups
    <3>1. \A i \in 1 .. m + k : i \in 1 .. m \/ (i - m \in 1 .. k /\ ~(i <= m))
      BY <1>3
    <3> QED BY <1>3, <1>4, <3>1
  <2>2. \A g \in F : \E i \in 1 .. m + k : seq[i] = g
    <3>1. \A i \in 1 .. m : i \in 1 .. m + k /\ seq[i] = fs[i]
      BY <1>3, <1>4
    <3> QED BY <1>3, <3>1
  <2>3. \A g \in T : \E i \in 1 .. m + k : seq[i] = g
    <3>1. ASSUME NEW i \in 1 .. k PROVE i + m \in 1 .. m + k /\ seq[i + m] = ts[i]
      <4>1. i + m \in 1 .. m + k /\ ~(i + m <= m) /\ (i + m) - m = i
        BY <1>3
      <4> QED BY <1>4, <4>1
    <3> QED BY <1>3, <3>1
  <2> QED BY <1>1, <1>4, <2>1, <2>2, <2>3
<1>6. none \in Forests /\ DOMAIN none = {} /\ Closed(none) = SUBSET Wallets
  <2>1. none \in [{} -> {}] /\ DOMAIN none = {}
    OBVIOUS
  <2> DEFINE rank == [w \in {} |-> 0]
  <2>2. rank \in [DOMAIN none -> 0 .. 0] /\ Ranked(none, rank, 0)
    BY <2>1 DEF Ranked
  <2>3. Forest(none)
    <3> HIDE DEF none, rank
    <3> QED BY <2>2 DEF Forest
  <2> HIDE DEF none
  <2> QED BY <2>1, <2>3, ForestsAre DEF Closed
<1> HIDE DEF none
<1> DEFINE D == 1 .. m + k
           M == Merges(none, seq)
<1>7. \A s \in SUBSET (1 .. m + k) :
            /\ M[s] \in Forests
            /\ DOMAIN M[s] = DOMAIN none \cup UNION {seq[i] : i \in s}
            /\ \A ws : ws \in Closed(M[s]) <=>
                          ws \in Closed(none) /\ \A i \in s : WholeOrNone(seq[i], ws)
  <2>1. m + k \in Nat
    BY <1>3
  <2> DEFINE n == m + k
  <2>2. n \in Nat /\ seq \in [1 .. n -> SUBSET Wallets] /\ \A i \in 1 .. n : seq[i] # {}
    BY <1>5, <2>1
  <2> HIDE DEF n
  <2>3. \A s \in SUBSET (1 .. n) :
            /\ M[s] \in Forests
            /\ DOMAIN M[s] = DOMAIN none \cup UNION {seq[i] : i \in s}
            /\ \A ws : ws \in Closed(M[s]) <=>
                          ws \in Closed(none) /\ \A i \in s : WholeOrNone(seq[i], ws)
    BY <1>6, <2>2, MergesAre, Zenon
  <2> QED BY <2>3 DEF n
<1> HIDE DEF M
<1>8. D \in SUBSET D /\ UNION {seq[i] : i \in D} = UNION groups
  BY <1>5
<1>9. \A ws : (\A i \in D : WholeOrNone(seq[i], ws)) <=> \A g \in groups : WholeOrNone(g, ws)
  BY <1>5
<1>10. Merged(funders, trades) = M[D]
  BY <1>2, <1>4 DEF M
<1> HIDE DEF D, groups
<1>11. /\ M[D] \in Forests /\ DOMAIN M[D] = UNION groups
       /\ \A ws : ws \in Closed(M[D]) <=>
                    ws \in SUBSET Wallets /\ \A g \in groups : WholeOrNone(g, ws)
  <2>1. DOMAIN M[D] = {} \cup UNION groups
    BY <1>6, <1>7, <1>8 DEF D
  <2>2. M[D] \in Forests
    BY <1>7, <1>8 DEF D
  <2>3. \A ws : ws \in Closed(M[D]) <=>
                   ws \in SUBSET Wallets /\ \A i \in D : WholeOrNone(seq[i], ws)
    BY <1>6, <1>7, <1>8 DEF D
  <2> QED BY <1>9, <2>1, <2>2, <2>3
<1> QED
  BY <1>10, <1>11 DEF groups, F, T

\* The sets under the roots are the connected sets of wallets.
LEMMA ClustersAre ==
  ASSUME NEW funders, NEW trades, \A b \in trades : b.buyer \in Wallets
  PROVE  Clusters(funders, trades) = LinkedClusters(funders, trades)
<1> DEFINE parent    == Merged(funders, trades)
           groups    == FundingGroups(funders) \cup TemporalGroups(trades)
           closed    == {ws \in SUBSET Wallets : \A g \in groups : g \subseteq ws \/ g \cap ws = {}}
           around(w) == {v \in Wallets : \A ws \in closed : w \in ws => v \in ws}
           funded    == UNION FundingGroups(funders)
           under(r)  == {w \in DOMAIN parent : Root(parent, w) = r}
           cluster(ws) == [wallets |-> ws, kind |-> IF ws \cap funded # {} THEN "funding" ELSE "temporal"]
           roots     == {w \in DOMAIN parent : parent[w] = w}
<1>1. /\ parent \in Forests /\ DOMAIN parent = UNION groups
      /\ \A ws : ws \in Closed(parent) <=>
                    ws \in SUBSET Wallets /\ \A g \in groups : WholeOrNone(g, ws)
  BY MergedIs
<1>2. Closed(parent) = closed
  <2> HIDE DEF parent, groups
  <2> QED BY <1>1 DEF WholeOrNone
<1>3. Forest(parent) /\ DOMAIN parent \subseteq Wallets
  BY <1>1, ForestsAre
<1>4. Clusters(funders, trades) = {cluster(under(r)) : r \in roots}
  BY DEF Clusters
<1>5. LinkedClusters(funders, trades) = {cluster(around(w)) : w \in UNION groups}
  BY DEF LinkedClusters
<1> HIDE DEF parent, groups, closed, funded
<1>6. ASSUME NEW w \in DOMAIN parent PROVE around(w) = under(Root(parent, w))
  <2> DEFINE r == Root(parent, w)
  <2>1. r \in DOMAIN parent /\ \A v \in DOMAIN parent :
            Root(parent, v) \in DOMAIN parent /\ Root(parent, Root(parent, v)) = Root(parent, v)
    BY <1>3, RootIs, RootOfRoot
  <2>2. under(r) \in closed
    <3>1. under(r) \in SUBSET Wallets
      BY <1>3
    <3>2. \A x \in DOMAIN parent : x \in under(r) <=> Root(parent, x) \in under(r)
      BY <2>1
    <3> HIDE DEF under, r
    <3>3. under(r) \in Closed(parent)
      BY <3>1, <3>2 DEF Closed
    <3> QED BY <1>2, <3>3
  <2>3. w \in under(r)
    OBVIOUS
  <2>4. ASSUME NEW v \in under(r), NEW ws \in closed, w \in ws PROVE v \in ws
    <3>1. \A x \in DOMAIN parent : x \in ws <=> Root(parent, x) \in ws
      BY <1>2 DEF Closed
    <3> QED BY <2>4, <3>1
  <2>5. under(r) \subseteq Wallets
    BY <1>3
  <2> HIDE DEF under, r
  <2>6. around(w) = under(r)
    BY <2>2, <2>3, <2>4, <2>5
  <2> QED BY <2>6 DEF r
<1>7. \A w \in DOMAIN parent : Root(parent, w) \in roots
  BY <1>3, RootIs
<1>8. \A r \in roots : r \in DOMAIN parent /\ Root(parent, r) = r
  BY <1>3, RootOfRoot
<1> HIDE DEF around, under, cluster, roots
<1>9. {cluster(under(r)) : r \in roots} = {cluster(around(w)) : w \in UNION groups}
  BY <1>1, <1>6, <1>7, <1>8
<1> QED
  BY <1>4, <1>5, <1>9

\* Any wallets, any funders known of them and any buys: union-find, with its path
\* compression and whatever the order of groups and wallets, ends with the
\* clusters that the links describe, and calls each what it is.
THEOREM ClustersOfAnyBuys ==
  (\A b \in buys : b.buyer \in Wallets) => ClustersAreLinks
  BY ClustersAre DEF ClustersAreLinks
=============================================================================
