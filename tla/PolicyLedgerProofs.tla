-------------------------- MODULE PolicyLedgerProofs --------------------------
(***************************************************************************)
(* Proofs about PolicyLedger and the tables it scores with, for any        *)
(* targets, globs, policies, CSV files, writers, scans, detections and     *)
(* horizons.                                                               *)
(***************************************************************************)
EXTENDS PolicyLedger, WellFoundedInduction, TLAPS

(* A set of natural numbers that is not empty has a least element. *)
LEMMA LeastNumber ==
  ASSUME NEW S \in SUBSET Nat, S # {}
  PROVE  \E m \in S : \A n \in S : m <= n
<1> DEFINE Less == {p \in Nat \X Nat : p[1] < p[2]}
<1>1. IsWellFoundedOn(Less, Nat)
  BY NatLessThanWellFounded DEF OpToRel
<1>2. \E m \in S : \A n \in S : <<n, m>> \notin Less
  <2> HIDE DEF Less
  <2> QED
    BY <1>1, WFMin
<1>3. PICK m \in S : \A n \in S : <<n, m>> \notin Less
  BY <1>2
<1>4. ASSUME NEW n \in S
      PROVE  m <= n
  <2>1. ~(n < m)
    BY <1>3
  <2> QED
    BY <2>1
<1> QED
  BY <1>4

(* A set of numbers up to a bound that is not empty has a greatest one. *)
LEMMA GreatestNumber ==
  ASSUME NEW bound \in Nat, NEW S \in SUBSET (0..bound), S # {}
  PROVE  \E m \in S : \A n \in S : n <= m
<1> DEFINE T == {bound - n : n \in S}
<1>1. T \in SUBSET Nat /\ T # {}
  <2>1. \A n \in S : n \in 0..bound
    OBVIOUS
  <2>2. \A n \in S : bound - n \in Nat
    BY <2>1
  <2> QED
    BY <2>2
<1>2. PICK least \in T : \A t \in T : least <= t
  BY <1>1, LeastNumber
<1>3. PICK m \in S : least = bound - m
  BY <1>2
<1>4. \A n \in S : bound - n \in T
  OBVIOUS
<1>5. \A n \in S : bound - m <= bound - n
  BY <1>2, <1>3, <1>4
<1> QED
  BY <1>5

(* Induction, with the set of the numbers that have the property. *)
LEMMA Induction ==
  ASSUME NEW S, 0 \in S, \A n \in Nat : n \in S => n + 1 \in S
  PROVE  Nat \subseteq S
<1> SUFFICES ASSUME Nat \ S # {}
             PROVE  FALSE
  OBVIOUS
<1>1. PICK m \in Nat \ S : \A n \in Nat \ S : m <= n
  BY LeastNumber
<1>2. m - 1 \in Nat /\ m - 1 \in S
  BY <1>1
<1> QED
  BY <1>1, <1>2
-----------------------------------------------------------------------------
(* The rows of one target *)

(* Kept is the function its recursion describes. *)
LEMMA KeptUnfolds ==
  ASSUME NEW R, NEW recs \in Seq(R), NEW t
  PROVE  Kept(recs, t) =
           [n \in 0..Len(recs) |->
              IF n = 0 THEN <<>>
              ELSE IF recs[n].target = t THEN Append(Kept(recs, t)[n - 1], recs[n])
              ELSE Kept(recs, t)[n - 1]]
<1> DEFINE Body(f, n) == IF n = 0 THEN <<>>
                         ELSE IF recs[n].target = t THEN Append(f[n - 1], recs[n])
                         ELSE f[n - 1]
           Solves(f, m) == f = [n \in 0..m |-> Body(f, n)]
           Solved == {m \in Nat : m <= Len(recs) => \E f : Solves(f, m)}
<1>1. Kept(recs, t) = CHOOSE f : Solves(f, Len(recs))
  BY DEF Kept
<1>2. 0 \in Solved
  <2>1. Solves([n \in 0..0 |-> <<>>], 0)
    OBVIOUS
  <2> QED
    BY <2>1
<1>3. ASSUME NEW m \in Nat, m \in Solved
      PROVE  m + 1 \in Solved
  <2> HIDE DEF Solves
  <2> SUFFICES ASSUME m + 1 <= Len(recs)
               PROVE  \E f : Solves(f, m + 1)
    OBVIOUS
  <2> USE DEF Solves
  <2>1. PICK f : Solves(f, m)
    BY <1>3
  <2> DEFINE g == [n \in 0..(m + 1) |-> IF n <= m THEN f[n] ELSE Body(f, n)]
  <2>2. \A n \in 0..m : f[n] = Body(f, n)
    BY <2>1
  <2>3. \A n \in 0..(m + 1) : g[n] = Body(g, n)
    <3> TAKE n \in 0..(m + 1)
    <3>1. n # 0 => g[n - 1] = f[n - 1]
      OBVIOUS
    <3>2. Body(g, n) = Body(f, n)
      BY <3>1
    <3> QED
      BY <2>2, <3>2
  <2>4. Solves(g, m + 1)
    BY <2>3
  <2> QED
    BY <2>4
<1>4. Len(recs) \in Solved
  <2> HIDE DEF Solved
  <2> QED
    BY <1>2, <1>3, Induction
<1>5. \E f : Solves(f, Len(recs))
  BY <1>4
<1>6. Solves(Kept(recs, t), Len(recs))
  <2> HIDE DEF Solves
  <2> QED
    BY <1>1, <1>5
<1> QED
  BY <1>6

(* How Kept goes on, one row after the other. *)
LEMMA KeptStep ==
  ASSUME NEW R, NEW recs \in Seq(R), NEW t
  PROVE  /\ Kept(recs, t)[0] = <<>>
         /\ \A n \in 1..Len(recs) :
              Kept(recs, t)[n] = IF recs[n].target = t
                                 THEN Append(Kept(recs, t)[n - 1], recs[n])
                                 ELSE Kept(recs, t)[n - 1]
<1> DEFINE F == Kept(recs, t)
<1>1. F = [n \in 0..Len(recs) |-> IF n = 0 THEN <<>>
                                 ELSE IF recs[n].target = t THEN Append(F[n - 1], recs[n])
                                 ELSE F[n - 1]]
  BY KeptUnfolds
<1> HIDE DEF F
<1>2. \A n \in 0..Len(recs) : F[n] = IF n = 0 THEN <<>>
                                 ELSE IF recs[n].target = t THEN Append(F[n - 1], recs[n])
                                 ELSE F[n - 1]
  BY <1>1
<1>3. Len(recs) \in Nat
  OBVIOUS
<1>4. F[0] = <<>>
  BY <1>2, <1>3
<1>5. \A n \in 1..Len(recs) : n \in 0..Len(recs) /\ n # 0
  BY <1>3
<1>6. \A n \in 1..Len(recs) : F[n] = IF recs[n].target = t THEN Append(F[n - 1], recs[n])
                                     ELSE F[n - 1]
  BY <1>2, <1>5
<1> QED
  BY <1>4, <1>6 DEF F

(* A list with one more member. *)
LEMMA AppendIs ==
  ASSUME NEW R, NEW list \in Seq(R), NEW e \in R
  PROVE  /\ Append(list, e) \in Seq(R)
         /\ Len(Append(list, e)) = Len(list) + 1
         /\ \A i \in 1..Len(list) : Append(list, e)[i] = list[i]
         /\ Append(list, e)[Len(list) + 1] = e
OBVIOUS

(* OfTarget returns rows of the list, of the target, and each of these. *)
LEMMA OfTargetKeeps ==
  ASSUME NEW R, NEW recs \in Seq(R), NEW t
  PROVE  LET kept == OfTarget(recs, t) IN
         /\ kept \in Seq(R)
         /\ \A i \in 1..Len(kept) : kept[i].target = t /\ \E j \in 1..Len(recs) : kept[i] = recs[j]
         /\ \A j \in 1..Len(recs) : recs[j].target = t =>
              \E i \in 1..Len(kept) : kept[i] = recs[j]
<1> DEFINE K(n) == Kept(recs, t)[n]
           Keeps(n) == /\ K(n) \in Seq(R)
                       /\ \A i \in 1..Len(K(n)) : /\ K(n)[i].target = t
                                                  /\ \E j \in 1..n : K(n)[i] = recs[j]
                       /\ \A j \in 1..n : recs[j].target = t =>
                            \E i \in 1..Len(K(n)) : K(n)[i] = recs[j]
           Kept0 == {n \in Nat : n <= Len(recs) => Keeps(n)}
<1>1. 0 \in Kept0
  <2>1. K(0) = <<>>
    BY KeptStep
  <2> HIDE DEF K
  <2>0. <<>> \in Seq(R) /\ Len(<<>>) = 0
    OBVIOUS
  <2>2. K(0) \in Seq(R) /\ Len(K(0)) = 0
    BY <2>0, <2>1
  <2>3. 1..0 = {}
    OBVIOUS
  <2>4. Keeps(0)
    BY <2>2, <2>3
  <2> QED
    BY <2>4
<1>2. ASSUME NEW n \in Nat, n \in Kept0
      PROVE  n + 1 \in Kept0
  <2> HIDE DEF Keeps
  <2> SUFFICES ASSUME n + 1 <= Len(recs)
               PROVE  Keeps(n + 1)
    OBVIOUS
  <2>1. Keeps(n)
    BY <1>2
  <2> USE DEF Keeps
  <2>2. K(n + 1) = IF recs[n + 1].target = t THEN Append(K(n), recs[n + 1]) ELSE K(n)
    <3>1. n + 1 \in 1..Len(recs) /\ (n + 1) - 1 = n
      OBVIOUS
    <3> QED
      BY <3>1, KeptStep
  <2>3. recs[n + 1] \in R
    OBVIOUS
  <2>4. CASE recs[n + 1].target = t
    <3> DEFINE L == K(n)
               M == K(n + 1)
               e == recs[n + 1]
    <3>1. M = Append(L, e) /\ L \in Seq(R)
      BY <2>1, <2>2, <2>4
    <3>2. /\ K(n + 1) \in Seq(R) /\ Len(K(n + 1)) = Len(L) + 1
          /\ \A i \in 1..Len(L) : K(n + 1)[i] = L[i]
          /\ K(n + 1)[Len(L) + 1] = recs[n + 1]
      <4> HIDE DEF L, M, e, K
      <4>1. /\ M \in Seq(R) /\ Len(M) = Len(L) + 1
            /\ \A i \in 1..Len(L) : M[i] = L[i]
            /\ M[Len(L) + 1] = e
        BY <2>3, <3>1, AppendIs DEF e
      <4> QED
        BY <4>1 DEF M, e
    <3>3. \A i \in 1..Len(L) : L[i].target = t /\ \E j \in 1..n : L[i] = recs[j]
      BY <2>1
    <3>4. \A j \in 1..n : recs[j].target = t => \E i \in 1..Len(L) : L[i] = recs[j]
      BY <2>1
    <3>5. \A i \in 1..Len(K(n + 1)) :
            K(n + 1)[i].target = t /\ \E j \in 1..(n + 1) : K(n + 1)[i] = recs[j]
      <4> HIDE DEF L, K
      <4> TAKE i \in 1..Len(K(n + 1))
      <4>1. CASE i = Len(L) + 1
        BY <4>1, <3>2, <2>4
      <4>2. CASE i \in 1..Len(L)
        BY <4>2, <3>2, <3>3
      <4> QED
        BY <4>1, <4>2, <3>1, <3>2
    <3>6. \A j \in 1..(n + 1) : recs[j].target = t =>
            \E i \in 1..Len(K(n + 1)) : K(n + 1)[i] = recs[j]
      <4> HIDE DEF L, K
      <4> TAKE j \in 1..(n + 1)
      <4>0. Len(L) \in Nat
        BY <3>1
      <4>1. CASE j = n + 1
        BY <4>0, <4>1, <3>2
      <4>2. CASE j \in 1..n
        BY <4>0, <4>2, <3>2, <3>4
      <4> QED
        BY <4>1, <4>2
    <3> QED
      BY <3>2, <3>5, <3>6
  <2>5. CASE recs[n + 1].target # t
    <3>1. K(n + 1) = K(n)
      BY <2>2, <2>5
    <3> HIDE DEF K
    <3> QED
      BY <2>1, <2>5, <3>1
  <2> QED
    BY <2>4, <2>5
<1>3. Len(recs) \in Kept0
  <2> HIDE DEF Kept0
  <2> QED
    BY <1>1, <1>2, Induction
<1>4. Keeps(Len(recs))
  BY <1>3
<1> QED
  BY <1>4 DEF OfTarget
-----------------------------------------------------------------------------
(* Scores *)

(* What division leaves over is less than the divisor. *)
LEMMA Division ==
  ASSUME NEW n \in Nat, NEW m \in Nat \ {0}
  PROVE  /\ n \div m \in Nat
         /\ m * (n \div m) <= n
         /\ n < m * (n \div m) + m
OBVIOUS

(* Rounding stays on the side of a whole limit where the fraction is. *)
LEMMA RoundedBounds ==
  ASSUME NEW a \in Nat, NEW b \in Nat \ {0}, NEW limit \in Nat
  PROVE  /\ Rounded(<<a, b>>) \in Nat
         /\ a <= limit * b => Rounded(<<a, b>>) <= limit
         /\ a >= limit * b => Rounded(<<a, b>>) >= limit
<1> DEFINE q == (2 * a + b) \div (2 * b)
<1>1. 2 * a + b \in Nat /\ 2 * b \in Nat \ {0}
  OBVIOUS
<1>2. q \in Nat /\ 2 * b * q <= 2 * a + b /\ 2 * a + b < 2 * b * q + 2 * b
  BY <1>1, Division
<1>3. Rounded(<<a, b>>) = q
  BY DEF Rounded
<1> HIDE DEF q
<1>4. ASSUME a <= limit * b, q >= limit + 1
      PROVE  FALSE
  <2>1. b * q >= b * (limit + 1)
    BY <1>2, <1>4
  <2> QED
    BY <1>2, <1>4, <2>1
<1>5. ASSUME a >= limit * b, q <= limit - 1
      PROVE  FALSE
  <2>1. b * (q + 1) <= b * limit
    BY <1>2, <1>5
  <2> QED
    BY <1>2, <1>5, <2>1
<1> QED
  BY <1>2, <1>3, <1>4, <1>5

(* The greater of two fractions is not rounded to less. *)
LEMMA RoundedMonotonic ==
  ASSUME NEW a \in Nat, NEW b \in Nat \ {0}, NEW c \in Nat, NEW d \in Nat \ {0},
         a * d >= c * b
  PROVE  Rounded(<<a, b>>) >= Rounded(<<c, d>>)
<1> DEFINE q == (2 * a + b) \div (2 * b)
           r == (2 * c + d) \div (2 * d)
<1>1. q \in Nat /\ 2 * b * q <= 2 * a + b /\ 2 * a + b < 2 * b * q + 2 * b
  <2>1. 2 * a + b \in Nat /\ 2 * b \in Nat \ {0}
    OBVIOUS
  <2> QED
    BY <2>1, Division
<1>2. r \in Nat /\ 2 * d * r <= 2 * c + d /\ 2 * c + d < 2 * d * r + 2 * d
  <2>1. 2 * c + d \in Nat /\ 2 * d \in Nat \ {0}
    OBVIOUS
  <2> QED
    BY <2>1, Division
<1>3. Rounded(<<a, b>>) = q /\ Rounded(<<c, d>>) = r
  BY DEF Rounded
<1> HIDE DEF q, r
<1>4. ASSUME r >= q + 1
      PROVE  FALSE
  <2>1. b * d \in Nat \ {0}
    OBVIOUS
  <2>2. (2 * a + b) * d < (2 * b * q + 2 * b) * d
    BY <1>1
  <2>3. (2 * d * r) * b <= (2 * c + d) * b
    BY <1>2
  <2>4. (2 * d * r) * b >= (2 * d * (q + 1)) * b
    BY <1>1, <1>2, <1>4, <2>1
  <2>5. (2 * b * q + 2 * b) * d = (2 * d * (q + 1)) * b
    BY <1>1
  <2>6. (2 * a + b) * d = 2 * (a * d) + b * d /\ (2 * c + d) * b = 2 * (c * b) + b * d
    OBVIOUS
  <2>7. (2 * c + d) * b <= (2 * a + b) * d
    BY <2>1, <2>6
  <2> QED
    BY <1>1, <1>2, <2>2, <2>3, <2>4, <2>5, <2>7
<1> QED
  BY <1>1, <1>2, <1>3, <1>4

(* The ranges of the weights. *)
LEMMA WeightRanges ==
  ASSUME NEW d \in Detection, NEW ctx \in Context
  PROVE  /\ Vulnerability(d) \in 0..20
         /\ FunctionWeight(d.function) \in 1..18
         /\ ExposureWeight(ctx.exposure) \in 1..10
         /\ CriticalityWeight(ctx.criticality) \in 1..10
<1>1. Vulnerability(d) \in 0..20
  <2>1. JudgedFamily(d) \in Family \cup {None}
    BY DEF JudgedFamily, Detection, Family
  <2> QED
    BY <2>1, NoneIsUntold DEF Vulnerability, Family, ShorBroken, PostQuantum,
                              ClassicallyBroken, HashFamilies
<1>2. FunctionWeight(d.function) \in 1..18
  BY DEF FunctionWeight, Detection, CryptoFunction
<1>3. ExposureWeight(ctx.exposure) \in 1..10
  BY DEF ExposureWeight, Context, Exposure
<1>4. CriticalityWeight(ctx.criticality) \in 1..10
  BY DEF CriticalityWeight, Context, Criticality
<1> QED
  BY <1>1, <1>2, <1>3, <1>4

(* The product of the weights but the urgency. *)
Weight(d, ctx) == Vulnerability(d) * FunctionWeight(d.function) * ExposureWeight(ctx.exposure)
                    * CriticalityWeight(ctx.criticality)

LEMMA WeightRange ==
  ASSUME NEW d \in Detection, NEW ctx \in Context
  PROVE  Weight(d, ctx) \in Nat /\ Weight(d, ctx) <= 36000
<1> DEFINE v == Vulnerability(d)
           f == FunctionWeight(d.function)
           e == ExposureWeight(ctx.exposure)
           k == CriticalityWeight(ctx.criticality)
<1>1. v \in 0..20 /\ f \in 1..18 /\ e \in 1..10 /\ k \in 1..10
  BY WeightRanges
<1> HIDE DEF v, f, e, k
<1>2. v * f \in 0..360
  BY <1>1
<1>3. v * f * e \in 0..3600
  BY <1>1, <1>2
<1>4. v * f * e * k \in Nat /\ v * f * e * k <= 36000
  BY <1>1, <1>3
<1>5. Weight(d, ctx) = v * f * e * k
  BY DEF Weight, v, f, e, k
<1> QED
  BY <1>4, <1>5

(* An urgency is a fraction between 1/20 and 1. *)
LEMMA UrgencyRange ==
  ASSUME NEW ctx \in Context, NEW z \in Nat, NEW broken \in BOOLEAN, broken \/ z # 0
  PROVE  LET u == Urgency(broken, ctx, z) IN
         u[1] \in Nat /\ u[2] \in Nat \ {0} /\ u[1] <= u[2]
BY DEF Urgency, Clamp, Context

(* An earlier horizon is as urgent or more. *)
LEMMA UrgencyMonotonic ==
  ASSUME NEW ctx \in Context, NEW y \in Nat \ {0}, NEW z \in Nat \ {0}, y <= z,
         NEW broken \in BOOLEAN
  PROVE  LET u == Urgency(broken, ctx, y)
             w == Urgency(broken, ctx, z)
         IN  u[1] * w[2] >= w[1] * u[2]
<1> DEFINE n == 10 * (ctx.shelfLife + ctx.migration)
<1>1. n \in Nat
  BY DEF Context
<1>2. CASE broken
  BY <1>2 DEF Urgency
<1>3. CASE ~broken
  <2>1. /\ Urgency(broken, ctx, y) = <<Clamp(n, y, 20 * y), 20 * y>>
        /\ Urgency(broken, ctx, z) = <<Clamp(n, z, 20 * z), 20 * z>>
    BY <1>3 DEF Urgency
  <2> HIDE DEF n
  <2>2. Clamp(n, y, 20 * y) * z >= Clamp(n, z, 20 * z) * y
    <3>1. n * z >= n * y /\ y * z = z * y /\ (20 * y) * z = (20 * z) * y
      BY <1>1
    <3>2. CASE n < y
      BY <1>1, <3>1, <3>2 DEF Clamp
    <3>3. CASE n >= y /\ n <= 20 * y
      <4>1. CASE n < z
        <5>1. n * z >= y * z
          BY <1>1, <3>3
        <5> QED
          BY <1>1, <3>1, <3>3, <4>1, <5>1 DEF Clamp
      <4>2. CASE n >= z
        BY <1>1, <3>1, <3>3, <4>2 DEF Clamp
      <4> QED
        BY <1>1, <4>1, <4>2
    <3>4. CASE n > 20 * y
      <4>1. CASE n < z
        BY <1>1, <3>1, <3>4, <4>1 DEF Clamp
      <4>2. CASE n >= z /\ n <= 20 * z
        <5>1. n * y <= (20 * z) * y
          BY <1>1, <4>2
        <5> QED
          BY <1>1, <3>1, <3>4, <4>2, <5>1 DEF Clamp
      <4>3. CASE n > 20 * z
        BY <1>1, <3>1, <3>4, <4>3 DEF Clamp
      <4> QED
        BY <1>1, <4>1, <4>2, <4>3
    <3> QED
      BY <1>1, <3>2, <3>3, <3>4
  <2> DEFINE cy == Clamp(n, y, 20 * y)
             cz == Clamp(n, z, 20 * z)
  <2>3. cy \in Nat /\ cz \in Nat
    BY <1>1 DEF Clamp
  <2> HIDE DEF cy, cz
  <2>4. cy * z >= cz * y
    BY <2>2 DEF cy, cz
  <2>5. cy * (20 * z) >= cz * (20 * y)
    BY <2>3, <2>4
  <2> QED
    BY <2>1, <2>5 DEF cy, cz
<1> QED
  BY <1>2, <1>3

LEMMA Scaled ==
  ASSUME NEW w \in Nat, w <= 36000, NEW a \in Nat, NEW b \in Nat \ {0}, a <= b
  PROVE  w * a \in Nat /\ w * a <= 9000 * (4 * b)
<1>1. w * a \in Nat /\ w * a <= 36000 * a
  OBVIOUS
<1>2. 36000 * a <= 36000 * b /\ 36000 * b = 9000 * (4 * b)
  OBVIOUS
<1> QED
  BY <1>1, <1>2

(* The fraction that is rounded to the score lies between 0 and 9000. *)
LEMMA ScoreRange ==
  ASSUME NEW d \in Detection, NEW ctx \in Context, NEW z \in Nat, HasScore(d, z)
  PROVE  LET x == ExactScore(d, ctx, z) IN
         /\ x = <<x[1], x[2]>>
         /\ x[1] \in Nat /\ x[2] \in Nat \ {0} /\ x[1] <= 9000 * x[2]
<1> DEFINE u == Urgency(IsClassicallyBroken(d), ctx, z)
           w == Weight(d, ctx)
<1>1. IsClassicallyBroken(d) \in BOOLEAN /\ (IsClassicallyBroken(d) \/ z # 0)
  BY DEF IsClassicallyBroken, HasScore
<1>2. u[1] \in Nat /\ u[2] \in Nat \ {0} /\ u[1] <= u[2]
  BY <1>1, UrgencyRange
<1>3. w \in Nat /\ w <= 36000
  BY WeightRange
<1>4. ExactScore(d, ctx, z) = <<w * u[1], 4 * u[2]>>
  BY DEF ExactScore, Weight
<1> HIDE DEF u, w
<1>5. w * u[1] \in Nat /\ w * u[1] <= 9000 * (4 * u[2])
  BY <1>2, <1>3, Scaled
<1>6. 4 * u[2] \in Nat \ {0}
  BY <1>2
<1> QED
  BY <1>4, <1>5, <1>6

(* An earlier horizon gives the greater fraction or the same. *)
LEMMA ExactMonotonic ==
  ASSUME NEW d \in Detection, NEW ctx \in Context, NEW y \in Nat, NEW z \in Nat, y <= z,
         HasScore(d, y), HasScore(d, z)
  PROVE  LET x == ExactScore(d, ctx, y)
             v == ExactScore(d, ctx, z)
         IN  x[1] * v[2] >= v[1] * x[2]
<1> DEFINE broken == IsClassicallyBroken(d)
           s == Urgency(broken, ctx, y)
           t == Urgency(broken, ctx, z)
           w == Weight(d, ctx)
<1>1. broken \in BOOLEAN /\ (broken \/ y # 0) /\ (broken \/ z # 0)
  BY DEF IsClassicallyBroken, HasScore
<1>2. /\ s[1] \in Nat /\ s[2] \in Nat \ {0}
      /\ t[1] \in Nat /\ t[2] \in Nat \ {0}
  <2> HIDE DEF broken
  <2> QED
    BY <1>1, UrgencyRange
<1>3. s[1] * t[2] >= t[1] * s[2]
  <2>1. CASE broken
    BY <2>1 DEF Urgency
  <2>2. CASE ~broken
    <3> HIDE DEF broken
    <3> QED
      BY <1>1, <2>2, UrgencyMonotonic
  <2> QED
    BY <2>1, <2>2
<1>4. w \in Nat
  BY WeightRange
<1>5. /\ ExactScore(d, ctx, y) = <<w * s[1], 4 * s[2]>>
      /\ ExactScore(d, ctx, z) = <<w * t[1], 4 * t[2]>>
  BY DEF ExactScore, Weight
<1> HIDE DEF s, t, w, broken
<1>6. w * (s[1] * t[2]) >= w * (t[1] * s[2])
  <2> DEFINE p == s[1] * t[2]
             q == t[1] * s[2]
  <2>1. p \in Nat /\ q \in Nat /\ p >= q
    BY <1>2, <1>3
  <2> HIDE DEF p, q
  <2>2. w * p >= w * q
    BY <1>4, <2>1
  <2> QED
    BY <2>2 DEF p, q
<1>7. /\ (w * s[1]) * (4 * t[2]) = 4 * (w * (s[1] * t[2]))
      /\ (w * t[1]) * (4 * s[2]) = 4 * (w * (t[1] * s[2]))
  BY <1>2, <1>4
<1>8. w * (s[1] * t[2]) \in Nat /\ w * (t[1] * s[2]) \in Nat
  BY <1>2, <1>4
<1>9. (w * s[1]) * (4 * t[2]) >= (w * t[1]) * (4 * s[2])
  BY <1>6, <1>7, <1>8
<1> QED
  BY <1>5, <1>9

(* The bands of a fraction are those of its limits. *)
LEMMA BandLimits ==
  ASSUME NEW a \in Nat, NEW b \in Nat \ {0}
  PROVE  /\ BandForScore(<<a, b>>) \in Band
         /\ \A limit \in AtOrAbove :
              limit[1] \in Nat /\ (BandForScore(<<a, b>>) \in limit[2] <=> a >= limit[1] * b)
BY DEF BandForScore, AtLeast, AtOrAbove, Band

(* What is stored of a score: its range, the floor, and its band. *)
LEMMA FlooredSound ==
  ASSUME NEW d \in Detection, NEW ctx \in Context, NEW z \in Nat, HasScore(d, z)
  PROVE  LET r == Floored(d, ctx, ExactScore(d, ctx, z)) IN
         /\ r.score \in Nat /\ r.score <= 9000 /\ r.band \in Band
         /\ (d.function = "keygen" /\ Vulnerability(d) = 20 /\ ctx.exposure # "test")
            => r.score >= PrivateKeyFloor /\ r.band = "critical"
         /\ \A limit \in AtOrAbove :
              /\ r.score > limit[1] => r.band \in limit[2]
              /\ r.score < limit[1] => r.band \notin limit[2]
<1> DEFINE x == ExactScore(d, ctx, z)
           r == Floored(d, ctx, x)
           key == d.function = "keygen" /\ Vulnerability(d) = 20 /\ ctx.exposure # "test"
           Sound(q) == /\ q.score \in Nat /\ q.score <= 9000 /\ q.band \in Band
                       /\ key => q.score >= 9000 /\ q.band = "critical"
                       /\ \A limit \in AtOrAbove :
                            /\ q.score > limit[1] => q.band \in limit[2]
                            /\ q.score < limit[1] => q.band \notin limit[2]
<1> SUFFICES Sound(r)
  BY DEF PrivateKeyFloor
<1>1. x = <<x[1], x[2]>> /\ x[1] \in Nat /\ x[2] \in Nat \ {0} /\ x[1] <= 9000 * x[2]
  BY ScoreRange
<1>2. r = IF key /\ ~AtLeast(x, 9000) THEN [score |-> 9000, band |-> "critical"]
          ELSE [score |-> Rounded(x), band |-> BandForScore(x)]
  BY DEF Floored, PrivateKeyFloor
<1>3. AtLeast(x, 9000) <=> x[1] >= 9000 * x[2]
  BY DEF AtLeast
<1> HIDE DEF x, r, key
<1>4. PICK a \in Nat, b \in Nat \ {0} : x = <<a, b>> /\ x[1] = a /\ x[2] = b
  BY <1>1
<1>5. Rounded(x) \in Nat /\ Rounded(x) <= 9000 /\ (a >= 9000 * b => Rounded(x) >= 9000)
  BY <1>1, <1>4, RoundedBounds
<1>6. /\ BandForScore(x) \in Band
      /\ \A limit \in AtOrAbove :
           limit[1] \in Nat /\ (BandForScore(x) \in limit[2] <=> a >= limit[1] * b)
  BY <1>4, BandLimits
<1>7. CASE key /\ ~AtLeast(x, 9000)
  <2>1. \A limit \in AtOrAbove : limit[1] < 9000 /\ "critical" \in limit[2]
    BY DEF AtOrAbove
  <2>2. r.score = 9000 /\ r.band = "critical"
    BY <1>2, <1>7
  <2> QED
    BY <2>1, <2>2, <1>6 DEF Band
<1>8. CASE ~(key /\ ~AtLeast(x, 9000))
  <2>1. r.score = Rounded(x) /\ r.band = BandForScore(x)
    BY <1>2, <1>8
  <2>2. ASSUME NEW limit \in AtOrAbove
        PROVE  /\ r.score > limit[1] => r.band \in limit[2]
               /\ r.score < limit[1] => r.band \notin limit[2]
    <3>1. /\ a <= limit[1] * b => Rounded(x) <= limit[1]
          /\ a >= limit[1] * b => Rounded(x) >= limit[1]
      BY <1>4, <1>6, RoundedBounds
    <3>2. limit[1] \in Nat /\ limit[1] * b \in Nat
      BY <1>6
    <3> QED
      BY <1>5, <1>6, <2>1, <3>1, <3>2
  <2>3. ASSUME key
        PROVE  r.score >= 9000 /\ r.band = "critical"
    <3>1. a >= 9000 * b
      BY <1>3, <1>4, <1>8, <2>3
    <3>2. a >= 6000 * b
      BY <3>1
    <3>3. <<6000, {"critical"}>> \in AtOrAbove
      BY DEF AtOrAbove
    <3>4. BandForScore(x) \in {"critical"}
      BY <1>6, <3>2, <3>3
    <3> QED
      BY <1>5, <2>1, <3>1, <3>4
  <2> QED
    BY <1>5, <1>6, <2>1, <2>2, <2>3
<1> QED
  BY <1>7, <1>8

(* An earlier horizon never lowers what is stored. *)
LEMMA FlooredMonotonic ==
  ASSUME NEW d \in Detection, NEW ctx \in Context, NEW y \in Nat, NEW z \in Nat, y <= z,
         HasScore(d, y), HasScore(d, z)
  PROVE  Floored(d, ctx, ExactScore(d, ctx, y)).score
           >= Floored(d, ctx, ExactScore(d, ctx, z)).score
<1> DEFINE x == ExactScore(d, ctx, y)
           v == ExactScore(d, ctx, z)
           key == d.function = "keygen" /\ Vulnerability(d) = 20 /\ ctx.exposure # "test"
<1>1. x = <<x[1], x[2]>> /\ x[1] \in Nat /\ x[2] \in Nat \ {0} /\ x[1] <= 9000 * x[2]
  BY ScoreRange
<1>2. v = <<v[1], v[2]>> /\ v[1] \in Nat /\ v[2] \in Nat \ {0} /\ v[1] <= 9000 * v[2]
  BY ScoreRange
<1>3. x[1] * v[2] >= v[1] * x[2]
  BY ExactMonotonic
<1>4. \A f : Floored(d, ctx, f).score = IF key /\ ~(f[1] >= 9000 * f[2]) THEN 9000 ELSE Rounded(f)
  BY DEF Floored, AtLeast, PrivateKeyFloor
<1> HIDE DEF x, v, key
<1>5. Rounded(x) >= Rounded(v)
  <2>1. Rounded(<<x[1], x[2]>>) >= Rounded(<<v[1], v[2]>>)
    BY <1>1, <1>2, <1>3, RoundedMonotonic
  <2> QED
    BY <1>1, <1>2, <2>1
<1>6. /\ Rounded(v) \in Nat /\ Rounded(v) <= 9000
      /\ Rounded(x) \in Nat /\ (x[1] >= 9000 * x[2] => Rounded(x) >= 9000)
  <2>1. Rounded(<<v[1], v[2]>>) \in Nat /\ Rounded(<<v[1], v[2]>>) <= 9000
    BY <1>2, RoundedBounds
  <2>2. /\ Rounded(<<x[1], x[2]>>) \in Nat
        /\ x[1] >= 9000 * x[2] => Rounded(<<x[1], x[2]>>) >= 9000
    BY <1>1, RoundedBounds
  <2> QED
    BY <1>1, <1>2, <2>1, <2>2
<1>7. (IF key /\ ~(x[1] >= 9000 * x[2]) THEN 9000 ELSE Rounded(x))
        >= (IF key /\ ~(v[1] >= 9000 * v[2]) THEN 9000 ELSE Rounded(v))
  BY <1>5, <1>6
<1> QED
  BY <1>4, <1>7 DEF x, v

(* The horizon does not matter to a family that is broken already. *)
LEMMA BrokenIgnoresHorizon ==
  ASSUME NEW d, NEW ctx, NEW y, NEW z, IsClassicallyBroken(d)
  PROVE  ExactScore(d, ctx, y) = ExactScore(d, ctx, z)
BY DEF ExactScore, Urgency
-----------------------------------------------------------------------------
(* The steps *)

UniqueKeys == \A i, j \in DOMAIN crits : Key(crits[i]) = Key(crits[j]) => i = j

(* What the rows are after rec has been saved: rows keep their places and  *)
(* their keys, one holds rec, and no other has changed.                    *)
SavesOnly(rec, new) ==
    /\ new \in Seq(AssetCriticality)
    /\ \A i, j \in DOMAIN new : Key(new[i]) = Key(new[j]) => i = j
    /\ \A n \in DOMAIN crits : n \in DOMAIN new /\ Key(new[n]) = Key(crits[n])
    /\ \A n \in DOMAIN crits : Key(crits[n]) # Key(rec) => new[n] = crits[n]
    /\ \E n \in DOMAIN new : new[n] = rec
    /\ \A n \in DOMAIN new : new[n] = rec \/ \E i \in DOMAIN crits : new[n] = crits[i]

LEMMA SaveIsSavesOnly ==
  ASSUME crits \in Seq(AssetCriticality), UniqueKeys, NEW rec \in AssetCriticality,
         NEW found \in BOOLEAN, found <=> Stored(Key(rec)) # {}
  PROVE  SavesOnly(rec, Save(rec, found))
<1> DEFINE new == Save(rec, found)
<1>1. CASE found
  <2>1. new = [i \in DOMAIN crits |-> IF Key(crits[i]) = Key(rec) THEN rec ELSE crits[i]]
    BY <1>1 DEF Save, Stored
  <2>2. PICK k \in DOMAIN crits : Key(crits[k]) = Key(rec)
    BY <1>1 DEF Stored
  <2> HIDE DEF new
  <2>3. DOMAIN crits = 1..Len(crits) /\ Len(crits) \in Nat
        /\ \A i \in DOMAIN crits : crits[i] \in AssetCriticality
    OBVIOUS
  <2>4. new \in [1..Len(crits) -> AssetCriticality]
    BY <2>1, <2>3
  <2>5. new \in Seq(AssetCriticality)
    BY <2>3, <2>4
  <2>6. DOMAIN new = DOMAIN crits /\ \A i \in DOMAIN crits : Key(new[i]) = Key(crits[i])
    BY <2>1
  <2>7. \A i, j \in DOMAIN new : Key(new[i]) = Key(new[j]) => i = j
    BY <2>6 DEF UniqueKeys
  <2>8. new[k] = rec
    BY <2>1, <2>2
  <2>9. \A n \in DOMAIN crits : Key(crits[n]) # Key(rec) => new[n] = crits[n]
    BY <2>1
  <2>10. \A n \in DOMAIN new : new[n] = rec \/ \E i \in DOMAIN crits : new[n] = crits[i]
    BY <2>1, <2>6
  <2> QED
    BY <2>2, <2>5, <2>6, <2>7, <2>8, <2>9, <2>10 DEF SavesOnly, new
<1>2. CASE ~found
  <2>1. new = Append(crits, rec)
    BY <1>2 DEF Save
  <2>2. \A i \in DOMAIN crits : Key(crits[i]) # Key(rec)
    BY <1>2 DEF Stored
  <2> HIDE DEF new
  <2>3. /\ new \in Seq(AssetCriticality) /\ DOMAIN new = 1..(Len(crits) + 1)
        /\ \A i \in 1..Len(crits) : new[i] = crits[i]
        /\ new[Len(crits) + 1] = rec
    BY <2>1
  <2>4. DOMAIN crits = 1..Len(crits) /\ Len(crits) \in Nat
    OBVIOUS
  <2>5. DOMAIN new = DOMAIN crits \cup {Len(crits) + 1}
    BY <2>3, <2>4
  <2>6. \A i, j \in DOMAIN new : Key(new[i]) = Key(new[j]) => i = j
    BY <2>2, <2>3, <2>4, <2>5 DEF UniqueKeys
  <2> QED
    BY <2>2, <2>3, <2>4, <2>5, <2>6 DEF SavesOnly, new
<1> QED
  BY <1>1, <1>2

(* A commit that does not collide saves what its writer has read for. *)
LEMMA CommitSaves ==
  ASSUME TypeOK, WritingInv, NEW w \in Writers \cup {Importer}, writing[w] # None,
         ~Collides(w)
  PROVE  /\ writing[w] \in AssetCriticality
         /\ SavesOnly(writing[w], Save(writing[w], existing[w]))
<1>1. writing[w] \in AssetCriticality /\ existing[w] \in BOOLEAN
  BY DEF TypeOK
<1>2. existing[w] <=> Stored(Key(writing[w])) # {}
  BY DEF WritingInv, Collides
<1>3. crits \in Seq(AssetCriticality) /\ UniqueKeys
  BY DEF TypeOK, UniqueKeys
<1> QED
  BY <1>1, <1>2, <1>3, SaveIsSavesOnly

(* A line of a CSV file becomes a record of its key. *)
LEMMA ConvertedTyped ==
  ASSUME NEW row \in FileRow
  PROVE  Converted(row) \in AssetCriticality /\ Key(Converted(row)) = Key(row)
<1>1. CriticalityOf(row.word) \in Criticality
  BY DEF CriticalityOf, Criticality
<1>2. FacingOf(row.facing) \in {"internal", "external"}
  BY DEF FacingOf
<1> QED
  BY <1>1, <1>2 DEF Converted, AssetCriticality, FileRow, Key

(* The line an import looks at is one of its file. *)
LEMMA NextLine ==
  ASSUME TypeOK, file # None, saved < Len(file)
  PROVE  /\ file \in Seq(FileRow) /\ saved + 1 \in 1..Len(file)
         /\ file[saved + 1] \in FileRow
<1>1. file \in Seq(FileRow)
  BY FilesTyped DEF TypeOK
<1>2. saved \in Nat /\ Len(file) \in Nat
  BY <1>1 DEF TypeOK
<1> QED
  BY <1>1, <1>2

(* The context of a path is that of the first glob that matches it. *)
LEMMA MatchedFirst ==
  ASSUME NEW path, NEW policy \in Policy
  PROVE  LET hits == {i \in DOMAIN policy.contexts : <<path, policy.contexts[i].glob>> \in Matches} IN
         /\ hits = {} => MatchedContext(path, policy) = policy.default
         /\ hits # {} => \E first \in hits :
                           /\ \A j \in hits : first <= j
                           /\ policy.contexts[first] \in Globbed
                           /\ MatchedContext(path, policy) = policy.contexts[first].context
<1> DEFINE hits == {i \in DOMAIN policy.contexts : <<path, policy.contexts[i].glob>> \in Matches}
<1>1. policy.contexts \in Seq(Globbed)
  BY DEF Policy
<1>2. CASE hits = {}
  BY <1>2 DEF MatchedContext
<1>3. CASE hits # {}
  <2> DEFINE first == CHOOSE i \in hits : \A j \in hits : i <= j
  <2>1. hits \in SUBSET Nat
    BY <1>1
  <2>2. first \in hits /\ \A j \in hits : first <= j
    <3> HIDE DEF hits
    <3> QED
      BY <1>3, <2>1, LeastNumber
  <2>3. policy.contexts[first] \in Globbed
    <3>1. first \in DOMAIN policy.contexts
      BY <2>2
    <3> HIDE DEF first
    <3> QED
      BY <1>1, <3>1
  <2>4. MatchedContext(path, policy) = policy.contexts[first].context
    BY <1>3 DEF MatchedContext
  <2> QED
    BY <1>3, <2>2, <2>3, <2>4
<1> QED
  BY <1>2, <1>3

LEMMA MatchedTyped ==
  ASSUME NEW path, NEW policy \in Policy
  PROVE  MatchedContext(path, policy) \in Context
<1> DEFINE hits == {i \in DOMAIN policy.contexts : <<path, policy.contexts[i].glob>> \in Matches}
<1>1. \/ MatchedContext(path, policy) = policy.default
      \/ \E first \in hits : /\ policy.contexts[first] \in Globbed
                             /\ MatchedContext(path, policy) = policy.contexts[first].context
  BY MatchedFirst
<1> QED
  BY <1>1 DEF Policy, Globbed

LEMMA DerivedTyped ==
  ASSUME NEW d \in Detection, NEW policy \in Policy, HasScore(d, policy.crqcYears)
  PROVE  DeriveRisk(d, policy) \in Risk
<1> DEFINE ctx == MatchedContext(d.path, policy)
           r == Floored(d, ctx, ExactScore(d, ctx, policy.crqcYears))
<1>1. ctx \in Context /\ policy.crqcYears \in Nat
  BY MatchedTyped DEF Policy
<1>2. r.score \in Nat /\ r.score <= 9000 /\ r.band \in Band
  <2> HIDE DEF ctx
  <2> QED
    BY <1>1, FlooredSound
<1>3. DeriveRisk(d, policy) = [score |-> r.score, band |-> r.band, context |-> ctx,
                               z |-> policy.crqcYears]
  BY DEF DeriveRisk
<1> HIDE DEF ctx, r
<1> QED
  BY <1>1, <1>2, <1>3 DEF Risk

(* A scan keeps its record's type when one of its stages is over. *)
LEMMA ResolvedTyped ==
  ASSUME TypeOK, NEW s \in Scans, NEW target \in Targets \cup {None}, NEW i \in PolicyIds,
         NEW z \in Horizons \cup {None}, ResolvePolicy(s, target, i, z)
  PROVE  /\ scan' = [scan EXCEPT ![s] = scan'[s]]
         /\ scan'[s].stage = IF target = None THEN "resolved" ELSE "policy"
         /\ scan'[s].target = target
         /\ scan'[s].policy \in Policy
         /\ scan'[s] \in ScanRecord
<1> DEFINE stored == IF policies[i] = None THEN DefaultPolicy ELSE policies[i]
           asked == IF z = None THEN stored ELSE [stored EXCEPT !.crqcYears = z]
           stage == IF target = None THEN "resolved" ELSE "policy"
<1>1. scan' = [scan EXCEPT ![s].stage = stage, ![s].target = target, ![s].policy = asked]
  BY DEF ResolvePolicy
<1>2. stored \in Policy
  BY PoliciesTyped DEF TypeOK
<1>3. asked \in Policy
  <2> HIDE DEF stored
  <2> QED
    BY <1>2, HorizonsTyped DEF Policy
<1>4. scan[s] \in ScanRecord /\ scan \in [Scans -> ScanRecord] /\ stage \in Stages
  BY DEF TypeOK, Stages
<1> HIDE DEF stored, asked, stage
<1>5. scan'[s] = [scan[s] EXCEPT !.stage = stage, !.target = target, !.policy = asked]
  BY <1>1, <1>4
<1>6. scan'[s] = [stage |-> stage, target |-> target, policy |-> asked, risk |-> scan[s].risk]
  BY <1>4, <1>5 DEF ScanRecord
<1>7. scan[s].risk \in [Detections -> Risk] \cup {None}
  BY <1>4 DEF ScanRecord
<1>8. scan' = [scan EXCEPT ![s] = scan'[s]]
  BY <1>1, <1>4, <1>5
<1> QED
  BY <1>3, <1>4, <1>6, <1>7, <1>8 DEF ScanRecord, stage

(* A list followed by another. *)
LEMMA ConcatIs ==
  ASSUME NEW R, NEW a \in Seq(R), NEW b \in Seq(R)
  PROVE  /\ a \o b \in Seq(R) /\ Len(a) \in 0..Len(a \o b)
         /\ \A i \in 1..Len(a) : (a \o b)[i] = a[i]
OBVIOUS

(* The contexts of a policy after those of operators. *)
LEMMA WithCriticalitiesHeads ==
  ASSUME NEW own \in Policy, NEW recs \in Seq(AssetCriticality)
  PROVE  LET new == WithCriticalities(own, recs) IN
         /\ new \in Policy
         /\ Len(recs) \in 0..Len(new.contexts)
         /\ \A i \in 1..Len(recs) : new.contexts[i] = AsContext(recs[i], new)
<1> DEFINE new == WithCriticalities(own, recs)
           extra == [i \in DOMAIN recs |-> AsContext(recs[i], own)]
<1>1. new = [own EXCEPT !.contexts = extra \o own.contexts]
  BY DEF WithCriticalities
<1>2. ASSUME NEW rec \in AssetCriticality
      PROVE  AsContext(rec, own) \in Globbed
  BY DEF AsContext, AssetCriticality, Globbed, Context, Exposure, Policy
<1>3. /\ extra \in Seq(Globbed) /\ Len(extra) = Len(recs)
      /\ \A i \in 1..Len(recs) : extra[i] = AsContext(recs[i], own)
  <2>1. \A i \in 1..Len(recs) : AsContext(recs[i], own) \in Globbed
    BY <1>2
  <2>2. DOMAIN recs = 1..Len(recs) /\ Len(recs) \in Nat
    OBVIOUS
  <2>3. /\ extra \in [1..Len(recs) -> Globbed] /\ DOMAIN extra = 1..Len(recs)
        /\ \A i \in 1..Len(recs) : extra[i] = AsContext(recs[i], own)
    BY <2>1, <2>2
  <2> HIDE DEF extra
  <2> QED
    BY <2>2, <2>3
<1> HIDE DEF new, extra
<1>4. own.contexts \in Seq(Globbed)
  BY DEF Policy
<1>5. /\ extra \o own.contexts \in Seq(Globbed)
      /\ Len(recs) \in 0..Len(extra \o own.contexts)
      /\ \A i \in 1..Len(recs) : (extra \o own.contexts)[i] = AsContext(recs[i], own)
  BY <1>3, <1>4, ConcatIs
<1>6. new \in Policy /\ new.contexts = extra \o own.contexts /\ new.default = own.default
  BY <1>1, <1>5 DEF Policy
<1>7. \A i \in 1..Len(recs) : new.contexts[i] = AsContext(recs[i], new)
  BY <1>5, <1>6 DEF AsContext
<1> QED
  BY <1>5, <1>6, <1>7 DEF new

LEMMA ContextsTyped ==
  ASSUME TypeOK, NEW s \in Scans, ResolveContexts(s)
  PROVE  LET own == scan[s].policy
             recs == OfTarget(crits, scan[s].target)
         IN  /\ own \in Policy /\ recs \in Seq(AssetCriticality)
             /\ scan' = [scan EXCEPT ![s] = scan'[s]]
             /\ scan'[s].stage = "resolved" /\ scan'[s].policy = WithCriticalities(own, recs)
             /\ scan'[s].target = scan[s].target
             /\ WithCriticalities(own, recs) \in Policy
             /\ scan'[s] \in ScanRecord
<1> DEFINE own == scan[s].policy
           recs == OfTarget(crits, scan[s].target)
           new == WithCriticalities(own, recs)
<1>1. scan[s] \in ScanRecord /\ scan \in [Scans -> ScanRecord] /\ own \in Policy
  BY DEF TypeOK, ResolveContexts
<1>2. recs \in Seq(AssetCriticality)
  BY OfTargetKeeps DEF TypeOK
<1>3. scan' = [scan EXCEPT ![s].stage = "resolved", ![s].policy = new]
  BY <1>1 DEF ResolveContexts
<1>4. new \in Policy
  <2> HIDE DEF own, recs
  <2> QED
    BY <1>1, <1>2, WithCriticalitiesHeads
<1> HIDE DEF own, recs, new
<1>5. scan'[s] = [scan[s] EXCEPT !.stage = "resolved", !.policy = new]
  BY <1>1, <1>3
<1>6. scan' = [scan EXCEPT ![s] = scan'[s]]
  BY <1>1, <1>3, <1>5
<1>7. scan'[s] \in ScanRecord
  BY <1>1, <1>4, <1>5 DEF ScanRecord, Stages
<1>8. /\ scan'[s].stage = "resolved" /\ scan'[s].policy = new
      /\ scan'[s].target = scan[s].target
  BY <1>1, <1>5 DEF ScanRecord
<1> QED
  BY <1>1, <1>2, <1>4, <1>6, <1>7, <1>8 DEF own, recs, new

LEMMA ScoreTyped ==
  ASSUME TypeOK, NEW s \in Scans, Score(s)
  PROVE  /\ scan[s].policy \in Policy
         /\ scan' = [scan EXCEPT ![s] = scan'[s]]
         /\ scan'[s] \in ScanRecord
         /\ scan'[s].policy = scan[s].policy /\ scan'[s].target = scan[s].target
         /\ \/ /\ \A d \in Detections : HasScore(d, scan[s].policy.crqcYears)
               /\ scan'[s].stage = "scored"
               /\ scan'[s].risk = [d \in Detections |-> DeriveRisk(d, scan[s].policy)]
               /\ scan'[s].risk \in [Detections -> Risk]
            \/ scan'[s].stage = "failed"
<1> DEFINE policy == scan[s].policy
           risk == [d \in Detections |-> DeriveRisk(d, policy)]
           able == \A d \in Detections : HasScore(d, policy.crqcYears)
<1>1. scan[s] \in ScanRecord /\ scan \in [Scans -> ScanRecord] /\ policy \in Policy
  BY DEF TypeOK, Score
<1>2. scan' = [scan EXCEPT ![s] = IF able THEN [scan[s] EXCEPT !.stage = "scored", !.risk = risk]
                                  ELSE [scan[s] EXCEPT !.stage = "failed"]]
  BY <1>1 DEF Score
<1>3. able => risk \in [Detections -> Risk]
  BY <1>1, DetectionsTyped, DerivedTyped
<1> HIDE DEF policy, risk, able
<1>4. scan'[s] = IF able THEN [scan[s] EXCEPT !.stage = "scored", !.risk = risk]
                 ELSE [scan[s] EXCEPT !.stage = "failed"]
  BY <1>1, <1>2
<1>5. scan'[s] \in ScanRecord
  BY <1>1, <1>3, <1>4 DEF ScanRecord, Stages
<1>6. scan' = [scan EXCEPT ![s] = scan'[s]]
  BY <1>1, <1>2, <1>4
<1>7. /\ scan'[s].policy = scan[s].policy /\ scan'[s].target = scan[s].target
      /\ IF able THEN scan'[s].stage = "scored" /\ scan'[s].risk = risk
         ELSE scan'[s].stage = "failed"
  BY <1>1, <1>4 DEF ScanRecord
<1> QED
  BY <1>1, <1>3, <1>4, <1>5, <1>6, <1>7 DEF policy, risk, able

(* One scan's stage is over and the others stay as they are. *)
LEMMA StageTyped ==
  ASSUME TypeOK, NEW s \in Scans, scan' = [scan EXCEPT ![s] = scan'[s]],
         scan'[s] \in ScanRecord,
         scan'[s].stage # "new" => scan'[s].policy \in Policy,
         scan'[s].stage = "policy" => scan'[s].target \in Targets,
         scan'[s].stage = "scored" => scan'[s].risk \in [Detections -> Risk]
  PROVE  /\ scan' \in [Scans -> ScanRecord]
         /\ \A r \in Scans :
              /\ scan'[r].stage # "new" => scan'[r].policy \in Policy
              /\ scan'[r].stage = "policy" => scan'[r].target \in Targets
              /\ scan'[r].stage = "scored" => scan'[r].risk \in [Detections -> Risk]
<1>1. scan \in [Scans -> ScanRecord]
  BY DEF TypeOK
<1>2. scan' \in [Scans -> ScanRecord] /\ \A r \in Scans \ {s} : scan'[r] = scan[r]
  BY <1>1
<1>3. ASSUME NEW r \in Scans
      PROVE  /\ scan'[r].stage # "new" => scan'[r].policy \in Policy
             /\ scan'[r].stage = "policy" => scan'[r].target \in Targets
             /\ scan'[r].stage = "scored" => scan'[r].risk \in [Detections -> Risk]
  <2>1. CASE r = s
    BY <2>1
  <2>2. CASE r # s
    BY <1>2, <2>2 DEF TypeOK
  <2> QED
    BY <2>1, <2>2
<1> QED
  BY <1>2, <1>3

KnownRecord == [keys : SUBSET (Targets \X Patterns), records : SUBSET AssetCriticality]

LEMMA SeenTyped ==
  ASSUME TypeOK, NEW rec \in AssetCriticality
  PROVE  /\ SeenBy(rec) \in [Scans -> KnownRecord]
         /\ \A s \in Scans :
              /\ SeenBy(rec)[s].keys = known[s].keys
              /\ known[s].records \subseteq SeenBy(rec)[s].records
              /\ scan[s].stage # "policy" => SeenBy(rec)[s] = known[s]
              /\ scan[s].stage = "policy" => rec \in SeenBy(rec)[s].records
<1>1. known \in [Scans -> KnownRecord]
  BY DEF TypeOK, KnownRecord
<1> QED
  BY <1>1 DEF SeenBy, KnownRecord

LEMMA TypeStep == TypeOK /\ WritingInv /\ [Next]_vars => TypeOK'
<1> SUFFICES ASSUME TypeOK, WritingInv, [Next]_vars
             PROVE  TypeOK'
  OBVIOUS
<1>0. \A rec \in AssetCriticality : Key(rec) \in Targets \X Patterns
  BY DEF Key, AssetCriticality
<1>1. ASSUME NEW i \in PolicyIds, NEW body \in PolicyBodies, PutPolicy(i, body)
      PROVE  TypeOK'
  BY <1>1, PoliciesTyped DEF TypeOK, PutPolicy
<1>2. ASSUME NEW w \in Writers, NEW rec \in Records, PutLook(w, rec)
      PROVE  TypeOK'
  BY <1>2, RecordsTyped DEF TypeOK, PutLook, Look
<1>3. ASSUME NEW w \in Writers, PutCommit(w)
      PROVE  TypeOK'
  <2>1. /\ writing' = [writing EXCEPT ![w] = None]
        /\ existing' = [existing EXCEPT ![w] = FALSE]
        /\ UNCHANGED <<policies, file, saved, answer, scan>>
    BY <1>3 DEF PutCommit
  <2>2. CASE Collides(w)
    <3>1. UNCHANGED <<crits, putSince, known>>
      BY <1>3, <2>2 DEF PutCommit
    <3> QED
      BY <2>1, <3>1 DEF TypeOK
  <2>3. CASE ~Collides(w)
    <3>1. /\ crits' = Save(writing[w], existing[w])
          /\ known' = SeenBy(writing[w])
          /\ putSince' = putSince \cup {Key(writing[w])}
          /\ writing[w] # None
      BY <1>3, <2>3 DEF PutCommit
    <3>2. writing[w] \in AssetCriticality /\ SavesOnly(writing[w], crits')
      BY <2>3, <3>1, CommitSaves
    <3>3. /\ crits' \in Seq(AssetCriticality)
          /\ \A i, j \in DOMAIN crits' : Key(crits'[i]) = Key(crits'[j]) => i = j
      BY <3>2 DEF SavesOnly
    <3>4. known' \in [Scans -> KnownRecord]
      BY <3>1, <3>2, SeenTyped
    <3>5. putSince' \subseteq Targets \X Patterns
      BY <1>0, <3>1, <3>2 DEF TypeOK
    <3> QED
      BY <2>1, <3>3, <3>4, <3>5 DEF TypeOK, KnownRecord, Key
  <2> QED
    BY <2>2, <2>3
<1>4. ASSUME NEW csv \in Files, BeginImport(csv)
      PROVE  TypeOK'
  <2>1. csv \in Seq(FileRow)
    BY FilesTyped
  <2>2. saved = 0 /\ saved <= Len(csv)
    BY <1>4, <2>1 DEF TypeOK, BeginImport
  <2> QED
    BY <1>4, <2>1, <2>2 DEF TypeOK, BeginImport
<1>5. CASE ImportLook
  <2>1. Converted(file[saved + 1]) \in AssetCriticality
    BY <1>5, NextLine, ConvertedTyped DEF ImportLook, Importing
  <2> QED
    BY <1>5, <2>1 DEF TypeOK, ImportLook, Look
<1>6. CASE ImportCommit
  <2>1. /\ writing' = [writing EXCEPT ![Importer] = None]
        /\ existing' = [existing EXCEPT ![Importer] = FALSE]
        /\ UNCHANGED <<policies, file, scan>>
        /\ writing[Importer] # None
    BY <1>6 DEF ImportCommit
  <2>2. CASE Collides(Importer)
    <3>1. UNCHANGED <<crits, saved, putSince, known>> /\ answer' = 400
      BY <1>6, <2>2 DEF ImportCommit
    <3> QED
      BY <2>1, <3>1 DEF TypeOK
  <2>3. CASE ~Collides(Importer)
    <3>1. /\ crits' = Save(writing[Importer], existing[Importer])
          /\ known' = SeenBy(writing[Importer])
          /\ putSince' = putSince \ {Key(writing[Importer])}
          /\ saved' = saved + 1 /\ answer' = answer
      BY <1>6, <2>3 DEF ImportCommit
    <3>2. writing[Importer] \in AssetCriticality /\ SavesOnly(writing[Importer], crits')
      BY <2>1, <2>3, <3>1, CommitSaves
    <3>3. /\ crits' \in Seq(AssetCriticality)
          /\ \A i, j \in DOMAIN crits' : Key(crits'[i]) = Key(crits'[j]) => i = j
      BY <3>2 DEF SavesOnly
    <3>4. known' \in [Scans -> KnownRecord]
      BY <3>1, <3>2, SeenTyped
    <3>5. putSince' \subseteq Targets \X Patterns
      BY <3>1 DEF TypeOK
    <3>6. saved' \in Nat /\ file # None /\ saved' <= Len(file)
      <4>1. file # None /\ saved < Len(file)
        BY <2>1 DEF WritingInv
      <4>2. saved + 1 \in 1..Len(file) /\ file \in Seq(FileRow)
        BY <4>1, NextLine
      <4> QED
        BY <3>1, <4>1, <4>2
    <3> QED
      BY <2>1, <3>1, <3>3, <3>4, <3>5, <3>6 DEF TypeOK, KnownRecord, Key
  <2> QED
    BY <2>2, <2>3
<1>7. CASE ImportGarbled
  BY <1>7 DEF TypeOK, ImportGarbled
<1>8. CASE ImportAnswer
  BY <1>8 DEF TypeOK, ImportAnswer
<1>9. ASSUME NEW s \in Scans, NEW target \in Targets \cup {None}, NEW i \in PolicyIds,
             NEW z \in Horizons \cup {None}, ResolvePolicy(s, target, i, z)
      PROVE  TypeOK'
  <2>1. /\ scan' = [scan EXCEPT ![s] = scan'[s]]
        /\ scan'[s].stage = IF target = None THEN "resolved" ELSE "policy"
        /\ scan'[s].target = target
        /\ scan'[s].policy \in Policy /\ scan'[s] \in ScanRecord
    BY <1>9, ResolvedTyped
  <2>2. /\ scan' \in [Scans -> ScanRecord]
        /\ \A r \in Scans :
             /\ scan'[r].stage # "new" => scan'[r].policy \in Policy
             /\ scan'[r].stage = "policy" => scan'[r].target \in Targets
             /\ scan'[r].stage = "scored" => scan'[r].risk \in [Detections -> Risk]
    BY <2>1, StageTyped
  <2>3. known' = [known EXCEPT ![s] = [keys |-> {Key(crits[n]) : n \in DOMAIN crits},
                                       records |-> {crits[n] : n \in DOMAIN crits}]]
    BY <1>9 DEF ResolvePolicy
  <2>4. \A n \in DOMAIN crits : crits[n] \in AssetCriticality /\ Key(crits[n]) \in Targets \X Patterns
    BY <1>0 DEF TypeOK
  <2>5. known' \in [Scans -> KnownRecord]
    BY <2>3, <2>4 DEF TypeOK, KnownRecord
  <2> QED
    BY <1>9, <2>2, <2>5 DEF TypeOK, KnownRecord, ResolvePolicy, Key
<1>10. ASSUME NEW s \in Scans, ResolveContexts(s)
       PROVE  TypeOK'
  <2> DEFINE new == WithCriticalities(scan[s].policy, OfTarget(crits, scan[s].target))
  <2>1. /\ scan' = [scan EXCEPT ![s] = scan'[s]]
        /\ scan'[s].stage = "resolved" /\ scan'[s].policy = new
        /\ new \in Policy /\ scan'[s] \in ScanRecord
    BY <1>10, ContextsTyped
  <2> HIDE DEF new
  <2>2. /\ scan' \in [Scans -> ScanRecord]
        /\ \A r \in Scans :
             /\ scan'[r].stage # "new" => scan'[r].policy \in Policy
             /\ scan'[r].stage = "policy" => scan'[r].target \in Targets
             /\ scan'[r].stage = "scored" => scan'[r].risk \in [Detections -> Risk]
    BY <2>1, StageTyped
  <2> QED
    BY <1>10, <2>2 DEF TypeOK, ResolveContexts, Key
<1>11. ASSUME NEW s \in Scans, Score(s)
       PROVE  TypeOK'
  <2>1. /\ scan' = [scan EXCEPT ![s] = scan'[s]]
        /\ scan'[s] \in ScanRecord
        /\ scan'[s].policy = scan[s].policy /\ scan[s].policy \in Policy
        /\ \/ scan'[s].stage = "scored" /\ scan'[s].risk \in [Detections -> Risk]
           \/ scan'[s].stage = "failed"
    BY <1>11, ScoreTyped
  <2>2. /\ scan' \in [Scans -> ScanRecord]
        /\ \A r \in Scans :
             /\ scan'[r].stage # "new" => scan'[r].policy \in Policy
             /\ scan'[r].stage = "policy" => scan'[r].target \in Targets
             /\ scan'[r].stage = "scored" => scan'[r].risk \in [Detections -> Risk]
    BY <2>1, StageTyped
  <2> QED
    BY <1>11, <2>2 DEF TypeOK, Score, Key
<1>12. CASE UNCHANGED vars
  BY <1>12 DEF TypeOK, vars, Key
<1> QED
  BY <1>1, <1>2, <1>3, <1>4, <1>5, <1>6, <1>7, <1>8, <1>9, <1>10, <1>11, <1>12 DEF Next
-----------------------------------------------------------------------------
(* What a commit leaves behind, of a PUT and of an import. *)
LEMMA PutCommitSaves ==
  ASSUME TypeOK, WritingInv, NEW w \in Writers, PutCommit(w)
  PROVE  /\ w # Importer
         /\ writing' = [writing EXCEPT ![w] = None]
         /\ existing' = [existing EXCEPT ![w] = FALSE]
         /\ UNCHANGED <<file, saved, scan>>
         /\ \/ UNCHANGED <<crits, putSince, known>>
            \/ \E rec \in AssetCriticality :
                 /\ SavesOnly(rec, crits') /\ known' = SeenBy(rec)
                 /\ putSince' = putSince \cup {Key(rec)}
<1>1. /\ w # Importer /\ writing[w] # None
      /\ writing' = [writing EXCEPT ![w] = None]
      /\ existing' = [existing EXCEPT ![w] = FALSE]
      /\ UNCHANGED <<file, saved, scan>>
  BY NamesAreFresh DEF PutCommit
<1>2. CASE Collides(w)
  BY <1>1, <1>2 DEF PutCommit
<1>3. CASE ~Collides(w)
  <2>1. /\ crits' = Save(writing[w], existing[w])
        /\ known' = SeenBy(writing[w])
        /\ putSince' = putSince \cup {Key(writing[w])}
    BY <1>3 DEF PutCommit
  <2>2. writing[w] \in AssetCriticality /\ SavesOnly(writing[w], crits')
    BY <1>1, <1>3, <2>1, CommitSaves
  <2> QED
    BY <1>1, <2>1, <2>2
<1> QED
  BY <1>2, <1>3

LEMMA ImportCommitSaves ==
  ASSUME TypeOK, WritingInv, ImportCommit
  PROVE  /\ writing' = [writing EXCEPT ![Importer] = None]
         /\ existing' = [existing EXCEPT ![Importer] = FALSE]
         /\ UNCHANGED <<file, scan>>
         /\ \/ UNCHANGED <<crits, saved, putSince, known>>
            \/ \E rec \in AssetCriticality :
                 /\ file \in Seq(FileRow) /\ saved + 1 \in 1..Len(file)
                 /\ rec = Converted(file[saved + 1]) /\ Key(rec) = Key(file[saved + 1])
                 /\ SavesOnly(rec, crits') /\ known' = SeenBy(rec)
                 /\ putSince' = putSince \ {Key(rec)} /\ saved' = saved + 1
<1>1. /\ writing[Importer] # None
      /\ writing' = [writing EXCEPT ![Importer] = None]
      /\ existing' = [existing EXCEPT ![Importer] = FALSE]
      /\ UNCHANGED <<file, scan>>
  BY DEF ImportCommit
<1>2. CASE Collides(Importer)
  BY <1>1, <1>2 DEF ImportCommit
<1>3. CASE ~Collides(Importer)
  <2>1. /\ crits' = Save(writing[Importer], existing[Importer])
        /\ known' = SeenBy(writing[Importer])
        /\ putSince' = putSince \ {Key(writing[Importer])}
        /\ saved' = saved + 1
    BY <1>3 DEF ImportCommit
  <2>2. writing[Importer] \in AssetCriticality /\ SavesOnly(writing[Importer], crits')
    BY <1>1, <1>3, <2>1, CommitSaves
  <2>3. /\ file # None /\ saved < Len(file)
        /\ writing[Importer] = Converted(file[saved + 1])
    BY <1>1 DEF WritingInv
  <2>4. file \in Seq(FileRow) /\ saved + 1 \in 1..Len(file) /\ file[saved + 1] \in FileRow
    BY <2>3, NextLine
  <2>5. Key(writing[Importer]) = Key(file[saved + 1])
    BY <2>3, <2>4, ConvertedTyped
  <2> QED
    BY <1>1, <2>1, <2>2, <2>3, <2>4, <2>5
<1> QED
  BY <1>2, <1>3

(* The first conjunct of WritingInv, of one writer. *)
Found(w) == existing[w] /\ writing[w] # None => Stored(Key(writing[w])) # {}

LEMMA WritingStep == TypeOK /\ WritingInv /\ [Next]_vars => WritingInv'
<1> SUFFICES ASSUME TypeOK, WritingInv, [Next]_vars
             PROVE  WritingInv'
  OBVIOUS
<1> DEFINE All == Writers \cup {Importer}
           AtLine == writing[Importer] # None =>
                       /\ file # None /\ saved < Len(file)
                       /\ writing[Importer] = Converted(file[saved + 1])
<1>0. /\ \A w \in All : Found(w)
      /\ AtLine
      /\ writing \in [All -> AssetCriticality \cup {None}] /\ existing \in [All -> BOOLEAN]
  BY DEF WritingInv, Found, TypeOK
<1>a. (\A w \in All : Found(w)') /\ AtLine' => WritingInv'
  BY DEF WritingInv, Found
<1> HIDE DEF All
<1>b. ASSUME UNCHANGED <<crits, writing, existing, file, saved>>
      PROVE  WritingInv'
  BY <1>0, <1>a, <1>b DEF Found, Stored, Key
<1>c. ASSUME NEW w \in All, NEW rec, Look(w, rec), UNCHANGED crits
      PROVE  \A v \in All : Found(v)'
  <2>1. /\ writing' = [writing EXCEPT ![w] = rec]
        /\ existing' = [existing EXCEPT ![w] = Stored(Key(rec)) # {}]
    BY <1>c DEF Look
  <2>2. ASSUME NEW v \in All
        PROVE  Found(v)'
    <3>1. CASE v = w
      <4>1. writing'[v] = rec /\ (existing'[v] = (Stored(Key(rec)) # {}))
        BY <1>0, <2>1, <3>1
      <4> QED
        BY <1>c, <4>1 DEF Found, Stored, Key
    <3>2. CASE v # w
      <4>1. writing'[v] = writing[v] /\ existing'[v] = existing[v]
        BY <1>0, <2>1, <3>2
      <4>2. Found(v)' <=> Found(v)
        BY <1>c, <4>1 DEF Found, Stored, Key
      <4> QED
        BY <1>0, <4>2
    <3> QED
      BY <3>1, <3>2
  <2> QED
    BY <2>2
<1>d. ASSUME NEW w \in All, writing' = [writing EXCEPT ![w] = None],
             existing' = [existing EXCEPT ![w] = FALSE],
             crits' = crits \/ \E rec \in AssetCriticality : SavesOnly(rec, crits')
      PROVE  \A v \in All : Found(v)'
  <2> TAKE v \in All
  <2>1. CASE v = w
    BY <1>0, <1>d, <2>1 DEF Found
  <2>2. CASE v # w
    <3>1. writing'[v] = writing[v] /\ existing'[v] = existing[v]
      BY <1>0, <1>d, <2>2
    <3>2. Stored(Key(writing[v])) # {} => Stored(Key(writing[v]))' # {}
      <4>1. CASE crits' = crits /\ UNCHANGED Key(writing[v])
        BY <4>1 DEF Stored, Key
      <4>2. CASE \E rec \in AssetCriticality : SavesOnly(rec, crits')
        <5> DEFINE key == Key(writing[v])
        <5>1. key' = key
          BY <3>1 DEF Key
        <5>2. \A k : Stored(k) # {} => {i \in DOMAIN crits' : Key(crits'[i]) = k} # {}
          BY <4>2 DEF SavesOnly, Stored
        <5>3. Stored(Key(writing[v]))' = {i \in DOMAIN crits' : Key(crits'[i]) = key}
          BY <3>1 DEF Stored, Key
        <5> HIDE DEF key
        <5> QED
          BY <5>2, <5>3 DEF key
      <4> QED
        BY <1>d, <3>1, <4>1, <4>2 DEF Key
    <3> QED
      BY <1>0, <3>1, <3>2 DEF Found
  <2> QED
    BY <2>1, <2>2
<1>1. ASSUME NEW i \in PolicyIds, NEW body \in PolicyBodies, PutPolicy(i, body)
      PROVE  WritingInv'
  BY <1>1, <1>b DEF PutPolicy
<1>2. ASSUME NEW w \in Writers, NEW rec \in Records, PutLook(w, rec)
      PROVE  WritingInv'
  <2>1. Look(w, rec) /\ UNCHANGED <<crits, file, saved>> /\ w \in All /\ w # Importer
    BY <1>2, NamesAreFresh DEF PutLook, All
  <2>2. writing'[Importer] = writing[Importer]
    BY <1>0, <2>1 DEF Look, All
  <2> QED
    BY <1>0, <1>a, <1>c, <2>1, <2>2
<1>3. ASSUME NEW w \in Writers, PutCommit(w)
      PROVE  WritingInv'
  <2>1. /\ w # Importer /\ w \in All
        /\ writing' = [writing EXCEPT ![w] = None]
        /\ existing' = [existing EXCEPT ![w] = FALSE]
        /\ UNCHANGED <<file, saved>>
        /\ crits' = crits \/ \E rec \in AssetCriticality : SavesOnly(rec, crits')
    BY <1>3, PutCommitSaves DEF All
  <2>2. writing'[Importer] = writing[Importer]
    BY <1>0, <2>1 DEF All
  <2> QED
    BY <1>0, <1>a, <1>d, <2>1, <2>2
<1>4. ASSUME NEW csv \in Files, BeginImport(csv)
      PROVE  WritingInv'
  <2>1. file = None /\ UNCHANGED <<crits, writing, existing, saved>>
    BY <1>4 DEF BeginImport
  <2>2. \A v \in All : Found(v)'
    BY <1>0, <2>1 DEF Found, Stored, Key
  <2> QED
    BY <1>0, <1>a, <2>1, <2>2
<1>5. CASE ImportLook
  <2>1. /\ Look(Importer, Converted(file[saved + 1])) /\ UNCHANGED <<crits, file, saved>>
        /\ file # None /\ saved < Len(file) /\ Importer \in All
    BY <1>5 DEF ImportLook, Importing, All
  <2>2. writing'[Importer] = Converted(file[saved + 1])
    BY <1>0, <2>1 DEF Look
  <2> QED
    BY <1>a, <1>c, <2>1, <2>2
<1>6. CASE ImportCommit
  <2>1. /\ writing' = [writing EXCEPT ![Importer] = None]
        /\ existing' = [existing EXCEPT ![Importer] = FALSE]
        /\ crits' = crits \/ \E rec \in AssetCriticality : SavesOnly(rec, crits')
        /\ Importer \in All
    BY <1>6, ImportCommitSaves DEF All
  <2>2. writing'[Importer] = None
    BY <1>0, <2>1
  <2> QED
    BY <1>a, <1>d, <2>1, <2>2
<1>7. CASE ImportGarbled
  BY <1>7, <1>b DEF ImportGarbled
<1>8. CASE ImportAnswer
  BY <1>8, <1>b DEF ImportAnswer
<1>9. ASSUME NEW s \in Scans, NEW target \in Targets \cup {None}, NEW i \in PolicyIds,
             NEW z \in Horizons \cup {None}, ResolvePolicy(s, target, i, z)
      PROVE  WritingInv'
  BY <1>9, <1>b DEF ResolvePolicy
<1>10. ASSUME NEW s \in Scans, ResolveContexts(s)
       PROVE  WritingInv'
  BY <1>10, <1>b DEF ResolveContexts
<1>11. ASSUME NEW s \in Scans, Score(s)
       PROVE  WritingInv'
  BY <1>11, <1>b DEF Score
<1>12. CASE UNCHANGED vars
  BY <1>12, <1>b DEF vars
<1> QED
  BY <1>1, <1>2, <1>3, <1>4, <1>5, <1>6, <1>7, <1>8, <1>9, <1>10, <1>11, <1>12 DEF Next

(* ImportInv of one line of the file. *)
LastOfKey(csv, last, i) == \A k \in (i + 1)..last : Key(csv[k]) # Key(csv[i])
Stands(csv, i) ==
    Key(csv[i]) \in putSince \/ \E n \in Stored(Key(csv[i])) : crits[n] = Converted(csv[i])

(* A save of another key does not disturb a line that stands. *)
LEMMA StandsOn ==
  ASSUME NEW csv, NEW i, NEW rec, Stands(csv, i), SavesOnly(rec, crits'),
         Key(csv[i]) # Key(rec),
         Key(csv[i]) \in putSince => Key(csv[i]) \in putSince'
  PROVE  \/ Key(csv[i]) \in putSince'
         \/ \E n \in DOMAIN crits' : /\ Key(crits'[n]) = Key(csv[i])
                                     /\ crits'[n] = Converted(csv[i])
<1>1. CASE Key(csv[i]) \in putSince
  BY <1>1
<1>2. ASSUME NEW n \in Stored(Key(csv[i])), crits[n] = Converted(csv[i])
      PROVE  \E m \in DOMAIN crits' : /\ Key(crits'[m]) = Key(csv[i])
                                      /\ crits'[m] = Converted(csv[i])
  <2>1. n \in DOMAIN crits /\ Key(crits[n]) = Key(csv[i])
    BY DEF Stored
  <2>2. n \in DOMAIN crits' /\ crits'[n] = crits[n]
    BY <2>1 DEF SavesOnly
  <2> QED
    BY <1>2, <2>1, <2>2
<1> QED
  BY <1>1, <1>2 DEF Stands

LEMMA ImportStep == TypeOK /\ WritingInv /\ ImportInv /\ [Next]_vars => ImportInv'
<1> SUFFICES ASSUME TypeOK, WritingInv, ImportInv, [Next]_vars
             PROVE  ImportInv'
  OBVIOUS
<1>0. file # None => \A i \in 1..saved : LastOfKey(file, saved, i) => Stands(file, i)
  BY DEF ImportInv, LastOfKey, Stands
<1>a. ImportInv' <=>
        (file' # None => \A i \in 1..saved' : LastOfKey(file', saved', i) =>
           \/ Key(file'[i]) \in putSince'
           \/ \E n \in DOMAIN crits' : /\ Key(crits'[n]) = Key(file'[i])
                                       /\ crits'[n] = Converted(file'[i]))
  BY DEF ImportInv, LastOfKey, Stored, Key, Converted
<1>b. ASSUME UNCHANGED <<crits, file, saved, putSince>>
      PROVE  ImportInv'
  BY <1>0, <1>a, <1>b DEF Stands, Stored
<1>1. ASSUME NEW i \in PolicyIds, NEW body \in PolicyBodies, PutPolicy(i, body)
      PROVE  ImportInv'
  BY <1>1, <1>b DEF PutPolicy
<1>2. ASSUME NEW w \in Writers, NEW rec \in Records, PutLook(w, rec)
      PROVE  ImportInv'
  BY <1>2, <1>b DEF PutLook
<1>3. ASSUME NEW w \in Writers, PutCommit(w)
      PROVE  ImportInv'
  <2>1. /\ UNCHANGED <<file, saved>>
        /\ \/ UNCHANGED <<crits, putSince, known>>
           \/ \E rec \in AssetCriticality : SavesOnly(rec, crits')
                                            /\ putSince' = putSince \cup {Key(rec)}
    BY <1>3, PutCommitSaves
  <2>2. CASE UNCHANGED <<crits, putSince, known>>
    BY <1>b, <2>1, <2>2
  <2>3. ASSUME NEW rec \in AssetCriticality, SavesOnly(rec, crits'),
               putSince' = putSince \cup {Key(rec)}
        PROVE  ImportInv'
    <3>1. SUFFICES ASSUME file # None, NEW i \in 1..saved, LastOfKey(file, saved, i)
                   PROVE  \/ Key(file[i]) \in putSince'
                          \/ \E n \in DOMAIN crits' : /\ Key(crits'[n]) = Key(file[i])
                                                      /\ crits'[n] = Converted(file[i])
      BY <1>a, <2>1
    <3>2. Stands(file, i)
      BY <1>0, <3>1
    <3>3. CASE Key(file[i]) = Key(rec)
      BY <2>3, <3>3
    <3>4. CASE Key(file[i]) # Key(rec)
      BY <2>3, <3>2, <3>4, StandsOn
    <3> QED
      BY <3>3, <3>4
  <2> QED
    BY <2>1, <2>2, <2>3
<1>4. ASSUME NEW csv \in Files, BeginImport(csv)
      PROVE  ImportInv'
  <2>1. saved' = 0
    BY <1>4 DEF BeginImport, TypeOK
  <2>2. 1..0 = {}
    OBVIOUS
  <2> QED
    BY <1>a, <2>1, <2>2
<1>5. CASE ImportLook
  BY <1>5, <1>b DEF ImportLook
<1>6. CASE ImportCommit
  <2>1. /\ file' = file
        /\ \/ UNCHANGED <<crits, saved, putSince, known>>
           \/ \E rec \in AssetCriticality :
                /\ file \in Seq(FileRow) /\ saved + 1 \in 1..Len(file)
                /\ rec = Converted(file[saved + 1]) /\ Key(rec) = Key(file[saved + 1])
                /\ SavesOnly(rec, crits')
                /\ putSince' = putSince \ {Key(rec)} /\ saved' = saved + 1
    BY <1>6, ImportCommitSaves
  <2>2. CASE UNCHANGED <<crits, saved, putSince, known>>
    BY <1>b, <2>1, <2>2
  <2>3. ASSUME NEW rec \in AssetCriticality,
               rec = Converted(file[saved + 1]), Key(rec) = Key(file[saved + 1]),
               SavesOnly(rec, crits'),
               putSince' = putSince \ {Key(rec)}, saved' = saved + 1
        PROVE  ImportInv'
    <3>0. saved \in Nat
      BY DEF TypeOK
    <3>1. SUFFICES ASSUME file # None, NEW i \in 1..(saved + 1),
                          LastOfKey(file, saved + 1, i)
                   PROVE  \/ Key(file[i]) \in putSince'
                          \/ \E n \in DOMAIN crits' : /\ Key(crits'[n]) = Key(file[i])
                                                      /\ crits'[n] = Converted(file[i])
      BY <1>a, <2>1, <2>3
    <3>2. CASE i = saved + 1
      BY <2>3, <3>2 DEF SavesOnly
    <3>3. CASE i # saved + 1
      <4>1. i \in 1..saved /\ LastOfKey(file, saved, i)
        BY <3>0, <3>1, <3>3 DEF LastOfKey
      <4>2. Key(file[saved + 1]) # Key(file[i])
        BY <3>0, <3>1, <4>1 DEF LastOfKey
      <4>3. Stands(file, i)
        BY <1>0, <3>1, <4>1
      <4>4. Key(file[i]) \in putSince => Key(file[i]) \in putSince'
        BY <2>3, <4>2
      <4> QED
        BY <2>3, <4>2, <4>3, <4>4, StandsOn
    <3> QED
      BY <3>2, <3>3
  <2> QED
    BY <2>1, <2>2, <2>3
<1>7. CASE ImportGarbled
  BY <1>7, <1>b DEF ImportGarbled
<1>8. CASE ImportAnswer
  BY <1>8, <1>b DEF ImportAnswer
<1>9. ASSUME NEW s \in Scans, NEW target \in Targets \cup {None}, NEW i \in PolicyIds,
             NEW z \in Horizons \cup {None}, ResolvePolicy(s, target, i, z)
      PROVE  ImportInv'
  BY <1>9, <1>b DEF ResolvePolicy
<1>10. ASSUME NEW s \in Scans, ResolveContexts(s)
       PROVE  ImportInv'
  BY <1>10, <1>b DEF ResolveContexts
<1>11. ASSUME NEW s \in Scans, Score(s)
       PROVE  ImportInv'
  BY <1>11, <1>b DEF Score
<1>12. CASE UNCHANGED vars
  BY <1>12, <1>b DEF vars
<1> QED
  BY <1>1, <1>2, <1>3, <1>4, <1>5, <1>6, <1>7, <1>8, <1>9, <1>10, <1>11, <1>12 DEF Next

(* KnownInv of one scan. *)
Knows(s) ==
    scan[s].stage = "policy" =>
      /\ \A key \in known[s].keys : Stored(key) # {}
      /\ \A n \in DOMAIN crits : crits[n] \in known[s].records

(* A save tells the scans between their sessions of its record. *)
LEMMA KnowsOn ==
  ASSUME TypeOK, NEW rec \in AssetCriticality, SavesOnly(rec, crits'), known' = SeenBy(rec),
         NEW s \in Scans, Knows(s), scan' = scan
  PROVE  Knows(s)'
<1> SUFFICES ASSUME scan[s].stage = "policy"
             PROVE  /\ \A key \in known'[s].keys : Stored(key)' # {}
                    /\ \A n \in DOMAIN crits' : crits'[n] \in known'[s].records
  BY DEF Knows
<1>1. /\ known'[s].keys = known[s].keys
      /\ known[s].records \subseteq known'[s].records /\ rec \in known'[s].records
  BY SeenTyped
<1>2. \A n \in DOMAIN crits' : crits'[n] \in known'[s].records
  BY <1>1 DEF SavesOnly, Knows
<1>3. \A key : Stored(key) # {} => Stored(key)' # {}
  BY DEF SavesOnly, Stored, Key
<1> QED
  BY <1>1, <1>2, <1>3 DEF Knows

LEMMA KnownStep == TypeOK /\ WritingInv /\ KnownInv /\ [Next]_vars => KnownInv'
<1> SUFFICES ASSUME TypeOK, WritingInv, KnownInv, [Next]_vars, NEW t \in Scans
             PROVE  Knows(t)'
  BY DEF KnownInv, Knows
<1>0. Knows(t)
  BY DEF KnownInv, Knows
<1>a. ASSUME crits' = crits, known'[t] = known[t],
             scan'[t] = scan[t] \/ scan'[t].stage # "policy"
      PROVE  Knows(t)'
  BY <1>0, <1>a DEF Knows, Stored, Key
<1>1. ASSUME NEW i \in PolicyIds, NEW body \in PolicyBodies, PutPolicy(i, body)
      PROVE  Knows(t)'
  BY <1>1, <1>a DEF PutPolicy
<1>2. ASSUME NEW w \in Writers, NEW rec \in Records, PutLook(w, rec)
      PROVE  Knows(t)'
  BY <1>2, <1>a DEF PutLook
<1>3. ASSUME NEW w \in Writers, PutCommit(w)
      PROVE  Knows(t)'
  <2>1. /\ scan' = scan
        /\ \/ UNCHANGED <<crits, putSince, known>>
           \/ \E rec \in AssetCriticality : SavesOnly(rec, crits') /\ known' = SeenBy(rec)
    BY <1>3, PutCommitSaves
  <2> QED
    BY <1>0, <1>a, <2>1, KnowsOn
<1>4. ASSUME NEW csv \in Files, BeginImport(csv)
      PROVE  Knows(t)'
  BY <1>4, <1>a DEF BeginImport
<1>5. CASE ImportLook
  BY <1>5, <1>a DEF ImportLook
<1>6. CASE ImportCommit
  <2>1. /\ scan' = scan
        /\ \/ UNCHANGED <<crits, saved, putSince, known>>
           \/ \E rec \in AssetCriticality : SavesOnly(rec, crits') /\ known' = SeenBy(rec)
    BY <1>6, ImportCommitSaves
  <2> QED
    BY <1>0, <1>a, <2>1, KnowsOn
<1>7. CASE ImportGarbled
  BY <1>7, <1>a DEF ImportGarbled
<1>8. CASE ImportAnswer
  BY <1>8, <1>a DEF ImportAnswer
<1>9. ASSUME NEW s \in Scans, NEW target \in Targets \cup {None}, NEW i \in PolicyIds,
             NEW z \in Horizons \cup {None}, ResolvePolicy(s, target, i, z)
      PROVE  Knows(t)'
  <2>0. scan' = [scan EXCEPT ![s] = scan'[s]]
    BY <1>9, ResolvedTyped
  <2>1. /\ crits' = crits
        /\ known' = [known EXCEPT ![s] = [keys |-> {Key(crits[n]) : n \in DOMAIN crits},
                                          records |-> {crits[n] : n \in DOMAIN crits}]]
    BY <1>9 DEF ResolvePolicy
  <2>2. CASE t = s
    <3>1. /\ known'[t].keys = {Key(crits[n]) : n \in DOMAIN crits}
          /\ known'[t].records = {crits[n] : n \in DOMAIN crits}
      BY <2>1, <2>2 DEF TypeOK
    <3> QED
      BY <2>1, <3>1 DEF Knows, Stored, Key
  <2>3. CASE t # s
    <3>1. known'[t] = known[t] /\ scan'[t] = scan[t]
      BY <2>0, <2>1, <2>3 DEF TypeOK
    <3> QED
      BY <1>a, <2>1, <3>1
  <2> QED
    BY <2>2, <2>3
<1>10. ASSUME NEW s \in Scans, ResolveContexts(s)
       PROVE  Knows(t)'
  <2>1. scan' = [scan EXCEPT ![s] = scan'[s]] /\ scan'[s].stage = "resolved"
    BY <1>10, ContextsTyped
  <2>2. scan'[t] = scan[t] \/ scan'[t].stage # "policy"
    BY <2>1 DEF TypeOK
  <2> QED
    BY <1>10, <1>a, <2>2 DEF ResolveContexts
<1>11. ASSUME NEW s \in Scans, Score(s)
       PROVE  Knows(t)'
  <2>1. /\ scan' = [scan EXCEPT ![s] = scan'[s]]
        /\ scan'[s].stage \in {"scored", "failed"}
    BY <1>11, ScoreTyped
  <2>2. scan'[t] = scan[t] \/ scan'[t].stage # "policy"
    BY <2>1 DEF TypeOK
  <2> QED
    BY <1>11, <1>a, <2>2 DEF Score
<1>12. CASE UNCHANGED vars
  BY <1>12, <1>a DEF vars
<1> QED
  BY <1>1, <1>2, <1>3, <1>4, <1>5, <1>6, <1>7, <1>8, <1>9, <1>10, <1>11, <1>12 DEF Next

(* ContextsInv of one scan. *)
Headed(policy, target, k) ==
    \E m \in 0..Len(policy.contexts) :
      /\ \A i \in 1..m : \E rec \in k.records :
           rec.target = target /\ policy.contexts[i] = AsContext(rec, policy)
      /\ \A key \in k.keys : key[1] = target => \E i \in 1..m : policy.contexts[i].glob = key[2]

Heads(s) ==
    scan[s].stage \in {"resolved", "scored"} /\ scan[s].target # None =>
      Headed(scan[s].policy, scan[s].target, known[s])

LEMMA ContextsStep == TypeOK /\ WritingInv /\ KnownInv /\ ContextsInv /\ [Next]_vars => ContextsInv'
<1> SUFFICES ASSUME TypeOK, WritingInv, KnownInv, ContextsInv, [Next]_vars, NEW t \in Scans
             PROVE  Heads(t)'
  BY DEF ContextsInv, Heads, Headed
<1>0. Heads(t)
  BY DEF ContextsInv, Heads, Headed
<1>a. ASSUME scan'[t] = scan[t],
             scan[t].stage \in {"resolved", "scored"} => known'[t] = known[t]
      PROVE  Heads(t)'
  BY <1>0, <1>a DEF Heads
<1>1. ASSUME NEW i \in PolicyIds, NEW body \in PolicyBodies, PutPolicy(i, body)
      PROVE  Heads(t)'
  BY <1>1, <1>a DEF PutPolicy
<1>2. ASSUME NEW w \in Writers, NEW rec \in Records, PutLook(w, rec)
      PROVE  Heads(t)'
  BY <1>2, <1>a DEF PutLook
<1>3. ASSUME NEW w \in Writers, PutCommit(w)
      PROVE  Heads(t)'
  <2>1. /\ scan' = scan
        /\ known' = known \/ \E rec \in AssetCriticality : known' = SeenBy(rec)
    BY <1>3, PutCommitSaves
  <2> QED
    BY <1>a, <2>1, SeenTyped
<1>4. ASSUME NEW csv \in Files, BeginImport(csv)
      PROVE  Heads(t)'
  BY <1>4, <1>a DEF BeginImport
<1>5. CASE ImportLook
  BY <1>5, <1>a DEF ImportLook
<1>6. CASE ImportCommit
  <2>1. /\ scan' = scan
        /\ known' = known \/ \E rec \in AssetCriticality : known' = SeenBy(rec)
    BY <1>6, ImportCommitSaves
  <2> QED
    BY <1>a, <2>1, SeenTyped
<1>7. CASE ImportGarbled
  BY <1>7, <1>a DEF ImportGarbled
<1>8. CASE ImportAnswer
  BY <1>8, <1>a DEF ImportAnswer
<1>9. ASSUME NEW s \in Scans, NEW target \in Targets \cup {None}, NEW i \in PolicyIds,
             NEW z \in Horizons \cup {None}, ResolvePolicy(s, target, i, z)
      PROVE  Heads(t)'
  <2>1. /\ scan' = [scan EXCEPT ![s] = scan'[s]] /\ scan'[s].target = target
        /\ scan'[s].stage = IF target = None THEN "resolved" ELSE "policy"
    BY <1>9, ResolvedTyped
  <2>2. CASE t = s
    BY <2>1, <2>2 DEF Heads
  <2>3. CASE t # s
    <3>1. scan'[t] = scan[t] /\ known'[t] = known[t]
      BY <1>9, <2>1, <2>3 DEF TypeOK, ResolvePolicy
    <3> QED
      BY <1>a, <3>1
  <2> QED
    BY <2>2, <2>3
<1>10. ASSUME NEW s \in Scans, ResolveContexts(s)
       PROVE  Heads(t)'
  <2> DEFINE own == scan[s].policy
             recs == OfTarget(crits, scan[s].target)
             new == WithCriticalities(own, recs)
  <2>1. /\ own \in Policy /\ recs \in Seq(AssetCriticality)
        /\ scan' = [scan EXCEPT ![s] = scan'[s]]
        /\ scan'[s].policy = new /\ scan'[s].target = scan[s].target
    BY <1>10, ContextsTyped
  <2>2. known' = known
    BY <1>10 DEF ResolveContexts
  <2>3. CASE t = s
    <3>1. /\ Len(recs) \in 0..Len(new.contexts)
          /\ \A i \in 1..Len(recs) : new.contexts[i] = AsContext(recs[i], new)
      <4> HIDE DEF own, recs
      <4> QED
        BY <2>1, WithCriticalitiesHeads
    <3>2. Knows(s) /\ scan[s].stage = "policy"
      BY <1>10 DEF KnownInv, Knows, ResolveContexts
    <3>3. /\ \A i \in 1..Len(recs) : /\ recs[i].target = scan[s].target
                                     /\ \E j \in 1..Len(crits) : recs[i] = crits[j]
          /\ \A j \in 1..Len(crits) : crits[j].target = scan[s].target =>
               \E i \in 1..Len(recs) : recs[i] = crits[j]
      <4>1. crits \in Seq(AssetCriticality)
        BY DEF TypeOK
      <4> QED
        BY <4>1, OfTargetKeeps
    <3>4. DOMAIN crits = 1..Len(crits)
      BY DEF TypeOK
    <3> HIDE DEF own, recs, new
    <3>5. \A i \in 1..Len(recs) :
            /\ recs[i] \in known[s].records /\ recs[i].target = scan[s].target
            /\ new.contexts[i] = AsContext(recs[i], new)
      BY <3>1, <3>2, <3>3, <3>4 DEF Knows
    <3>6. ASSUME NEW key \in known[s].keys, key[1] = scan[s].target
          PROVE  \E i \in 1..Len(recs) : new.contexts[i].glob = key[2]
      <4>1. PICK n \in DOMAIN crits : Key(crits[n]) = key
        BY <3>2 DEF Knows, Stored
      <4>2. crits[n].target = scan[s].target /\ crits[n].pattern = key[2]
        BY <3>6, <4>1 DEF Key
      <4>3. PICK i \in 1..Len(recs) : recs[i] = crits[n]
        BY <3>3, <3>4, <4>2
      <4>4. AsContext(recs[i], new).glob = recs[i].pattern
        BY DEF AsContext
      <4>5. new.contexts[i].glob = key[2]
        BY <3>5, <4>2, <4>3, <4>4
      <4> QED
        BY <4>5
    <3>7. Headed(new, scan[s].target, known[s])
      BY <3>1, <3>5, <3>6 DEF Headed
    <3> QED
      BY <2>1, <2>2, <2>3, <3>7 DEF Heads
  <2>4. CASE t # s
    <3>1. scan'[t] = scan[t]
      BY <2>1, <2>4 DEF TypeOK
    <3> QED
      BY <1>a, <2>2, <3>1
  <2> QED
    BY <2>3, <2>4
<1>11. ASSUME NEW s \in Scans, Score(s)
       PROVE  Heads(t)'
  <2>1. /\ scan' = [scan EXCEPT ![s] = scan'[s]]
        /\ scan'[s].policy = scan[s].policy /\ scan'[s].target = scan[s].target
        /\ scan[s].stage = "resolved" /\ known' = known
    BY <1>11, ScoreTyped DEF Score
  <2>2. CASE t = s
    BY <1>0, <2>1, <2>2 DEF Heads
  <2>3. CASE t # s
    <3>1. scan'[t] = scan[t]
      BY <2>1, <2>3 DEF TypeOK
    <3> QED
      BY <1>a, <2>1, <3>1
  <2> QED
    BY <2>2, <2>3
<1>12. CASE UNCHANGED vars
  BY <1>12, <1>a DEF vars
<1> QED
  BY <1>1, <1>2, <1>3, <1>4, <1>5, <1>6, <1>7, <1>8, <1>9, <1>10, <1>11, <1>12 DEF Next

LEMMA ScoredStep == TypeOK /\ WritingInv /\ ScoredInv /\ [Next]_vars => ScoredInv'
<1> DEFINE Holds(t) == scan[t].stage = "scored" =>
                         \A d \in Detections :
                           /\ HasScore(d, scan[t].policy.crqcYears)
                           /\ scan[t].risk[d] = DeriveRisk(d, scan[t].policy)
<1> SUFFICES ASSUME TypeOK, WritingInv, ScoredInv, [Next]_vars, NEW t \in Scans
             PROVE  Holds(t)'
  BY DEF ScoredInv
<1>a. ASSUME scan'[t] = scan[t] \/ scan'[t].stage # "scored"
      PROVE  Holds(t)'
  <2>1. CASE scan'[t].stage # "scored"
    BY <2>1
  <2>2. CASE scan'[t] = scan[t]
    <3>1. Holds(t)
      BY DEF ScoredInv
    <3>2. \A d : DeriveRisk(d, scan[t].policy)' = DeriveRisk(d, scan[t].policy)
      BY <2>2 DEF DeriveRisk, MatchedContext
    <3> QED
      BY <2>2, <3>1, <3>2
  <2> QED
    BY <1>a, <2>1, <2>2
<1>1. ASSUME scan' = scan
      PROVE  Holds(t)'
  BY <1>a, <1>1
<1>2. ASSUME NEW s \in Scans, NEW target \in Targets \cup {None}, NEW i \in PolicyIds,
             NEW z \in Horizons \cup {None}, ResolvePolicy(s, target, i, z)
      PROVE  Holds(t)'
  <2>1. /\ scan' = [scan EXCEPT ![s] = scan'[s]]
        /\ scan'[s].stage \in {"resolved", "policy"}
    BY <1>2, ResolvedTyped
  <2>2. scan'[t] = scan[t] \/ scan'[t].stage # "scored"
    BY <2>1 DEF TypeOK
  <2> QED
    BY <1>a, <2>2
<1>3. ASSUME NEW s \in Scans, ResolveContexts(s)
      PROVE  Holds(t)'
  <2>1. scan' = [scan EXCEPT ![s] = scan'[s]] /\ scan'[s].stage = "resolved"
    BY <1>3, ContextsTyped
  <2>2. scan'[t] = scan[t] \/ scan'[t].stage # "scored"
    BY <2>1 DEF TypeOK
  <2> QED
    BY <1>a, <2>2
<1>4. ASSUME NEW s \in Scans, Score(s)
      PROVE  Holds(t)'
  <2> DEFINE policy == scan[s].policy
  <2>1. /\ scan' = [scan EXCEPT ![s] = scan'[s]] /\ scan'[s].policy = policy
        /\ \/ /\ \A d \in Detections : HasScore(d, policy.crqcYears)
              /\ scan'[s].risk = [d \in Detections |-> DeriveRisk(d, policy)]
           \/ scan'[s].stage = "failed"
    BY <1>4, ScoreTyped
  <2>2. CASE t = s /\ scan'[s].stage = "scored"
    <3>1. \A d \in Detections : /\ HasScore(d, policy.crqcYears)
                                /\ scan'[s].risk[d] = DeriveRisk(d, policy)
      <4> HIDE DEF policy
      <4> QED
        BY <2>1, <2>2
    <3> QED
      BY <2>1, <2>2, <3>1
  <2>3. CASE ~(t = s /\ scan'[s].stage = "scored")
    <3>1. scan'[t] = scan[t] \/ scan'[t].stage # "scored"
      BY <2>1, <2>3 DEF TypeOK
    <3> QED
      BY <1>a, <3>1
  <2> QED
    BY <2>2, <2>3
<1>5. CASE UNCHANGED vars
  BY <1>1, <1>5 DEF vars
<1> QED
  BY <1>1, <1>2, <1>3, <1>4, <1>5
     DEF Next, PutPolicy, PutLook, PutCommit, BeginImport, ImportLook, ImportCommit,
         ImportGarbled, ImportAnswer
-----------------------------------------------------------------------------
(* The theorems *)

LEMMA InitPolicyInv == Init => PolicyInv
<1> SUFFICES ASSUME Init
             PROVE  PolicyInv
  OBVIOUS
<1>1. crits = <<>> /\ crits \in Seq(AssetCriticality) /\ DOMAIN crits = {}
  BY DEF Init
<1>2. NewScan \in ScanRecord
  BY DEF NewScan, ScanRecord, Stages
<1>3. \A s \in Scans : scan[s] = NewScan /\ scan[s].stage = "new"
  BY DEF Init, NewScan
<1>4. scan \in [Scans -> ScanRecord]
  BY <1>2 DEF Init
<1>5. \A i \in PolicyIds : policies[i] \in Policy \cup {None}
  BY PoliciesTyped DEF Init
<1>6. TypeOK
  BY <1>1, <1>3, <1>4, <1>5 DEF Init, TypeOK
<1>7. WritingInv
  BY DEF Init, WritingInv
<1>8. ImportInv
  BY DEF Init, ImportInv
<1>9. KnownInv /\ ContextsInv /\ ScoredInv
  BY <1>3 DEF KnownInv, ContextsInv, ScoredInv
<1> QED
  BY <1>6, <1>7, <1>8, <1>9 DEF PolicyInv

(* What the invariants below are drawn from: writers find the rows they    *)
(* have read for, the lines of an import stand, scans know what they saw,  *)
(* and what they hold is derived from it (store.py:85, routes/             *)
(* criticality.py:41, scanner.py:96).                                      *)
THEOREM PolicyInvariant == Spec => []PolicyInv
<1>1. PolicyInv /\ [Next]_vars => PolicyInv'
  BY TypeStep, WritingStep, ImportStep, KnownStep, ContextsStep, ScoredStep DEF PolicyInv
<1> QED
  BY <1>1, InitPolicyInv, PTL DEF Spec

(* Rows keep to one a key, and a scan has what its stage needs, in every   *)
(* reachable state (models.py:98, store.py:958).                           *)
THEOREM TypeCorrect == Spec => []TypeOK
<1>1. PolicyInv => TypeOK
  BY DEF PolicyInv
<1> QED
  BY <1>1, PolicyInvariant, PTL

(* Every line that an import reports as saved stands as the last line of   *)
(* its key has it, or a PUT has saved that key since.                      *)
THEOREM ImportedLinesStand == Spec => []ImportStands
<1>1. ASSUME PolicyInv, file # None, NEW i \in 1..saved
      PROVE  LET key == Key(file[i])
                 lastLine == CHOOSE j \in 1..saved :
                               Key(file[j]) = key /\ \A k \in (j + 1)..saved : Key(file[k]) # key
             IN  key \in putSince \/ \E n \in Stored(key) : crits[n] = Converted(file[lastLine])
  <2> DEFINE key == Key(file[i])
             Last(j) == Key(file[j]) = key /\ \A k \in (j + 1)..saved : Key(file[k]) # key
             lastLine == CHOOSE j \in 1..saved : Last(j)
             lines == {j \in 1..saved : Key(file[j]) = key}
  <2>1. saved \in Nat
    BY <1>1 DEF PolicyInv, TypeOK
  <2>2. lines \in SUBSET (0..saved) /\ i \in lines
    BY <2>1
  <2>3. \E j \in lines : \A k \in lines : k <= j
    <3> HIDE DEF lines
    <3> QED
      BY <2>1, <2>2, GreatestNumber
  <2>4. \E j \in 1..saved : Last(j)
    <3>1. PICK j \in lines : \A k \in lines : k <= j
      BY <2>3
    <3>2. \A k \in (j + 1)..saved : k \in 1..saved /\ ~(k <= j)
      BY <2>1
    <3>3. \A k \in (j + 1)..saved : Key(file[k]) # key
      <4> HIDE DEF key
      <4> QED
        BY <3>1, <3>2
    <3> QED
      BY <3>3
  <2>5. lastLine \in 1..saved /\ Last(lastLine)
    <3> HIDE DEF Last
    <3> QED
      BY <2>4
  <2> HIDE DEF lastLine
  <2>6. key \in putSince \/ \E n \in Stored(key) : crits[n] = Converted(file[lastLine])
    BY <1>1, <2>5 DEF PolicyInv, ImportInv
  <2> QED
    BY <2>6 DEF lastLine
<1>2. PolicyInv => ImportStands
  BY <1>1 DEF ImportStands
<1> QED
  BY <1>2, PolicyInvariant, PTL

(* A path that a criticality of its target matched when its scan began is  *)
(* scored by an operator's context and not by one of the policy.           *)
THEOREM OperatorsPrevail == Spec => []OperatorPrevails
<1>1. ASSUME PolicyInv, NEW s \in Scans, scan[s].stage = "scored", NEW d \in Detections,
             NEW key \in known[s].keys, key[1] = scan[s].target,
             <<d.path, key[2]>> \in Matches
      PROVE  \E rec \in known[s].records :
               /\ rec.target = scan[s].target /\ <<d.path, rec.pattern>> \in Matches
               /\ scan[s].risk[d].context = AsContext(rec, scan[s].policy).context
  <2> DEFINE policy == scan[s].policy
             contexts == policy.contexts
             hits == {i \in DOMAIN contexts : <<d.path, contexts[i].glob>> \in Matches}
  <2>1. scan[s].target # None
    <3>1. key[1] \in Targets
      BY <1>1 DEF PolicyInv, TypeOK
    <3> QED
      BY <1>1, <3>1, NamesAreFresh
  <2>2. PICK m \in 0..Len(contexts) :
          /\ \A i \in 1..m : \E rec \in known[s].records :
               rec.target = scan[s].target /\ contexts[i] = AsContext(rec, policy)
          /\ \E i \in 1..m : contexts[i].glob = key[2]
    BY <1>1, <2>1 DEF PolicyInv, ContextsInv
  <2>3. policy \in Policy /\ contexts \in Seq(Globbed)
    BY <1>1 DEF PolicyInv, TypeOK, Policy
  <2>4. scan[s].risk[d].context = MatchedContext(d.path, policy)
    <3>1. scan[s].risk[d] = DeriveRisk(d, policy)
      BY <1>1 DEF PolicyInv, ScoredInv
    <3> HIDE DEF policy
    <3> QED
      BY <3>1 DEF DeriveRisk
  <2>5. hits # {} => \E first \in hits :
                       /\ \A j \in hits : first <= j
                       /\ MatchedContext(d.path, policy) = contexts[first].context
    <3> HIDE DEF policy
    <3> QED
      BY <2>3, MatchedFirst
  <2> HIDE DEF policy, contexts
  <2>6. PICK i \in 1..m : contexts[i].glob = key[2]
    BY <2>2
  <2>7. m \in Nat /\ m <= Len(contexts) /\ DOMAIN contexts = 1..Len(contexts) /\ Len(contexts) \in Nat
    BY <2>2, <2>3
  <2>8. i \in hits
    BY <1>1, <2>6, <2>7
  <2>9. PICK first \in hits :
          /\ \A j \in hits : first <= j
          /\ MatchedContext(d.path, policy) = contexts[first].context
    BY <2>5, <2>8
  <2>10. first \in 1..m
    <3>1. first \in 1..Len(contexts) /\ first <= i
      BY <2>7, <2>8, <2>9
    <3> QED
      BY <2>6, <2>7, <3>1
  <2>11. PICK rec \in known[s].records :
           rec.target = scan[s].target /\ contexts[first] = AsContext(rec, policy)
    BY <2>2, <2>10
  <2>12. <<d.path, rec.pattern>> \in Matches
    <3>1. rec.pattern = contexts[first].glob
      BY <2>11 DEF AsContext
    <3> QED
      BY <2>9, <3>1
  <2> QED
    BY <2>4, <2>9, <2>11, <2>12 DEF policy
<1>2. PolicyInv => OperatorPrevails
  BY <1>1 DEF OperatorPrevails
<1> QED
  BY <1>2, PolicyInvariant, PTL

(* The risk of a scored detection is the one its context and horizon give. *)
LEMMA RiskIs ==
  ASSUME PolicyInv, NEW sd \in Scored
  PROVE  LET d == sd[2]
             r == RiskOf(sd)
             given == Floored(d, r.context, ExactScore(d, r.context, r.z))
         IN  /\ d \in Detection /\ r.context \in Context /\ r.z \in Nat
             /\ HasScore(d, r.z)
             /\ r.score = given.score /\ r.band = given.band
<1> DEFINE s == sd[1]
           d == sd[2]
           policy == scan[s].policy
           ctx == MatchedContext(d.path, policy)
<1>1. s \in Scans /\ d \in Detections /\ scan[s].stage = "scored"
  BY DEF Scored
<1>2. d \in Detection /\ policy \in Policy
  BY <1>1, DetectionsTyped DEF PolicyInv, TypeOK
<1>3. HasScore(d, policy.crqcYears) /\ RiskOf(sd) = DeriveRisk(d, policy)
  BY <1>1 DEF PolicyInv, ScoredInv, RiskOf
<1>4. ctx \in Context
  BY <1>2, MatchedTyped
<1>5. policy.crqcYears \in Nat
  BY <1>2 DEF Policy
<1>6. /\ RiskOf(sd).context = ctx /\ RiskOf(sd).z = policy.crqcYears
      /\ RiskOf(sd).score = Floored(d, ctx, ExactScore(d, ctx, policy.crqcYears)).score
      /\ RiskOf(sd).band = Floored(d, ctx, ExactScore(d, ctx, policy.crqcYears)).band
  BY <1>3 DEF DeriveRisk
<1> QED
  BY <1>2, <1>3, <1>4, <1>5, <1>6

(* Scores fall with the horizon, keep to the floor and have their band.    *)
THEOREM ScoresAreSound == Spec => []ScoresSound
<1>1. ASSUME PolicyInv, NEW sd \in Scored, NEW te \in Scored,
             sd[2] = te[2], RiskOf(sd).context = RiskOf(te).context
      PROVE  /\ RiskOf(sd).z <= RiskOf(te).z => RiskOf(sd).score >= RiskOf(te).score
             /\ IsClassicallyBroken(sd[2]) => RiskOf(sd).score = RiskOf(te).score
  <2> DEFINE d == sd[2]
             ctx == RiskOf(sd).context
             y == RiskOf(sd).z
             z == RiskOf(te).z
  <2>1. /\ d \in Detection /\ ctx \in Context /\ y \in Nat /\ HasScore(d, y)
        /\ RiskOf(sd).score = Floored(d, ctx, ExactScore(d, ctx, y)).score
    BY <1>1, RiskIs
  <2>2. /\ z \in Nat /\ HasScore(d, z)
        /\ RiskOf(te).score = Floored(d, ctx, ExactScore(d, ctx, z)).score
    BY <1>1, RiskIs
  <2> HIDE DEF d, ctx, y, z
  <2>3. y <= z => RiskOf(sd).score >= RiskOf(te).score
    BY <2>1, <2>2, FlooredMonotonic
  <2>4. IsClassicallyBroken(d) => RiskOf(sd).score = RiskOf(te).score
    BY <2>1, <2>2, BrokenIgnoresHorizon
  <2> QED
    BY <2>3, <2>4 DEF d, y, z
<1>2. ASSUME PolicyInv, NEW sd \in Scored
      PROVE  LET r == RiskOf(sd) IN
             /\ (/\ sd[2].function = "keygen" /\ Vulnerability(sd[2]) = 20
                 /\ r.context.exposure # "test")
                => r.score >= PrivateKeyFloor /\ r.band = "critical"
             /\ r.score <= 10000
             /\ \A limit \in AtOrAbove :
                  /\ r.score > limit[1] => r.band \in limit[2]
                  /\ r.score < limit[1] => r.band \notin limit[2]
  <2> DEFINE d == sd[2]
             r == RiskOf(sd)
             ctx == r.context
             z == r.z
             given == Floored(d, ctx, ExactScore(d, ctx, z))
  <2>1. /\ d \in Detection /\ ctx \in Context /\ z \in Nat /\ HasScore(d, z)
        /\ r.score = given.score /\ r.band = given.band
    BY <1>2, RiskIs
  <2>2. /\ given.score \in Nat /\ given.score <= 9000
        /\ (d.function = "keygen" /\ Vulnerability(d) = 20 /\ ctx.exposure # "test")
           => given.score >= PrivateKeyFloor /\ given.band = "critical"
        /\ \A limit \in AtOrAbove :
             /\ given.score > limit[1] => given.band \in limit[2]
             /\ given.score < limit[1] => given.band \notin limit[2]
    <3> HIDE DEF d, ctx, z
    <3> QED
      BY <2>1, FlooredSound
  <2>3. r.score <= 10000
    <3> HIDE DEF given, r
    <3> QED
      BY <2>1, <2>2
  <2> QED
    BY <2>1, <2>2, <2>3
<1>3. PolicyInv => ScoresSound
  BY <1>1, <1>2 DEF ScoresSound
<1> QED
  BY <1>3, PolicyInvariant, PTL

(* A detection that a quantum computer hardly weakens is scored low. *)
LEMMA HardlyVulnerableIsLow ==
  ASSUME NEW d \in Detection, NEW ctx \in Context, NEW z \in Nat, HasScore(d, z),
         Vulnerability(d) <= 2
  PROVE  Floored(d, ctx, ExactScore(d, ctx, z)).band \notin {"critical", "high"}
<1> DEFINE v == Vulnerability(d)
           f == FunctionWeight(d.function)
           e == ExposureWeight(ctx.exposure)
           k == CriticalityWeight(ctx.criticality)
           u == Urgency(IsClassicallyBroken(d), ctx, z)
           x == ExactScore(d, ctx, z)
<1>1. v \in 0..2 /\ f \in 1..18 /\ e \in 1..10 /\ k \in 1..10
  BY WeightRanges
<1>2. u[1] \in Nat /\ u[2] \in Nat \ {0} /\ u[1] <= u[2]
  <2>1. IsClassicallyBroken(d) \in BOOLEAN /\ (IsClassicallyBroken(d) \/ z # 0)
    BY DEF IsClassicallyBroken, HasScore
  <2> QED
    BY <2>1, UrgencyRange
<1>3. x = <<v * f * e * k * u[1], 4 * u[2]>>
  BY DEF ExactScore
<1>4. Floored(d, ctx, x).band = BandForScore(x)
  <2>1. v # 20
    BY <1>1
  <2> QED
    BY <2>1 DEF Floored
<1> HIDE DEF v, f, e, k, u
<1> DEFINE w == v * f * e * k
<1>5. w \in Nat /\ w <= 3600
  <2>1. v * f \in 0..36
    BY <1>1
  <2>2. v * f * e \in 0..360
    BY <1>1, <2>1
  <2> QED
    BY <1>1, <2>2
<1> HIDE DEF w
<1>6. w * u[1] \in Nat /\ w * u[1] <= 3600 * u[2]
  <2>1. w * u[1] \in Nat /\ w * u[1] <= 3600 * u[1]
    BY <1>2, <1>5
  <2> QED
    BY <1>2, <2>1
<1>7. ~(w * u[1] >= 3500 * (4 * u[2]))
  BY <1>2, <1>6
<1>8. <<3500, {"critical", "high"}>> \in AtOrAbove /\ 4 * u[2] \in Nat \ {0}
  BY <1>2 DEF AtOrAbove
<1>9. BandForScore(<<w * u[1], 4 * u[2]>>) \notin {"critical", "high"}
  BY <1>6, <1>7, <1>8, BandLimits
<1> QED
  BY <1>3, <1>4, <1>9 DEF w

(* The tables of risk, recommendation and CBOM agree about every detection. *)
THEOREM RemediesForRisks == Spec => []RemedyForRisk
<1>0. /\ None \notin {"RSA", "DSA", "DH", "ECDH", "ECDSA", "Ed25519", "X25519", "ML-KEM", "ML-DSA",
                    "SLH-DSA", "MD5", "SHA-1", "DES", "RC4", "3DES", "SHA-2", "SHA-3", "AES",
                    "ChaCha20", "Blowfish", "HMAC"}
      /\ None \notin {"ML-KEM-768", "ML-KEM-1024", "ML-DSA-65", "ML-DSA-87", "AES-256-GCM",
                    "SHA-2-256", "HMAC-SHA-2-256"}
  BY NoneIsUntold DEF Family, Remedy, ShorBroken, PostQuantum, ClassicallyBroken, HashFamilies
<1>1. ASSUME NEW d \in Detection, d.family # None, Recommend(d) = None,
             ~(d.family = "ChaCha20" /\ Vulnerability(d) = 12)
      PROVE  Vulnerability(d) <= 2
  <2>1. d.family \in Family /\ d.hash \in HashFamilies \cup {None} /\ d.keySize \in Nat \cup {None}
    BY <1>1 DEF Detection
  <2>2. d.family \notin ShorBroken \cup ClassicallyBroken \cup {"Blowfish"}
    BY <1>1, <1>0 DEF Recommend, SignsWithRSA, ShorBroken, ClassicallyBroken
  <2>3. CASE d.family = "HMAC"
    <3>1. d.hash \notin {"MD5", "SHA-1"}
      BY <1>1, <2>3, <1>0 DEF Recommend, SignsWithRSA
    <3>2. JudgedFamily(d) \in {"HMAC", "SHA-2", "SHA-3"}
      BY <2>1, <2>3, <3>1 DEF JudgedFamily, HashFamilies
    <3> QED
      BY <3>2, <1>0 DEF Vulnerability, ShorBroken, PostQuantum, ClassicallyBroken
  <2>4. CASE d.family \in {"AES", "ChaCha20"}
    <3>1. JudgedFamily(d) = d.family
      BY <2>4 DEF JudgedFamily
    <3>2. Vulnerability(d) = IF d.keySize # None /\ d.keySize < 256 THEN 12 ELSE 2
      BY <2>4, <3>1, <1>0
         DEF Vulnerability, ShorBroken, PostQuantum, ClassicallyBroken
    <3>3. d.family = "AES" => ~(d.keySize = None \/ d.keySize < 256)
      BY <1>1, <1>0 DEF Recommend, SignsWithRSA
    <3> QED
      BY <1>1, <2>4, <3>2, <3>3
  <2>5. CASE d.family \notin {"HMAC", "AES", "ChaCha20"}
    <3>1. JudgedFamily(d) = d.family /\ d.family \in PostQuantum \cup {"SHA-2", "SHA-3"}
      BY <2>1, <2>2, <2>5 DEF JudgedFamily, Family, HashFamilies, ClassicallyBroken
    <3> QED
      BY <3>1, <1>0 DEF Vulnerability, ShorBroken, PostQuantum, ClassicallyBroken
  <2> QED
    BY <2>3, <2>4, <2>5
<1>2. ASSUME NEW d \in Detection
      PROVE  /\ Recommend(d) \in {"ML-KEM-768", "ML-KEM-1024", "ML-DSA-65", "ML-DSA-87"}
                <=> d.family \in ShorBroken
             /\ Recommend(d) \in {"ML-DSA-65", "ML-DSA-87"} => Primitive(d) = "signature"
             /\ Recommend(d) \in {"ML-KEM-768", "ML-KEM-1024"}
                => Primitive(d) \in {"pke", "key-agree"}
             /\ Recommend(d) = "AES-256-GCM"
                => Primitive(d) \in {"block-cipher", "stream-cipher", "ae"}
             /\ Recommend(d) = "SHA-2-256" => Primitive(d) = "hash"
             /\ Recommend(d) = "HMAC-SHA-2-256" => Primitive(d) = "mac"
  <2>1. d.family \in Family \cup {None}
    BY DEF Detection
  <2>2. CASE d.family \in {"RSA", "DH", "ECDH", "X25519", "DSA", "ECDSA", "Ed25519"}
    BY <2>2, <1>0 DEF Recommend, Primitive, SignsWithRSA, ShorBroken, HashFamilies
  <2>3. CASE d.family \in {"3DES", "DES", "RC4", "Blowfish", "MD5", "SHA-1", "HMAC", "AES"}
    BY <2>3, <1>0 DEF Recommend, Primitive, SignsWithRSA, ShorBroken, HashFamilies
  <2>4. CASE d.family \in PostQuantum \cup {"SHA-2", "SHA-3", "ChaCha20", None}
    <3>1. Recommend(d) = None /\ d.family \notin ShorBroken
      BY <2>4, <1>0 DEF Recommend, SignsWithRSA, ShorBroken, PostQuantum
    <3> QED
      BY <3>1, <1>0
  <2> QED
    BY <2>1, <2>2, <2>3, <2>4 DEF Family, ShorBroken, ClassicallyBroken, HashFamilies
<1>3. ASSUME PolicyInv
      PROVE  RemedyForRisk
  <2> SUFFICES ASSUME NEW sd \in Scored, RiskOf(sd).band \in {"critical", "high"},
                      sd[2].family # None, Recommend(sd[2]) = None,
                      ~(sd[2].family = "ChaCha20" /\ Vulnerability(sd[2]) = 12)
               PROVE  FALSE
    <3>1. \A sd \in Scored : sd[2] \in Detection
      BY <1>3, RiskIs
    <3> QED
      BY <1>2, <3>1 DEF RemedyForRisk
  <2> DEFINE d == sd[2]
             ctx == RiskOf(sd).context
             z == RiskOf(sd).z
  <2>1. /\ d \in Detection /\ ctx \in Context /\ z \in Nat /\ HasScore(d, z)
        /\ RiskOf(sd).band = Floored(d, ctx, ExactScore(d, ctx, z)).band
    BY <1>3, RiskIs
  <2>2. Vulnerability(d) <= 2
    BY <1>1, <2>1
  <2> HIDE DEF d, ctx, z
  <2> QED
    BY <2>1, <2>2, HardlyVulnerableIsLow
<1> QED
  BY <1>3, PolicyInvariant, PTL
=============================================================================
