---------------------------- MODULE ReaderProofs ----------------------------
(***************************************************************************)
(* Proofs about those who read what scans have stored: the clients of      *)
(* ScanReaders, for any archives, trees of files, risks and horizons, and  *)
(* the drift, alerts, probes and views of EstateWatch, for any targets,    *)
(* clients, findings, inventories and horizons.                            *)
(***************************************************************************)
EXTENDS ScanReaders, EstateWatch, SequenceTheorems, FiniteSetTheorems,
        WellFoundedInduction, TLAPS

USE DEF readersVars, engineVars, ingestVars

-----------------------------------------------------------------------------
(* Sums over a finite set *)

(* A set of numbers that is not empty has a least one. *)
LEMMA LeastNumber ==
  ASSUME NEW S \in SUBSET Nat, S # {}
  PROVE  \E m \in S : \A n \in S : m <= n
<1> DEFINE Less == {p \in Nat \X Nat : p[1] < p[2]}
<1>1. IsWellFoundedOn(Less, Nat)
  BY NatLessThanWellFounded DEF OpToRel
<1>2. \E m \in S : \A n \in S : <<n, m>> \notin Less
  <2> HIDE DEF Less
  <2> QED
    BY <1>1, WFMin
<1>3. PICK m \in S : \A n \in S : <<n, m>> \notin Less
  BY <1>2
<1>4. ASSUME NEW n \in S
      PROVE  m <= n
  <2>1. ~(n < m)
    BY <1>3
  <2> QED
    BY <2>1
<1> QED
  BY <1>4

(* Induction, with the set of the numbers that have the property. *)
LEMMA Induction ==
  ASSUME NEW S, 0 \in S, \A n \in Nat : n \in S => n + 1 \in S
  PROVE  Nat \subseteq S
<1> SUFFICES ASSUME Nat \ S # {}
             PROVE  FALSE
  OBVIOUS
<1>1. PICK m \in Nat \ S : \A n \in Nat \ S : m <= n
  BY LeastNumber
<1>2. m - 1 \in Nat /\ m - 1 \in S
  BY <1>1
<1> QED
  BY <1>1, <1>2

(* The element that a fold takes next, and the recursion of a sum over the *)
(* subsets of a set.                                                       *)
Taken(s) == CHOOSE x \in s : TRUE
Rest(s) == s \ {Taken(s)}

Sums(g, S) ==
  CHOOSE it : it = [s \in SUBSET S |->
                      IF s = {} THEN 0 ELSE g[Taken(s)] + it[Rest(s)]]

LEMMA SumIs ==
  ASSUME NEW g, NEW S
  PROVE  SumFunctionOnSet(g, S) = Sums(g, S)[S]
BY Zenon DEF SumFunctionOnSet, FoldFunctionOnSet, MapThenFoldSet, Sums, Rest, Taken

(* Every set that is not empty loses an element and one of its size. *)
LEMMA TakenIs ==
  ASSUME NEW s, IsFiniteSet(s), s # {}
  PROVE  /\ Taken(s) \in s
         /\ Rest(s) \subseteq s
         /\ IsFiniteSet(Rest(s))
         /\ Cardinality(s) \in Nat \ {0}
         /\ Cardinality(Rest(s)) = Cardinality(s) - 1
<1>1. Taken(s) \in s
  BY DEF Taken
<1> QED
  BY <1>1, FS_RemoveElement, FS_EmptySet, FS_CardinalityType DEF Rest

(* So does every part of a finite set that is not empty, down to the      *)
(* empty set.                                                              *)
LEMMA PartIs ==
  ASSUME NEW S, IsFiniteSet(S), NEW s \in SUBSET S
  PROVE  /\ Cardinality(s) \in Nat /\ Cardinality(s) <= Cardinality(S)
         /\ s = {} => Cardinality(s) = 0
         /\ s # {} => /\ Taken(s) \in s
                      /\ Rest(s) \in SUBSET S
                      /\ Cardinality(s) # 0
                      /\ Cardinality(Rest(s)) = Cardinality(s) - 1
<1>1. IsFiniteSet(s) /\ Cardinality(s) <= Cardinality(S)
  BY FS_Subset
<1>2. Cardinality(s) \in Nat
  BY <1>1, FS_CardinalityType
<1>3. s = {} => Cardinality(s) = 0
  BY FS_EmptySet
<1>4. s # {} => /\ Taken(s) \in s
                /\ Rest(s) \subseteq s
                /\ Cardinality(s) # 0
                /\ Cardinality(Rest(s)) = Cardinality(s) - 1
  BY <1>1, TakenIs
<1> QED
  BY <1>1, <1>2, <1>3, <1>4

(* Sums is the function its recursion describes. *)
LEMMA SumsUnfolds ==
  ASSUME NEW g, NEW S, IsFiniteSet(S)
  PROVE  \A s \in SUBSET S :
           Sums(g, S)[s] = IF s = {} THEN 0 ELSE g[Taken(s)] + Sums(g, S)[Rest(s)]
<1> DEFINE Body(it, s) == IF s = {} THEN 0 ELSE g[Taken(s)] + it[Rest(s)]
           UpTo(n) == {s \in SUBSET S : Cardinality(s) <= n}
           Solves(it, n) == it = [s \in UpTo(n) |-> Body(it, s)]
           Solved == {n \in Nat : \E it : Solves(it, n)}
<1>0. Cardinality(S) \in Nat
  BY FS_CardinalityType
<1>1. \A n \in Nat : \A s : s \in UpTo(n) <=> s \in SUBSET S /\ Cardinality(s) <= n
  OBVIOUS
<1> HIDE DEF UpTo
<1>2. 0 \in Solved
  <2>1. \A s \in UpTo(0) : s = {}
    <3> TAKE s \in UpTo(0)
    <3>1. s \in SUBSET S /\ Cardinality(s) <= 0
      BY <1>1
    <3> QED
      BY <3>1, PartIs
  <2>2. Solves([s \in UpTo(0) |-> 0], 0)
    BY <2>1
  <2> QED
    BY <2>2
<1>3. ASSUME NEW n \in Nat, n \in Solved
      PROVE  n + 1 \in Solved
  <2>1. PICK it : Solves(it, n)
    BY <1>3
  <2> DEFINE more == [s \in UpTo(n + 1) |-> Body(it, s)]
  <2>2. \A s \in UpTo(n) : it[s] = Body(it, s)
    BY <2>1
  <2>3. \A s \in UpTo(n) : s \in UpTo(n + 1)
    <3> TAKE s \in UpTo(n)
    <3>1. s \in SUBSET S /\ Cardinality(s) <= n
      BY <1>1
    <3>2. Cardinality(s) <= n + 1
      BY <3>1, PartIs
    <3> QED
      BY <1>1, <3>1, <3>2
  <2>4. \A s \in UpTo(n) : more[s] = it[s]
    BY <2>2, <2>3
  <2>5. ASSUME NEW s \in UpTo(n + 1)
        PROVE  Body(more, s) = Body(it, s)
    <3>1. CASE s = {}
      BY <3>1
    <3>2. CASE s # {}
      <4>1. s \in SUBSET S /\ Cardinality(s) <= n + 1
        BY <1>1
      <4>2. Rest(s) \in SUBSET S /\ Cardinality(Rest(s)) <= n
        BY <3>2, <4>1, PartIs
      <4>3. Rest(s) \in UpTo(n)
        BY <1>1, <4>2
      <4> QED
        BY <2>4, <4>3
    <3> QED
      BY <3>1, <3>2
  <2>6. Solves(more, n + 1)
    <3> HIDE DEF Body
    <3> QED
      BY <2>5
  <2> QED
    <3> HIDE DEF Solves, more
    <3> QED
      BY <2>6
<1>5. Cardinality(S) \in Solved
  <2> HIDE DEF Solved
  <2> QED
    BY <1>0, <1>2, <1>3, Induction
<1>6. UpTo(Cardinality(S)) = SUBSET S
  <2>1. \A s \in SUBSET S : Cardinality(s) <= Cardinality(S)
    BY PartIs
  <2> QED
    BY <2>1 DEF UpTo
<1>7. PICK it : it = [s \in SUBSET S |-> Body(it, s)]
  BY <1>5, <1>6
<1>8. Sums(g, S) = [s \in SUBSET S |-> Body(Sums(g, S), s)]
  BY <1>7, Zenon DEF Sums
<1> HIDE DEF Solved
<1> DEFINE G == Sums(g, S)
<1> HIDE DEF G
<1> QED
  BY <1>8 DEF G

(* A sum of numbers is one, and grows with each of them. *)
LEMMA SumsGrow ==
  ASSUME NEW S, IsFiniteSet(S), NEW g, NEW h,
         \A x \in S : g[x] \in Int /\ h[x] \in Int /\ g[x] <= h[x]
  PROVE  /\ SumFunctionOnSet(g, S) \in Int /\ SumFunctionOnSet(h, S) \in Int
         /\ SumFunctionOnSet(g, S) <= SumFunctionOnSet(h, S)
         /\ (\A x \in S : g[x] >= 0) => SumFunctionOnSet(g, S) >= 0
<1> DEFINE G == Sums(g, S)
           H == Sums(h, S)
           Fine(s) == /\ G[s] \in Int /\ H[s] \in Int /\ G[s] <= H[s]
                      /\ (\A x \in S : g[x] >= 0) => G[s] >= 0
           Good == {n \in Nat : \A s \in SUBSET S : Cardinality(s) = n => Fine(s)}
<1>1. \A s \in SUBSET S :
        G[s] = IF s = {} THEN 0 ELSE g[Taken(s)] + G[Rest(s)]
  BY SumsUnfolds
<1>2. \A s \in SUBSET S :
        H[s] = IF s = {} THEN 0 ELSE h[Taken(s)] + H[Rest(s)]
  BY SumsUnfolds
<1> HIDE DEF G, H
<1>3. 0 \in Good
  <2> SUFFICES ASSUME NEW s \in SUBSET S, Cardinality(s) = 0
               PROVE  Fine(s)
    OBVIOUS
  <2>1. s = {}
    BY PartIs
  <2>2. G[s] = 0 /\ H[s] = 0
    BY <1>1, <1>2, <2>1
  <2> QED
    BY <2>2
<1>4. ASSUME NEW n \in Nat, n \in Good
      PROVE  n + 1 \in Good
  <2> SUFFICES ASSUME NEW s \in SUBSET S, Cardinality(s) = n + 1
               PROVE  Fine(s)
    BY <1>4
  <2>1. s # {}
    BY PartIs
  <2>2. /\ Taken(s) \in S /\ Rest(s) \in SUBSET S
        /\ Cardinality(Rest(s)) = n
    BY <2>1, PartIs
  <2>3. Fine(Rest(s))
    BY <1>4, <2>2
  <2>4. /\ G[s] = g[Taken(s)] + G[Rest(s)]
        /\ H[s] = h[Taken(s)] + H[Rest(s)]
    BY <1>1, <1>2, <2>1
  <2> QED
    BY <2>2, <2>3, <2>4
<1>5. Cardinality(S) \in Nat
  BY FS_CardinalityType
<1>6. Cardinality(S) \in Good
  <2> HIDE DEF Good
  <2> QED
    BY <1>3, <1>4, <1>5, Induction
<1>7. Fine(S)
  BY <1>6
<1> QED
  BY <1>7, SumIs DEF G, H

(* Sums of whole numbers are whole. *)
LEMMA SumsAreWhole ==
  ASSUME NEW S, IsFiniteSet(S), NEW g, \A x \in S : g[x] \in Int
  PROVE  \A A \in SUBSET S : SumFunctionOnSet(g, A) \in Int
<1> TAKE A \in SUBSET S
<1>1. IsFiniteSet(A)
  BY FS_Subset
<1>2. \A x \in A : g[x] \in Int /\ g[x] <= g[x]
  OBVIOUS
<1> QED
  BY <1>1, <1>2, SumsGrow

LEMMA SumOfNothing == \A g : SumFunctionOnSet(g, {}) = 0
<1> TAKE g
<1>1. IsFiniteSet({}) /\ {} \in SUBSET {}
  BY FS_EmptySet
<1> QED
  BY <1>1, SumIs, SumsUnfolds

(* A sum over a part is told by the recursion over the whole. *)
LEMMA SumsOfParts ==
  ASSUME NEW S, IsFiniteSet(S), NEW g, NEW A \in SUBSET S
  PROVE  SumFunctionOnSet(g, A) = Sums(g, S)[A]
<1> DEFINE G == Sums(g, S)
           H == Sums(g, A)
           Good == {n \in Nat : \A s \in SUBSET A : Cardinality(s) = n => G[s] = H[s]}
<1>1. IsFiniteSet(A)
  BY FS_Subset
<1>2. \A s \in SUBSET S : G[s] = IF s = {} THEN 0 ELSE g[Taken(s)] + G[Rest(s)]
  BY SumsUnfolds
<1>3. \A s \in SUBSET A : H[s] = IF s = {} THEN 0 ELSE g[Taken(s)] + H[Rest(s)]
  BY <1>1, SumsUnfolds
<1> HIDE DEF G, H
<1>4. 0 \in Good
  <2> SUFFICES ASSUME NEW s \in SUBSET A, Cardinality(s) = 0
               PROVE  G[s] = H[s]
    OBVIOUS
  <2>1. s = {}
    BY <1>1, PartIs
  <2> QED
    BY <1>2, <1>3, <2>1
<1>5. ASSUME NEW n \in Nat, n \in Good
      PROVE  n + 1 \in Good
  <2> SUFFICES ASSUME NEW s \in SUBSET A, Cardinality(s) = n + 1
               PROVE  G[s] = H[s]
    BY <1>5
  <2>1. s # {}
    BY <1>1, PartIs
  <2>2. Rest(s) \in SUBSET A /\ Cardinality(Rest(s)) = n
    BY <1>1, <2>1, PartIs
  <2>3. G[Rest(s)] = H[Rest(s)]
    BY <1>5, <2>2
  <2> QED
    BY <1>2, <1>3, <2>1, <2>3
<1>6. Cardinality(A) \in Nat
  BY <1>1, FS_CardinalityType
<1>7. Cardinality(A) \in Good
  <2> HIDE DEF Good
  <2> QED
    BY <1>4, <1>5, <1>6, Induction
<1> QED
  BY <1>7, SumIs DEF H, G

(* It does not matter which summand a sum takes first. *)
LEMMA SumWithout ==
  ASSUME NEW S, IsFiniteSet(S), NEW g, \A x \in S : g[x] \in Int, NEW e \in S
  PROVE  /\ SumFunctionOnSet(g, S) = g[e] + SumFunctionOnSet(g, S \ {e})
         /\ SumFunctionOnSet(g, S \ {e}) \in Int
<1> DEFINE G == Sums(g, S)
           Good == {n \in Nat : \A s \in SUBSET S : Cardinality(s) = n =>
                      /\ G[s] \in Int
                      /\ \A x \in s : G[s] = g[x] + G[s \ {x}]}
<1>1. \A s \in SUBSET S : G[s] = IF s = {} THEN 0 ELSE g[Taken(s)] + G[Rest(s)]
  BY SumsUnfolds
<1> HIDE DEF G
<1>2. 0 \in Good
  <2> SUFFICES ASSUME NEW s \in SUBSET S, Cardinality(s) = 0
               PROVE  G[s] \in Int /\ \A x \in s : G[s] = g[x] + G[s \ {x}]
    OBVIOUS
  <2>1. s = {}
    BY PartIs
  <2>2. G[s] = 0
    BY <1>1, <2>1
  <2> QED
    BY <2>1, <2>2
<1>3. ASSUME NEW n \in Nat, n \in Good
      PROVE  n + 1 \in Good
  <2> SUFFICES ASSUME NEW s \in SUBSET S, Cardinality(s) = n + 1
               PROVE  G[s] \in Int /\ \A x \in s : G[s] = g[x] + G[s \ {x}]
    BY <1>3
  <2> DEFINE t == Taken(s)
  <2>1. s # {}
    BY PartIs
  <2>2. t \in s /\ Rest(s) \in SUBSET S /\ Cardinality(Rest(s)) = n
    BY <2>1, PartIs
  <2>3. G[s] = g[t] + G[Rest(s)]
    BY <1>1, <2>1
  <2>4. G[Rest(s)] \in Int /\ \A x \in Rest(s) : G[Rest(s)] = g[x] + G[Rest(s) \ {x}]
    BY <1>3, <2>2
  <2>5. ASSUME NEW x \in s
        PROVE  G[s] = g[x] + G[s \ {x}]
    <3>1. CASE x = t
      BY <2>3, <3>1 DEF Rest
    <3>2. CASE x # t
      <4> DEFINE other == s \ {x}
                 both == other \ {t}
      <4>1. x \in Rest(s) /\ both = Rest(s) \ {x} /\ t \in other
        BY <2>2, <3>2 DEF Rest
      <4>2. other \in SUBSET S /\ Cardinality(other) = n
        <5>1. IsFiniteSet(s)
          BY FS_Subset
        <5>2. Cardinality(other) = Cardinality(s) - 1
          BY <5>1, FS_RemoveElement
        <5> QED
          BY <5>2
      <4> HIDE DEF other
      <4>3. G[other] = g[t] + G[both]
        BY <1>3, <4>1, <4>2
      <4>4. G[Rest(s)] = g[x] + G[both]
        BY <2>4, <4>1
      <4>5. both \in SUBSET S
        BY <4>2
      <4>6. G[both] \in Int
        BY <4>5, SumsOfParts, SumsAreWhole DEF G
      <4>7. g[x] \in Int /\ g[t] \in Int
        BY <2>2
      <4> QED
        BY <2>3, <4>3, <4>4, <4>6, <4>7 DEF other
    <3> QED
      BY <3>1, <3>2
  <2>6. G[s] \in Int
    BY <2>2, <2>3, <2>4
  <2> QED
    BY <2>5, <2>6
<1>4. Cardinality(S) \in Nat
  BY FS_CardinalityType
<1>5. Cardinality(S) \in Good
  <2> HIDE DEF Good
  <2> QED
    BY <1>2, <1>3, <1>4, Induction
<1>6. G[S] = g[e] + G[S \ {e}]
  BY <1>5
<1> QED
  BY <1>6, SumsOfParts, SumsAreWhole, SumIs DEF G

(* Summands that are no greater two by two make sums that are not. *)
LEMMA TwoSumsGrow ==
  ASSUME NEW S, IsFiniteSet(S), NEW f, NEW g, NEW h,
         \A x \in S : /\ f[x] \in Int /\ g[x] \in Int /\ h[x] \in Int
                    /\ f[x] + g[x] <= h[x]
  PROVE  SumFunctionOnSet(f, S) + SumFunctionOnSet(g, S) <= SumFunctionOnSet(h, S)
<1> DEFINE F == Sums(f, S)
           G == Sums(g, S)
           H == Sums(h, S)
           Fine(s) == /\ F[s] \in Int /\ G[s] \in Int /\ H[s] \in Int
                      /\ F[s] + G[s] <= H[s]
           Good == {n \in Nat : \A s \in SUBSET S : Cardinality(s) = n => Fine(s)}
<1>1. \A s \in SUBSET S : F[s] = IF s = {} THEN 0 ELSE f[Taken(s)] + F[Rest(s)]
  BY SumsUnfolds
<1>2. \A s \in SUBSET S : G[s] = IF s = {} THEN 0 ELSE g[Taken(s)] + G[Rest(s)]
  BY SumsUnfolds
<1>3. \A s \in SUBSET S : H[s] = IF s = {} THEN 0 ELSE h[Taken(s)] + H[Rest(s)]
  BY SumsUnfolds
<1> HIDE DEF F, G, H
<1>4. 0 \in Good
  <2> SUFFICES ASSUME NEW s \in SUBSET S, Cardinality(s) = 0
               PROVE  Fine(s)
    OBVIOUS
  <2>1. s = {}
    BY PartIs
  <2>2. F[s] = 0 /\ G[s] = 0 /\ H[s] = 0
    BY <1>1, <1>2, <1>3, <2>1
  <2> QED
    BY <2>2
<1>5. ASSUME NEW n \in Nat, n \in Good
      PROVE  n + 1 \in Good
  <2> SUFFICES ASSUME NEW s \in SUBSET S, Cardinality(s) = n + 1
               PROVE  Fine(s)
    BY <1>5
  <2>1. s # {}
    BY PartIs
  <2>2. /\ Taken(s) \in S /\ Rest(s) \in SUBSET S
        /\ Cardinality(Rest(s)) = n
    BY <2>1, PartIs
  <2>3. Fine(Rest(s))
    BY <1>5, <2>2
  <2>4. /\ F[s] = f[Taken(s)] + F[Rest(s)]
        /\ G[s] = g[Taken(s)] + G[Rest(s)]
        /\ H[s] = h[Taken(s)] + H[Rest(s)]
    BY <1>1, <1>2, <1>3, <2>1
  <2> QED
    BY <2>2, <2>3, <2>4
<1>6. Cardinality(S) \in Nat
  BY FS_CardinalityType
<1>7. Cardinality(S) \in Good
  <2> HIDE DEF Good
  <2> QED
    BY <1>4, <1>5, <1>6, Induction
<1>8. Fine(S)
  BY <1>7
<1> QED
  BY <1>8, SumIs DEF F, G, H

(* Two parts without a common element sum up to no more than the whole,    *)
(* and to as much where the other summands are 0.                          *)
LEMMA PartsOfASum ==
  ASSUME NEW S, IsFiniteSet(S), NEW g, \A x \in S : g[x] \in Nat,
         NEW A \in SUBSET S, NEW B \in SUBSET S, A \cap B = {}
  PROVE  /\ SumFunctionOnSet(g, A) + SumFunctionOnSet(g, B) <= SumFunctionOnSet(g, S)
         /\ (\A x \in S : x \in A \cup B \/ g[x] = 0) =>
              SumFunctionOnSet(g, A) + SumFunctionOnSet(g, B) = SumFunctionOnSet(g, S)
<1> DEFINE Sum(s) == SumFunctionOnSet(g, s)
           Rests == \A x \in S : x \in A \cup B \/ g[x] = 0
           Fine(s) == /\ Sum(s \cap A) + Sum(s \cap B) <= Sum(s)
                      /\ Rests => Sum(s \cap A) + Sum(s \cap B) = Sum(s)
           Good == {n \in Nat : \A s \in SUBSET S : Cardinality(s) = n => Fine(s)}
<1>1. \A s \in SUBSET S : IsFiniteSet(s) /\ Sum(s) \in Int
  BY FS_Subset, SumsAreWhole
<1>2. \A s \in SUBSET S : \A e \in s : Sum(s) = g[e] + Sum(s \ {e})
  <2> TAKE s \in SUBSET S
  <2> TAKE e \in s
  <2>1. IsFiniteSet(s) /\ \A x \in s : g[x] \in Int
    BY <1>1
  <2> QED
    BY <2>1, SumWithout
<1>3. Sum({}) = 0
  BY SumOfNothing
<1> HIDE DEF Sum
<1>4. 0 \in Good
  <2> SUFFICES ASSUME NEW s \in SUBSET S, Cardinality(s) = 0
               PROVE  Fine(s)
    OBVIOUS
  <2>1. s = {}
    BY PartIs
  <2>2. s \cap A = {} /\ s \cap B = {}
    BY <2>1
  <2> QED
    BY <1>3, <2>1, <2>2
<1>5. ASSUME NEW n \in Nat, n \in Good
      PROVE  n + 1 \in Good
  <2> SUFFICES ASSUME NEW s \in SUBSET S, Cardinality(s) = n + 1
               PROVE  Fine(s)
    BY <1>5
  <2>1. s # {}
    BY PartIs
  <2> DEFINE t == Taken(s)
             r == Rest(s)
  <2>2. t \in s /\ r \in SUBSET S /\ Cardinality(r) = n /\ r = s \ {t}
    BY <2>1, PartIs DEF Rest
  <2> HIDE DEF t, r
  <2>3. Fine(r)
    BY <1>5, <2>2
  <2>4. Sum(s) = g[t] + Sum(r)
    BY <1>2, <2>2
  <2>5. \A C \in SUBSET S : Sum(s \cap C) = IF t \in C THEN g[t] + Sum(r \cap C) ELSE Sum(r \cap C)
    <3> TAKE C \in SUBSET S
    <3>1. CASE t \in C
      <4>1. t \in s \cap C /\ (s \cap C) \ {t} = r \cap C /\ s \cap C \in SUBSET S
        BY <2>2, <3>1
      <4> QED
        BY <1>2, <3>1, <4>1
    <3>2. CASE t \notin C
      <4>1. s \cap C = r \cap C
        BY <2>2, <3>2
      <4> QED
        BY <3>2, <4>1
    <3> QED
      BY <3>1, <3>2
  <2>6. /\ Sum(r) \in Int /\ Sum(r \cap A) \in Int /\ Sum(r \cap B) \in Int
        /\ g[t] \in Nat /\ t \in S
    <3>1. r \cap A \in SUBSET S /\ r \cap B \in SUBSET S
      OBVIOUS
    <3> QED
      BY <1>1, <2>2, <3>1
  <2>7. /\ Sum(s \cap A) = IF t \in A THEN g[t] + Sum(r \cap A) ELSE Sum(r \cap A)
        /\ Sum(s \cap B) = IF t \in B THEN g[t] + Sum(r \cap B) ELSE Sum(r \cap B)
    BY <2>5
  <2>8. ~(t \in A /\ t \in B)
    OBVIOUS
  <2>9. Sum(s \cap A) + Sum(s \cap B) <= Sum(s)
    BY <2>3, <2>4, <2>6, <2>7, <2>8
  <2>10. ASSUME Rests
         PROVE  Sum(s \cap A) + Sum(s \cap B) = Sum(s)
    <3>1. t \in A \/ t \in B \/ g[t] = 0
      BY <2>6, <2>10
    <3>2. Sum(r \cap A) + Sum(r \cap B) = Sum(r)
      BY <2>3, <2>10
    <3> QED
      BY <2>4, <2>6, <2>7, <2>8, <3>1, <3>2
  <2> QED
    BY <2>9, <2>10
<1>6. Cardinality(S) \in Nat
  BY FS_CardinalityType
<1>7. Cardinality(S) \in Good
  <2> HIDE DEF Good
  <2> QED
    BY <1>4, <1>5, <1>6, Induction
<1>8. S \cap A = A /\ S \cap B = B
  OBVIOUS
<1>9. Fine(S)
  BY <1>7
<1> QED
  BY <1>8, <1>9 DEF Sum

(* Counting through another set of the same size gives the same sum. *)
LEMMA SumThroughABijection ==
  ASSUME NEW S, IsFiniteSet(S), NEW b, \A x, y \in S : b[x] = b[y] => x = y,
         NEW T, \A y : y \in T <=> \E x \in S : b[x] = y,
         NEW g, NEW f, \A x \in S : g[x] \in Int /\ f[b[x]] = g[x]
  PROVE  IsFiniteSet(T) /\ SumFunctionOnSet(f, T) = SumFunctionOnSet(g, S)
<1> DEFINE Image(s) == {y \in T : \E x \in s : b[x] = y}
           Fine(s) == SumFunctionOnSet(f, Image(s)) = SumFunctionOnSet(g, s)
           Good == {n \in Nat : \A s \in SUBSET S : Cardinality(s) = n => Fine(s)}
<1>1. IsFiniteSet(T)
  <2>1. [x \in S |-> b[x]] \in Surjection(S, T)
    BY DEF Surjection
  <2> QED
    BY <2>1, FS_Surjection
<1>2. \A y \in T : f[y] \in Int
  OBVIOUS
<1>3. SumFunctionOnSet(f, {}) = 0 /\ SumFunctionOnSet(g, {}) = 0
  BY SumOfNothing
<1>4. 0 \in Good
  <2> SUFFICES ASSUME NEW s \in SUBSET S, Cardinality(s) = 0
               PROVE  Fine(s)
    OBVIOUS
  <2>1. s = {}
    BY PartIs
  <2>2. Image(s) = {}
    BY <2>1
  <2> HIDE DEF Image
  <2> QED
    BY <1>3, <2>1, <2>2
<1>5. ASSUME NEW n \in Nat, n \in Good
      PROVE  n + 1 \in Good
  <2> SUFFICES ASSUME NEW s \in SUBSET S, Cardinality(s) = n + 1
               PROVE  Fine(s)
    BY <1>5
  <2>1. s # {}
    BY PartIs
  <2> DEFINE t == Taken(s)
             r == Rest(s)
  <2>2. t \in s /\ r \in SUBSET S /\ Cardinality(r) = n /\ r = s \ {t}
    BY <2>1, PartIs DEF Rest
  <2> HIDE DEF t, r
  <2>3. SumFunctionOnSet(f, Image(r)) = SumFunctionOnSet(g, r)
    BY <1>5, <2>2
  <2>4. /\ b[t] \in Image(s) /\ Image(s) \ {b[t]} = Image(r)
        /\ Image(s) \in SUBSET T
    BY <2>2
  <2> HIDE DEF Image
  <2>5. SumFunctionOnSet(f, Image(s)) = f[b[t]] + SumFunctionOnSet(f, Image(r))
    <3>1. IsFiniteSet(Image(s)) /\ \A y \in Image(s) : f[y] \in Int
      BY <1>1, <1>2, <2>4, FS_Subset
    <3> QED
      BY <2>4, <3>1, SumWithout
  <2>6. SumFunctionOnSet(g, s) = g[t] + SumFunctionOnSet(g, r)
    <3>1. IsFiniteSet(s) /\ \A y \in s : g[y] \in Int
      BY FS_Subset
    <3> QED
      BY <2>2, <3>1, SumWithout
  <2>7. f[b[t]] = g[t]
    BY <2>2
  <2> QED
    BY <2>3, <2>5, <2>6, <2>7
<1>6. Cardinality(S) \in Nat
  BY FS_CardinalityType
<1>7. Cardinality(S) \in Good
  <2> HIDE DEF Good
  <2> QED
    BY <1>4, <1>5, <1>6, Induction
<1>8. Image(S) = T
  OBVIOUS
<1> QED
  BY <1>1, <1>7, <1>8

-----------------------------------------------------------------------------
(* A scan and its readers: ScanReaders.                                    *)

(* The sequences that FlattenSeq makes on its way. *)
Flattened(s) ==
  CHOOSE f : f = [i \in 1..Len(s) |-> IF i = 1 THEN s[i] ELSE f[i - 1] \o s[i]]

LEMMA FlattenedUnfolds ==
  ASSUME NEW S, NEW s \in Seq(S)
  PROVE  /\ FlattenSeq(s) = IF Len(s) = 0 THEN s ELSE Flattened(s)[Len(s)]
         /\ \A i \in 1..Len(s) :
              Flattened(s)[i] = IF i = 1 THEN s[i] ELSE Flattened(s)[i - 1] \o s[i]
<1> DEFINE Body(f, n) == IF n = 1 THEN s[n] ELSE f[n - 1] \o s[n]
           Solves(f, m) == f = [n \in 1..m |-> Body(f, n)]
           Solved == {m \in Nat : \E f : Solves(f, m)}
<1>1. FlattenSeq(s) = IF Len(s) = 0 THEN s ELSE Flattened(s)[Len(s)]
  BY DEF FlattenSeq, Flattened
<1>2. Flattened(s) = CHOOSE f : Solves(f, Len(s))
  BY DEF Flattened
<1>3. 0 \in Solved
  <2>1. Solves([n \in 1..0 |-> s[n]], 0)
    OBVIOUS
  <2> QED
    BY <2>1
<1>4. ASSUME NEW m \in Nat, m \in Solved
      PROVE  m + 1 \in Solved
  <2>1. PICK f : Solves(f, m)
    BY <1>4
  <2> DEFINE g == [n \in 1..(m + 1) |-> IF n <= m THEN f[n] ELSE Body(f, n)]
  <2>2. \A n \in 1..m : f[n] = Body(f, n)
    BY <2>1
  <2>3. \A n \in 1..(m + 1) : g[n] = Body(g, n)
    <3> TAKE n \in 1..(m + 1)
    <3>1. n # 1 => g[n - 1] = f[n - 1]
      OBVIOUS
    <3>2. Body(g, n) = Body(f, n)
      BY <3>1
    <3> QED
      BY <2>2, <3>2
  <2>4. Solves(g, m + 1)
    BY <2>3
  <2> HIDE DEF Solves, g
  <2> QED
    BY <2>4
<1>5. Len(s) \in Solved
  <2> HIDE DEF Solved
  <2> QED
    BY <1>3, <1>4, Induction
<1>6. Solves(Flattened(s), Len(s))
  <2> HIDE DEF Solves
  <2> QED
    BY <1>2, <1>5
<1> QED
  BY <1>1, <1>6

(* What is flattened is a sequence of what its parts hold. *)
LEMMA FlattenedType ==
  ASSUME NEW S, NEW s \in Seq(Seq(S))
  PROVE  /\ FlattenSeq(s) \in Seq(S)
         /\ \A i \in 1..Len(s) : Flattened(s)[i] \in Seq(S)
<1> DEFINE Good == {i \in Nat : i \in 1..Len(s) => Flattened(s)[i] \in Seq(S)}
<1>1. 0 \in Good
  OBVIOUS
<1>2. ASSUME NEW i \in Nat, i \in Good
      PROVE  i + 1 \in Good
  <2> SUFFICES ASSUME i + 1 \in 1..Len(s)
               PROVE  Flattened(s)[i + 1] \in Seq(S)
    OBVIOUS
  <2>1. s[i + 1] \in Seq(S)
    OBVIOUS
  <2>2. Flattened(s)[i + 1] =
          IF i + 1 = 1 THEN s[i + 1] ELSE Flattened(s)[(i + 1) - 1] \o s[i + 1]
    BY FlattenedUnfolds
  <2>3. i # 0 => Flattened(s)[(i + 1) - 1] \in Seq(S)
    BY <1>2
  <2> QED
    BY <2>1, <2>2, <2>3, ConcatProperties
<1>3. Nat \subseteq Good
  <2> HIDE DEF Good
  <2> QED
    BY <1>1, <1>2, Induction
<1>4. \A i \in 1..Len(s) : Flattened(s)[i] \in Seq(S)
  BY <1>3
<1>5. FlattenSeq(s) = IF Len(s) = 0 THEN s ELSE Flattened(s)[Len(s)]
  BY FlattenedUnfolds
<1>6. Len(s) = 0 => s \in Seq(S)
  <2>1. Len(s) = 0 => s = <<>>
    BY EmptySeq
  <2> QED
    BY <2>1, EmptySeq
<1> QED
  BY <1>4, <1>5, <1>6
-----------------------------------------------------------------------------
(* What the engine detects *)

LEMMA WalkIsOfFiles ==
  ASSUME tree \in Seq(SourceFile)
  PROVE  Walk \in Seq(SourceFile)
<1> DEFINE parts == [n \in DOMAIN tree |-> IF Walked(tree[n]) THEN <<tree[n]>> ELSE <<>>]
<1>1. parts \in Seq(Seq(SourceFile))
  <2>1. \A n \in 1..Len(tree) : <<tree[n]>> \in Seq(SourceFile) /\ <<>> \in Seq(SourceFile)
    OBVIOUS
  <2>2. DOMAIN tree = 1..Len(tree) /\ Len(tree) \in Nat
    OBVIOUS
  <2>3. parts \in [1..Len(tree) -> Seq(SourceFile)]
    BY <2>1, <2>2, Zenon
  <2> QED
    BY <2>2, <2>3, SeqDef
<1>2. Walk = FlattenSeq(parts)
  BY DEF Walk, Kept
<1> QED
  BY <1>1, <1>2, FlattenedType

LEMMA HitsAreDetected ==
  ASSUME NEW held
  PROVE  HitsIn(held) \in Seq(Detected)
<1> DEFINE parts == [n \in DOMAIN Constants |->
                       IF Constants[n] \in held THEN <<Constants[n]>> ELSE <<>>]
<1>1. parts \in Seq(Seq(Detected))
  <2> HIDE DEF Constants
  <2>1. Constants \in Seq(Detected)
    BY ConstantsAreDetected
  <2>2. \A n \in 1..Len(Constants) :
          <<Constants[n]>> \in Seq(Detected) /\ <<>> \in Seq(Detected)
    BY <2>1
  <2>3. DOMAIN Constants = 1..Len(Constants) /\ Len(Constants) \in Nat
    BY <2>1
  <2>4. parts \in [1..Len(Constants) -> Seq(Detected)]
    BY <2>2, <2>3, Zenon
  <2> QED
    BY <2>3, <2>4, SeqDef
<1>2. HitsIn(held) = FlattenSeq(parts)
  BY DEF HitsIn, Kept
<1> QED
  BY <1>1, <1>2, FlattenedType

LEMMA DetectionsAreDetected ==
  ASSUME NEW f \in SourceFile
  PROVE  Detections(f) \in Seq(Detected)
<1>1. Detector(f.suffix) \in Detectors
  BY DEF Detector, Detectors
<1>2. f.hits \in [Detectors -> Seq(Detected)] /\ f.sections \in Seq(SUBSET Detected)
  BY DEF SourceFile
<1>3. BinaryHits(f) \in Seq(Detected)
  <2> DEFINE parts == [n \in DOMAIN ScanTargets(f) |-> HitsIn(ScanTargets(f)[n])]
  <2>1. ScanTargets(f) \in Seq(SUBSET Detected)
    <3>1. f.constants \in SUBSET Detected
      BY DEF SourceFile
    <3>2. <<f.constants>> \in Seq(SUBSET Detected)
      BY <3>1
    <3> QED
      BY <1>2, <3>2 DEF ScanTargets
  <2>2. parts \in Seq(Seq(Detected))
    <3> HIDE DEF ScanTargets
    <3>1. \A n \in 1..Len(ScanTargets(f)) : HitsIn(ScanTargets(f)[n]) \in Seq(Detected)
      BY HitsAreDetected
    <3> QED
      BY <2>1, <3>1
  <2>3. BinaryHits(f) = FlattenSeq(parts)
    BY DEF BinaryHits
  <2> QED
    BY <2>2, <2>3, FlattenedType
<1> QED
  BY <1>1, <1>2, <1>3 DEF Detections
-----------------------------------------------------------------------------
(* What a list of events tells *)

(* Who appends an event leaves those before it as they are. *)
LEMMA Appended ==
  ASSUME NEW list \in Seq(Event), NEW e \in Event
  PROVE  /\ Append(list, e) \in Seq(Event)
         /\ Len(list) \in Nat /\ DOMAIN list = 1..Len(list)
         /\ DOMAIN Append(list, e) = DOMAIN list \cup {Len(list) + 1}
         /\ \A n \in DOMAIN list : Append(list, e)[n] = list[n]
         /\ Append(list, e)[Len(list) + 1] = e
         /\ Len(list) + 1 \notin DOMAIN list
         /\ \A n \in DOMAIN list : n \in Nat /\ n < Len(list) + 1 /\ ~(Len(list) + 1 < n)
  OBVIOUS

LEMMA FindingEventsAreFinite ==
  ASSUME NEW list \in Seq(Event)
  PROVE  /\ IsFiniteSet(FindingsOf(list))
         /\ Cardinality(FindingsOf(list)) \in Nat
<1>1. FindingsOf(list) \in SUBSET (1..Len(list)) /\ Len(list) \in Nat
  BY DEF FindingsOf
<1>2. IsFiniteSet(1..Len(list))
  BY <1>1, FS_Interval
<1> QED
  BY <1>1, <1>2, FS_Subset, FS_CardinalityType

LEMMA ToldAnOther ==
  ASSUME NEW list \in Seq(Event), NEW k \in Nat, NEW i \in Nat, TellsOf(list, k, i),
         NEW e \in Event, e[1] \notin {"finding", "progress"}
  PROVE  TellsOf(Append(list, e), k, i)
<1> DEFINE long == Append(list, e)
           top == Len(list) + 1
<1>1. /\ DOMAIN long = DOMAIN list \cup {top}
      /\ \A n \in DOMAIN list : long[n] = list[n]
      /\ long[top] = e
  BY Appended
<1> HIDE DEF long, top
<1>2. FindingsOf(long) = FindingsOf(list) /\ ProgressOf(long) = ProgressOf(list)
  BY <1>1 DEF FindingsOf, ProgressOf
<1>3. \A n \in FindingsOf(list) \cup ProgressOf(list) : long[n] = list[n]
  BY <1>1 DEF FindingsOf, ProgressOf
<1>4. TellsOf(long, k, i)
  BY <1>2, <1>3 DEF TellsOf
<1> QED
  BY <1>4 DEF long

LEMMA ToldAFinding ==
  ASSUME NEW list \in Seq(Event), NEW k \in Nat, NEW i \in Nat, TellsOf(list, k, i),
         <<"finding", k + 1>> \in Event
  PROVE  TellsOf(Append(list, <<"finding", k + 1>>), k + 1, i)
<1> DEFINE e == <<"finding", k + 1>>
           long == Append(list, e)
           top == Len(list) + 1
<1>0. e \in Event /\ e[1] = "finding" /\ e[2] = k + 1 /\ e[1] # "progress"
  OBVIOUS
<1> HIDE DEF e
<1>1. /\ DOMAIN long = DOMAIN list \cup {top}
      /\ \A n \in DOMAIN list : long[n] = list[n]
      /\ long[top] = e
      /\ top \notin DOMAIN list
      /\ \A n \in DOMAIN list : n < top /\ ~(top < n)
      /\ ~(top < top)
  BY <1>0, Appended
<1> HIDE DEF long, top
<1>2. FindingsOf(long) = FindingsOf(list) \cup {top} /\ ProgressOf(long) = ProgressOf(list)
  BY <1>0, <1>1 DEF FindingsOf, ProgressOf
<1>3. FindingsOf(list) \subseteq DOMAIN list /\ ProgressOf(list) \subseteq DOMAIN list
  BY DEF FindingsOf, ProgressOf
<1>4. Cardinality(FindingsOf(long)) = k + 1
  <2>1. IsFiniteSet(FindingsOf(list)) /\ Cardinality(FindingsOf(list)) = k
    BY FindingEventsAreFinite DEF TellsOf
  <2> QED
    BY <1>1, <1>2, <1>3, <2>1, FS_AddElement
<1>5. \A n \in FindingsOf(long) :
        /\ long[n][2] <= k + 1
        /\ \A m \in FindingsOf(long) : m < n => long[m][2] < long[n][2]
  <2>1. \A n \in FindingsOf(list) : list[n][2] \in Nat /\ list[n][2] <= k
    <3>1. \A n \in FindingsOf(list) : list[n] \in Event /\ list[n][1] = "finding"
      BY <1>3 DEF FindingsOf
    <3>2. \A n \in FindingsOf(list) : list[n][2] \in Nat
      BY <3>1 DEF Event
    <3> QED
      BY <3>2 DEF TellsOf
  <2>2. \A n, m \in FindingsOf(list) : m < n => list[m][2] < list[n][2]
    BY DEF TellsOf
  <2> QED
    BY <1>0, <1>1, <1>2, <1>3, <2>1, <2>2
<1>6. \A n \in ProgressOf(long) :
        {m \in FindingsOf(long) : m < n} = {m \in FindingsOf(list) : m < n}
  BY <1>1, <1>2, <1>3
<1>7. \A n \in ProgressOf(long) :
        /\ long[n][2] <= i
        /\ long[n][4] = Cardinality({m \in FindingsOf(long) : m < n})
        /\ \A m \in ProgressOf(long) : m < n => long[m][2] < long[n][2]
  BY <1>1, <1>2, <1>3, <1>6 DEF TellsOf
<1>8. TellsOf(long, k + 1, i)
  BY <1>4, <1>5, <1>7 DEF TellsOf
<1> QED
  BY <1>8 DEF long, e

LEMMA ToldProgress ==
  ASSUME NEW list \in Seq(Event), NEW k \in Nat, NEW i \in Nat, TellsOf(list, k, i),
         NEW t \in Nat
  PROVE  /\ Append(list, <<"progress", i + 1, t, k>>) \in Seq(Event)
         /\ TellsOf(Append(list, <<"progress", i + 1, t, k>>), k, i + 1)
<1> DEFINE e == <<"progress", i + 1, t, k>>
           long == Append(list, e)
           top == Len(list) + 1
<1>0. /\ e \in Event /\ e[1] = "progress" /\ e[1] # "finding"
      /\ e[2] = i + 1 /\ e[4] = k
  BY DEF Event
<1> HIDE DEF e
<1>1. /\ DOMAIN long = DOMAIN list \cup {top}
      /\ \A n \in DOMAIN list : long[n] = list[n]
      /\ long[top] = e
      /\ top \notin DOMAIN list
      /\ \A n \in DOMAIN list : n < top /\ ~(top < n)
      /\ ~(top < top)
      /\ long \in Seq(Event)
  BY <1>0, Appended
<1> HIDE DEF long, top
<1>2. ProgressOf(long) = ProgressOf(list) \cup {top} /\ FindingsOf(long) = FindingsOf(list)
  BY <1>0, <1>1 DEF FindingsOf, ProgressOf
<1>3. FindingsOf(list) \subseteq DOMAIN list /\ ProgressOf(list) \subseteq DOMAIN list
  BY DEF FindingsOf, ProgressOf
<1>4. /\ Cardinality(FindingsOf(long)) = k
      /\ \A n \in FindingsOf(long) :
           /\ long[n][2] <= k
           /\ \A m \in FindingsOf(long) : m < n => long[m][2] < long[n][2]
  BY <1>1, <1>2, <1>3 DEF TellsOf
<1>5. \A n \in ProgressOf(list) : list[n][2] \in Nat /\ list[n][2] <= i
  <2>1. \A n \in ProgressOf(list) : list[n] \in Event /\ list[n][1] = "progress"
    BY <1>3 DEF ProgressOf
  <2>2. \A n \in ProgressOf(list) : list[n][2] \in Nat
    BY <2>1 DEF Event
  <2> QED
    BY <2>2 DEF TellsOf
<1>6. {m \in FindingsOf(long) : m < top} = FindingsOf(long)
  BY <1>1, <1>2, <1>3
<1>7. \A n \in ProgressOf(long) :
        /\ long[n][2] <= i + 1
        /\ long[n][4] = Cardinality({m \in FindingsOf(long) : m < n})
        /\ \A m \in ProgressOf(long) : m < n => long[m][2] < long[n][2]
  <2> TAKE n \in ProgressOf(long)
  <2>1. CASE n = top
    <3>1. long[n][2] = i + 1 /\ long[n][4] = k
      BY <1>0, <1>1, <2>1
    <3>2. long[n][4] = Cardinality({m \in FindingsOf(long) : m < n})
      BY <1>4, <1>6, <2>1, <3>1
    <3>3. \A m \in ProgressOf(long) : m < n => long[m][2] < long[n][2]
      <4>1. \A m \in ProgressOf(list) : long[m][2] \in Nat /\ long[m][2] <= i
        BY <1>1, <1>3, <1>5
      <4>2. \A m \in ProgressOf(long) : m < n => m \in ProgressOf(list)
        BY <1>1, <1>2, <2>1
      <4> QED
        BY <3>1, <4>1, <4>2
    <3> QED
      BY <3>1, <3>2, <3>3
  <2>2. CASE n # top
    <3>1. n \in ProgressOf(list) /\ long[n] = list[n]
      BY <1>1, <1>2, <1>3, <2>2
    <3>2. \A m \in ProgressOf(long) : m < n => m \in ProgressOf(list) /\ long[m] = list[m]
      BY <1>1, <1>2, <1>3, <3>1
    <3>3. list[n][2] \in Nat /\ list[n][2] <= i
      BY <1>5, <3>1
    <3>4. list[n][4] = Cardinality({m \in FindingsOf(list) : m < n})
      BY <3>1 DEF TellsOf
    <3>5. \A m \in ProgressOf(list) : m < n => list[m][2] < list[n][2]
      BY <3>1 DEF TellsOf
    <3>6. long[n][2] <= i + 1
      BY <3>1, <3>3
    <3>7. long[n][4] = Cardinality({m \in FindingsOf(long) : m < n})
      BY <1>2, <3>1, <3>4
    <3>8. \A m \in ProgressOf(long) : m < n => long[m][2] < long[n][2]
      BY <3>1, <3>2, <3>5
    <3> QED
      BY <3>6, <3>7, <3>8
  <2> QED
    BY <2>1, <2>2
<1>8. TellsOf(long, k, i + 1)
  BY <1>4, <1>7 DEF TellsOf
<1> QED
  BY <1>1, <1>8 DEF long, e

(* The findings of a file are told one after the other. *)
LEMMA ToldFindings ==
  ASSUME NEW list \in Seq(Event), NEW k \in Nat, NEW i \in Nat, TellsOf(list, k, i),
         NEW total \in Nat
  PROVE  LET told == [n \in 1..total |-> <<"finding", k + n>>]
         IN  /\ told \in Seq(Event)
             /\ list \o told \in Seq(Event)
             /\ TellsOf(list \o told, k + total, i)
<1> DEFINE Told1(m) == [n \in 1..m |-> <<"finding", k + n>>]
           Good == {m \in Nat : TellsOf(list \o Told1(m), k + m, i)}
<1>1. \A m \in Nat : Told1(m) \in Seq(Event) /\ Len(Told1(m)) = m
  BY DEF Event
<1>2. 0 \in Good
  <2>1. Told1(0) = <<>>
    OBVIOUS
  <2>2. list \o Told1(0) = list
    BY <2>1, ConcatEmptySeq
  <2>3. TellsOf(list \o Told1(0), k + 0, i)
    BY <2>2
  <2> QED
    BY <2>3
<1>3. ASSUME NEW m \in Nat, m \in Good
      PROVE  m + 1 \in Good
  <2> DEFINE e == <<"finding", k + (m + 1)>>
  <2>1. e \in Event /\ e = <<"finding", (k + m) + 1>>
    BY DEF Event
  <2>2. Told1(m + 1) = Append(Told1(m), e)
    OBVIOUS
  <2>3. list \o Told1(m + 1) = Append(list \o Told1(m), e)
    <3> HIDE DEF e, Told1
    <3>1. Told1(m) \in Seq(Event) /\ <<e>> \in Seq(Event)
      BY <1>1, <2>1
    <3>2. Append(Told1(m), e) = Told1(m) \o <<e>>
      BY <2>1, <3>1, AppendIsConcat
    <3>3. (list \o Told1(m)) \o <<e>> = list \o (Told1(m) \o <<e>>)
      BY <3>1, ConcatAssociative
    <3>4. list \o Told1(m) \in Seq(Event)
      BY <3>1, ConcatProperties
    <3>5. Append(list \o Told1(m), e) = (list \o Told1(m)) \o <<e>>
      BY <2>1, <3>4, AppendIsConcat
    <3> QED
      BY <2>2, <3>2, <3>3, <3>5
  <2>4. list \o Told1(m) \in Seq(Event) /\ TellsOf(list \o Told1(m), k + m, i)
    <3> HIDE DEF Told1
    <3>1. TellsOf(list \o Told1(m), k + m, i)
      BY <1>3, Zenon
    <3> QED
      BY <1>1, <3>1, ConcatProperties
  <2>5. TellsOf(Append(list \o Told1(m), e), (k + m) + 1, i)
    <3> HIDE DEF Told1
    <3>1. k + m \in Nat
      OBVIOUS
    <3> QED
      BY <2>1, <2>4, <3>1, ToldAFinding
  <2>6. (k + m) + 1 = k + (m + 1)
    OBVIOUS
  <2>7. TellsOf(list \o Told1(m + 1), k + (m + 1), i)
    BY <2>3, <2>5, <2>6, Zenon
  <2> HIDE DEF Told1
  <2> QED
    BY <2>7
<1>4. total \in Good
  <2> HIDE DEF Good
  <2> QED
    BY <1>2, <1>3, Induction
<1>5. TellsOf(list \o Told1(total), k + total, i)
  <2> HIDE DEF Told1
  <2> QED
    BY <1>4, Zenon
<1>6. Told1(total) \in Seq(Event) /\ list \o Told1(total) \in Seq(Event)
  BY <1>1, ConcatProperties
<1> QED
  BY <1>5, <1>6
-----------------------------------------------------------------------------
(* Lists in an order *)

(* A strict order of a finite set lists each of its members once.          *)
LEMMA InOrderLists ==
  ASSUME NEW s, IsFiniteSet(s), NEW before,
         \A x \in s : <<x, x>> \notin before,
         \A x, y, z \in s : <<x, y>> \in before /\ <<y, z>> \in before => <<x, z>> \in before,
         \A x, y \in s : x # y => <<x, y>> \in before \/ <<y, x>> \in before
  PROVE  LET order == InOrder(s, before)
             size == Cardinality(s)
         IN  /\ size \in Nat
             /\ order \in [1..size -> s]
             /\ \A j, k \in 1..size : order[j] = order[k] => j = k
             /\ \A x \in s : \E k \in 1..size : order[k] = x
             /\ \A j, k \in 1..size : j < k => <<order[j], order[k]>> \in before
<1> DEFINE order == InOrder(s, before)
           size == Cardinality(s)
           Below(x) == {y \in s : <<y, x>> \in before}
           Place(x) == Cardinality(Below(x))
           place == [x \in s |-> Place(x)]
<1>1. size \in Nat
  BY FS_CardinalityType
<1>2. \A x \in s : IsFiniteSet(Below(x)) /\ Place(x) \in Nat /\ Place(x) <= size
  <2> TAKE x \in s
  <2>1. Below(x) \in SUBSET s
    OBVIOUS
  <2> HIDE DEF Below
  <2> QED
    BY <2>1, FS_Subset, FS_CardinalityType
<1>3. \A x, y \in s : <<x, y>> \in before => Place(x) < Place(y)
  <2> SUFFICES ASSUME NEW x \in s, NEW y \in s, <<x, y>> \in before
               PROVE  Place(x) < Place(y)
    OBVIOUS
  <2>1. Below(x) \subseteq Below(y) /\ x \in Below(y) /\ x \notin Below(x)
    OBVIOUS
  <2> HIDE DEF Below
  <2>2. Below(x) \in SUBSET Below(y) /\ Below(x) # Below(y)
    BY <2>1
  <2>3. Place(x) <= Place(y) /\ Place(x) # Place(y)
    BY <1>2, <2>2, FS_Subset
  <2> QED
    BY <1>2, <2>3
<1>4. \A x \in s : Place(x) < size
  <2> TAKE x \in s
  <2>1. Below(x) \in SUBSET s /\ Below(x) # s
    OBVIOUS
  <2> HIDE DEF Below
  <2>2. Place(x) # size
    BY <2>1, FS_Subset
  <2> QED
    BY <1>1, <1>2, <2>2
<1>5. /\ \A x \in s : Place(x) \in Nat /\ Place(x) < size
      /\ \A x, y \in s : Place(x) = Place(y) => x = y
  <2>1. \A x \in s : Place(x) \in Nat
    BY <1>2
  <2> HIDE DEF Place
  <2>2. ASSUME NEW x \in s, NEW y \in s, Place(x) = Place(y)
        PROVE  x = y
    <3>1. Place(x) \in Nat /\ ~(Place(x) < Place(y)) /\ ~(Place(y) < Place(x))
      BY <2>1, <2>2
    <3>2. <<x, y>> \notin before /\ <<y, x>> \notin before
      BY <1>3, <3>1
    <3> QED
      BY <3>2
  <2> QED
    BY <1>4, <2>1, <2>2
<1>6. \A k \in 1..size : \E x \in s : Place(x) = k - 1
  <2>1. place \in Injection(s, 0..(size - 1))
    <3> HIDE DEF Place
    <3>1. place \in [s -> 0..(size - 1)]
      BY <1>1, <1>5
    <3>2. IsInjective(place)
      BY <1>5 DEF IsInjective
    <3> QED
      BY <3>1, <3>2 DEF Injection
  <2>2. IsFiniteSet(0..(size - 1)) /\ Cardinality(0..(size - 1)) = size
    <3> HIDE DEF size
    <3>1. IsFiniteSet(0..(size - 1))
          /\ Cardinality(0..(size - 1)) = IF 0 > size - 1 THEN 0 ELSE (size - 1) - 0 + 1
      BY <1>1, FS_Interval
    <3> QED
      BY <1>1, <3>1
  <2>3. place \in Surjection(s, 0..(size - 1))
    <3> HIDE DEF place
    <3> QED
      BY <2>1, <2>2, FS_Injection
  <2>4. \A k \in 0..(size - 1) : \E x \in s : place[x] = k
    <3> HIDE DEF place
    <3> QED
      BY <2>3 DEF Surjection
  <2> HIDE DEF Place
  <2>5. \A k \in 1..size : k - 1 \in 0..(size - 1)
    BY <1>1
  <2> QED
    BY <2>4, <2>5
<1>7. order = [k \in 1..size |-> CHOOSE x \in s : Place(x) = k - 1]
  BY DEF InOrder
<1> HIDE DEF Place, order, size
<1>8. \A k \in 1..size : order[k] \in s /\ Place(order[k]) = k - 1
  BY <1>6, <1>7
<1>9. order \in [1..size -> s]
  BY <1>7, <1>8
<1>10. \A j, k \in 1..size : order[j] = order[k] => j = k
  <2> SUFFICES ASSUME NEW j \in 1..size, NEW k \in 1..size, order[j] = order[k]
               PROVE  j = k
    OBVIOUS
  <2>1. j - 1 = k - 1
    BY <1>8
  <2> QED
    BY <1>1, <2>1
<1>11. \A x \in s : \E k \in 1..size : order[k] = x
  <2> TAKE x \in s
  <2>1. Place(x) + 1 \in 1..size /\ (Place(x) + 1) - 1 = Place(x)
    BY <1>1, <1>5
  <2>2. Place(order[Place(x) + 1]) = Place(x) /\ order[Place(x) + 1] \in s
    BY <1>8, <2>1
  <2> QED
    BY <1>5, <2>1, <2>2
<1>12. \A j, k \in 1..size : j < k => <<order[j], order[k]>> \in before
  <2> SUFFICES ASSUME NEW j \in 1..size, NEW k \in 1..size, j < k
               PROVE  <<order[j], order[k]>> \in before
    OBVIOUS
  <2>1. /\ order[j] \in s /\ Place(order[j]) = j - 1
        /\ order[k] \in s /\ Place(order[k]) = k - 1
    BY <1>8
  <2>2. order[j] # order[k] /\ ~(k - 1 < j - 1)
    BY <1>1, <1>10
  <2>3. <<order[k], order[j]>> \notin before
    BY <1>3, <2>1, <2>2
  <2> QED
    BY <2>1, <2>2, <2>3
<1> QED
  BY <1>1, <1>9, <1>10, <1>11, <1>12 DEF order, size
-----------------------------------------------------------------------------
(* Lists of findings and their pages *)

LEMMA RowFields ==
  ASSUME NEW r \in Row
  PROVE  /\ r.id \in Nat /\ r.id \in Ids /\ r.kind \in Detected
         /\ r.risk.score \in Nat
         /\ r = [id |-> r.id, kind |-> r.kind, risk |-> r.risk]
  BY IdsAreNumbers DEF Row, Risk

LEMMA RowsAreTyped ==
  ASSUME rows \in Seq(Row)
  PROVE  /\ Len(rows) \in Nat /\ DOMAIN rows = 1..Len(rows)
         /\ \A n \in DOMAIN rows : rows[n] \in Row
         /\ IsFiniteSet(DOMAIN rows) /\ Cardinality(DOMAIN rows) = Len(rows)
<1>1. /\ Len(rows) \in Nat /\ DOMAIN rows = 1..Len(rows)
      /\ \A n \in DOMAIN rows : rows[n] \in Row
  OBVIOUS
<1>2. IsFiniteSet(1..Len(rows))
      /\ Cardinality(1..Len(rows)) = IF 1 > Len(rows) THEN 0 ELSE Len(rows) - 1 + 1
  BY <1>1, FS_Interval
<1> QED
  BY <1>1, <1>2

LEMMA IdsOfList ==
  ASSUME NEW list \in Seq(Row)
  PROVE  /\ IdsOf(list) \in Seq(Ids) /\ Len(IdsOf(list)) = Len(list)
         /\ DOMAIN IdsOf(list) = 1..Len(list)
         /\ \A n \in 1..Len(list) : IdsOf(list)[n] = list[n].id
<1>1. DOMAIN list = 1..Len(list) /\ Len(list) \in Nat
  OBVIOUS
<1>2. \A n \in 1..Len(list) : list[n] \in Row /\ list[n].id \in Ids
  BY RowFields
<1>3. IdsOf(list) = [n \in 1..Len(list) |-> list[n].id]
  BY <1>1 DEF IdsOf
<1>4. IdsOf(list) \in [1..Len(list) -> Ids]
  BY <1>2, <1>3
<1>5. IdsOf(list) \in Seq(Ids)
  BY <1>1, <1>4, SeqDef
<1> QED
  BY <1>1, <1>3, <1>4, <1>5

(* Findings listed in an order are among the rows, each once.              *)
LEMMA ListedOnce ==
  ASSUME rows \in Seq(Row), DistinctIds,
         NEW s \in SUBSET (DOMAIN rows), NEW before,
         \A x \in s : <<x, x>> \notin before,
         \A x, y, z \in s : <<x, y>> \in before /\ <<y, z>> \in before => <<x, z>> \in before,
         \A x, y \in s : x # y => <<x, y>> \in before \/ <<y, x>> \in before
  PROVE  LET list == Listed(s, before)
         IN  /\ list \in Seq(Row) /\ Len(list) = Cardinality(s)
             /\ \A j, k \in 1..Len(list) : list[j].id = list[k].id => j = k
             /\ \A x \in s : \E k \in 1..Len(list) : list[k] = rows[x]
<1> DEFINE order == InOrder(s, before)
           size == Cardinality(s)
           list == Listed(s, before)
<1>1. IsFiniteSet(s)
  BY RowsAreTyped, FS_Subset
<1>2. /\ size \in Nat
      /\ order \in [1..size -> s]
      /\ \A j, k \in 1..size : order[j] = order[k] => j = k
      /\ \A x \in s : \E k \in 1..size : order[k] = x
  BY <1>1, InOrderLists
<1>3. list = [k \in 1..size |-> rows[order[k]]]
  BY DEF Listed
<1> HIDE DEF order, size, list
<1>4. \A k \in 1..size : order[k] \in DOMAIN rows /\ rows[order[k]] \in Row
  BY <1>2, RowsAreTyped
<1>5. list \in [1..size -> Row]
  BY <1>3, <1>4
<1>6. list \in Seq(Row) /\ Len(list) = size
  BY <1>2, <1>5, SeqDef, LenProperties
<1>7. \A j, k \in 1..size : list[j].id = list[k].id => j = k
  BY <1>2, <1>3, <1>4 DEF DistinctIds
<1>8. \A x \in s : \E k \in 1..size : list[k] = rows[x]
  BY <1>2, <1>3
<1> QED
  BY <1>6, <1>7, <1>8 DEF list, size

LEMMA PlacesById ==
  ASSUME rows \in Seq(Row), DistinctIds, NEW k \in 1..Cardinality(DOMAIN rows)
  PROVE  InOrder(DOMAIN rows, ById)[k] \in DOMAIN rows
<1> DEFINE all == DOMAIN rows
<1>1. \A n \in DOMAIN rows : rows[n].id \in Nat
  BY RowsAreTyped, RowFields
<1>2. \A x, y \in all : <<x, y>> \in ById <=> rows[x].id < rows[y].id
  BY DEF ById, Places
<1>3. \A x \in all : <<x, x>> \notin ById
  BY <1>1, <1>2
<1>4. \A x, y, z \in all : <<x, y>> \in ById /\ <<y, z>> \in ById => <<x, z>> \in ById
  BY <1>1, <1>2
<1>5. \A x, y \in all : x # y => <<x, y>> \in ById \/ <<y, x>> \in ById
  BY <1>1, <1>2 DEF DistinctIds
<1>6. IsFiniteSet(all)
  BY RowsAreTyped
<1> HIDE DEF all
<1>7. InOrder(all, ById) \in [1..Cardinality(all) -> all]
  BY <1>3, <1>4, <1>5, <1>6, InOrderLists
<1> QED
  BY <1>7 DEF all

LEMMA ListById ==
  ASSUME rows \in Seq(Row), DistinctIds
  PROVE  LET list == Listed(DOMAIN rows, ById)
         IN  /\ list \in Seq(Row) /\ Len(list) = Len(rows)
             /\ \A j, k \in 1..Len(list) : list[j].id = list[k].id => j = k
             /\ \A x \in DOMAIN rows : \E k \in 1..Len(list) : list[k] = rows[x]
<1>1. \A n \in DOMAIN rows : rows[n].id \in Nat
  BY RowsAreTyped, RowFields
<1>2. \A x, y \in DOMAIN rows : <<x, y>> \in ById <=> rows[x].id < rows[y].id
  BY DEF ById, Places
<1>3. \A x \in DOMAIN rows : <<x, x>> \notin ById
  BY <1>1, <1>2
<1>4. \A x, y, z \in DOMAIN rows :
        <<x, y>> \in ById /\ <<y, z>> \in ById => <<x, z>> \in ById
  BY <1>1, <1>2
<1>5. \A x, y \in DOMAIN rows : x # y => <<x, y>> \in ById \/ <<y, x>> \in ById
  BY <1>1, <1>2 DEF DistinctIds
<1> DEFINE all == DOMAIN rows
           before == ById
           list == Listed(all, before)
<1>6. /\ list \in Seq(Row) /\ Len(list) = Cardinality(all)
      /\ \A j, k \in 1..Len(list) : list[j].id = list[k].id => j = k
      /\ \A x \in all : \E k \in 1..Len(list) : list[k] = rows[x]
  <2>1. all \in SUBSET (DOMAIN rows)
    OBVIOUS
  <2>2. /\ \A x \in all : <<x, x>> \notin before
        /\ \A x, y, z \in all : <<x, y>> \in before /\ <<y, z>> \in before => <<x, z>> \in before
        /\ \A x, y \in all : x # y => <<x, y>> \in before \/ <<y, x>> \in before
    BY <1>3, <1>4, <1>5
  <2> HIDE DEF all, before
  <2> QED
    BY <2>1, <2>2, ListedOnce
<1> QED
  BY <1>6, RowsAreTyped

LEMMA ListByScore ==
  ASSUME rows \in Seq(Row), DistinctIds
  PROVE  /\ FilteredRows \in Seq(Row)
         /\ \A j, k \in 1..Len(FilteredRows) :
              FilteredRows[j].id = FilteredRows[k].id => j = k
<1>1. \A n \in DOMAIN rows : rows[n].risk.score \in Nat /\ n \in Nat
  BY RowsAreTyped, RowFields
<1>2. InBand \in SUBSET (DOMAIN rows)
  BY DEF InBand
<1>3. \A x, y \in DOMAIN rows :
        <<x, y>> \in ByScore <=>
          \/ rows[x].risk.score > rows[y].risk.score
          \/ rows[x].risk.score = rows[y].risk.score /\ x < y
  BY DEF ByScore, Places
<1>4. \A x \in InBand : <<x, x>> \notin ByScore
  BY <1>1, <1>2, <1>3
<1>5. \A x, y, z \in InBand :
        <<x, y>> \in ByScore /\ <<y, z>> \in ByScore => <<x, z>> \in ByScore
  <2> SUFFICES ASSUME NEW x \in InBand, NEW y \in InBand, NEW z \in InBand,
                      <<x, y>> \in ByScore, <<y, z>> \in ByScore
               PROVE  <<x, z>> \in ByScore
    OBVIOUS
  <2>1. x \in DOMAIN rows /\ y \in DOMAIN rows /\ z \in DOMAIN rows
    BY <1>2
  <2>2. PICK a \in Nat, b \in Nat, c \in Nat :
          a = rows[x].risk.score /\ b = rows[y].risk.score /\ c = rows[z].risk.score
    BY <1>1, <2>1
  <2>3. x \in Nat /\ y \in Nat /\ z \in Nat
    BY <1>1, <2>1
  <2>4. \/ a > b
        \/ a = b /\ x < y
    BY <1>3, <2>1, <2>2
  <2>5. \/ b > c
        \/ b = c /\ y < z
    BY <1>3, <2>1, <2>2
  <2>6. \/ a > c
        \/ a = c /\ x < z
    BY ONLY <2>3, <2>4, <2>5
  <2> QED
    BY <1>3, <2>1, <2>2, <2>6
<1>6. \A x, y \in InBand : x # y => <<x, y>> \in ByScore \/ <<y, x>> \in ByScore
  BY <1>1, <1>2, <1>3
<1> QED
  BY <1>2, <1>4, <1>5, <1>6, ListedOnce DEF FilteredRows

LEMMA LeastOfTwo ==
  ASSUME NEW a \in Int, NEW b \in Int
  PROVE  Min({a, b}) = IF a <= b THEN a ELSE b
<1>1. CASE a <= b
  <2>1. \A x : x \in {a, b} /\ (\A y \in {a, b} : x <= y) => x = a
    BY <1>1
  <2> QED
    BY <1>1, <2>1 DEF Min
<1>2. CASE ~(a <= b)
  <2>1. \A x : x \in {a, b} /\ (\A y \in {a, b} : x <= y) => x = b
    BY <1>2
  <2>2. b <= a /\ b <= b
    BY <1>2
  <2> QED
    BY <1>2, <2>1, <2>2 DEF Min
<1> QED
  BY <1>1, <1>2

(* A page of a list, which may have become shorter than the offset.        *)
LEMMA Pages ==
  ASSUME NEW list \in Seq(Row), NEW offset \in Nat, NEW got \in Seq(Ids)
  PROVE  LET end == Min({offset + PageSize, Len(list)})
             page == SubSeq(list, offset + 1, end)
             more == got \o IdsOf(page)
         IN  /\ more \in Seq(Ids)
             /\ Begins(got, IdsOf(list)) /\ Len(got) = offset /\ offset <= Len(list) =>
                  /\ Begins(more, IdsOf(list))
                  /\ Len(more) = end
<1> DEFINE end == Min({offset + PageSize, Len(list)})
           page == SubSeq(list, offset + 1, end)
           more == got \o IdsOf(page)
<1>1. /\ PageSize \in Nat /\ PageSize > 0 /\ Len(list) \in Nat
      /\ offset + PageSize \in Int /\ Len(list) \in Int
  BY PageSizeAssumption
<1>2. /\ end \in Nat /\ end <= Len(list) /\ end <= offset + PageSize
      /\ offset <= Len(list) => offset <= end
  BY <1>1, LeastOfTwo
<1> HIDE DEF end
<1>3. \A n \in (offset + 1)..end : list[n] \in Row
  BY <1>1, <1>2
<1>4. /\ page \in Seq(Row)
      /\ Len(page) = IF offset + 1 <= end THEN end - (offset + 1) + 1 ELSE 0
      /\ \A n \in 1..(end - (offset + 1) + 1) : page[n] = list[(offset + 1) + n - 1]
  <2>1. offset + 1 \in Int /\ end \in Int
    BY <1>2
  <2> QED
    BY <1>3, <2>1, SubSeqProperties
<1> HIDE DEF page
<1>5. /\ IdsOf(page) \in Seq(Ids) /\ Len(IdsOf(page)) = Len(page)
      /\ \A n \in 1..Len(page) : IdsOf(page)[n] = page[n].id
  BY <1>4, IdsOfList
<1>6. /\ more \in Seq(Ids) /\ Len(more) = Len(got) + Len(page)
      /\ \A n \in 1..(Len(got) + Len(page)) :
           more[n] = IF n <= Len(got) THEN got[n] ELSE IdsOf(page)[n - Len(got)]
  <2> DEFINE ids == IdsOf(page)
  <2>1. ids \in Seq(Ids) /\ Len(ids) = Len(page)
    BY <1>5
  <2> HIDE DEF ids
  <2>2. /\ got \o ids \in Seq(Ids) /\ Len(got \o ids) = Len(got) + Len(ids)
        /\ \A n \in 1..(Len(got) + Len(ids)) :
             (got \o ids)[n] = IF n <= Len(got) THEN got[n] ELSE ids[n - Len(got)]
    BY <2>1, ConcatProperties
  <2> QED
    BY <2>1, <2>2 DEF ids
<1> HIDE DEF more
<1>7. ASSUME Begins(got, IdsOf(list)), Len(got) = offset, offset <= Len(list)
      PROVE  Begins(more, IdsOf(list)) /\ Len(more) = end
  <2>1. Len(page) = end - offset
    BY <1>2, <1>4, <1>7
  <2>2. Len(more) = end
    BY <1>2, <1>6, <1>7, <2>1
  <2>3. DOMAIN IdsOf(list) = 1..Len(list)
        /\ \A n \in 1..Len(list) : IdsOf(list)[n] = list[n].id
    BY IdsOfList
  <2>4. ASSUME NEW n \in 1..end
        PROVE  n \in 1..Len(list) /\ more[n] = list[n].id
    <3>1. n \in 1..Len(list) /\ n \in 1..(Len(got) + Len(page)) /\ n \in Nat
      BY <1>1, <1>2, <1>7, <2>1
    <3>2. CASE n <= offset
      <4>1. n \in DOMAIN got
        BY <1>7, <3>1, <3>2
      <4>2. got[n] = IdsOf(list)[n]
        BY <1>7, <4>1 DEF Begins
      <4> QED
        BY <1>6, <1>7, <2>3, <3>1, <3>2, <4>2
    <3>3. CASE ~(n <= offset)
      <4>1. n - offset \in 1..Len(page) /\ (offset + 1) + (n - offset) - 1 = n
            /\ n - offset \in 1..(end - (offset + 1) + 1)
        BY <1>2, <2>1, <3>1, <3>3
      <4>2. page[n - offset] = list[n]
        BY <1>4, <4>1
      <4>3. IdsOf(page)[n - offset] = page[n - offset].id
        BY <1>5, <4>1
      <4>4. more[n] = IdsOf(page)[n - offset]
        BY <1>6, <1>7, <3>1, <3>3
      <4> QED
        BY <3>1, <4>2, <4>3, <4>4
    <3> QED
      BY <3>2, <3>3
  <2>5. DOMAIN more = 1..end
    BY <1>6, <2>2
  <2> QED
    BY <2>2, <2>3, <2>4, <2>5 DEF Begins
<1> QED
  BY <1>6, <1>7 DEF more, page, end
-----------------------------------------------------------------------------
(* The engine *)

LEMMA ToldNothing ==
  /\ <<>> \in Seq(Event)
  /\ TellsOf(<<>>, 0, 0)
<1>1. FindingsOf(<<>>) = {} /\ ProgressOf(<<>>) = {}
  BY DEF FindingsOf, ProgressOf
<1> QED
  BY <1>1, FS_EmptySet DEF TellsOf

LEMMA ToldLater ==
  ASSUME NEW list \in Seq(Event), NEW k \in Nat, NEW i \in Nat, TellsOf(list, k, i)
  PROVE  TellsOf(list, k, i + 1)
<1>1. \A n \in ProgressOf(list) : list[n] \in Event /\ list[n][1] = "progress"
  BY DEF ProgressOf
<1>2. \A n \in ProgressOf(list) : list[n][2] \in Nat
  BY <1>1 DEF Event
<1>3. \A n \in ProgressOf(list) : list[n][2] <= i
  BY DEF TellsOf
<1>4. \A n \in ProgressOf(list) : list[n][2] <= i + 1
  BY <1>2, <1>3
<1> QED
  BY <1>4 DEF TellsOf

(* A stage, or the end, says nothing of findings or progress. *)
LEMMA ToldStage ==
  ASSUME NEW list \in Seq(Event), NEW k \in Nat, NEW i \in Nat, TellsOf(list, k, i),
         NEW e \in Event, e[1] \in {"stage", "done", "error"}
  PROVE  Append(list, e) \in Seq(Event) /\ TellsOf(Append(list, e), k, i)
<1>1. e[1] \notin {"finding", "progress"}
  OBVIOUS
<1> QED
  BY <1>1, ToldAnOther, AppendProperties

LEMMA ToldEntered ==
  ASSUME NEW list \in Seq(Event), NEW k \in Nat, NEW i \in Nat, TellsOf(list, k, i)
  PROVE  /\ Entered \in Seq(Event)
         /\ list \o Entered \in Seq(Event) /\ TellsOf(list \o Entered, k, i)
<1> DEFINE e == <<"stage", "scanning">>
<1>1. e \in Event /\ e[1] \in {"stage", "done", "error"} /\ <<e>> \in Seq(Event)
  BY DEF Event
<1> HIDE DEF e
<1>2. CASE at = 0
  <2>1. Entered = <<e>>
    BY <1>2 DEF Entered, e
  <2>2. list \o <<e>> = Append(list, e)
    BY <1>1, AppendIsConcat
  <2> QED
    BY <1>1, <2>1, <2>2, ToldStage
<1>3. CASE at # 0
  <2>1. Entered = <<>>
    BY <1>3 DEF Entered
  <2> QED
    BY <2>1, ConcatEmptySeq, EmptySeq
<1> QED
  BY <1>2, <1>3

LEMMA WalkStays ==
  ASSUME tree' = tree
  PROVE  Walk' = Walk
  BY DEF Walk, Kept, Walked

LEMMA ProcessTells ==
  ASSUME ReadersTypeOK, TellsOf(log, Len(found), at),
         at < Len(Walk), Process(Walk[at + 1])
  PROVE  /\ found' \in Seq(Detected) /\ log' \in Seq(Event)
         /\ TellsOf(log', Len(found'), at + 1)
<1> DEFINE f == Walk[at + 1]
           hits == Detections(f)
           i == at + 1
           k == Len(found)
           total == Len(hits)
           e == <<"progress", i, Len(Walk), k + total>>
           told == [n \in 1..total |-> <<"finding", k + n>>]
           entered == log \o Entered
           sofar == entered \o told
<1>1. /\ at \in Nat /\ i \in 1..Len(Walk) /\ Walk \in Seq(SourceFile)
      /\ Len(Walk) \in Nat
      /\ found \in Seq(Detected) /\ k \in Nat /\ log \in Seq(Event)
  <2>1. tree \in Seq(SourceFile) /\ at \in 0..Len(Walk)
        /\ found \in Seq(Detected) /\ log \in Seq(Event)
    BY DEF ReadersTypeOK
  <2>2. Walk \in Seq(SourceFile)
    BY <2>1, WalkIsOfFiles
  <2>3. Len(Walk) \in Nat /\ k \in Nat
    BY <2>1, <2>2, LenProperties
  <2> QED
    BY <2>1, <2>2, <2>3
<1>2. f \in SourceFile
  BY <1>1, ElementOfSeq
<1>3. hits \in Seq(Detected) /\ total \in Nat /\ DOMAIN hits = 1..total
  <2>1. hits \in Seq(Detected)
    BY <1>2, DetectionsAreDetected
  <2> QED
    BY <2>1, LenProperties
<1>4. found' = found \o hits
  BY DEF Process
<1>5. found' \in Seq(Detected) /\ Len(found') = k + total
  BY <1>1, <1>3, <1>4, ConcatProperties
<1>6. log' = sofar \o <<e>> \/ log' = sofar \o <<>>
  BY <1>3 DEF Process, Told
<1>7. Entered \in Seq(Event) /\ entered \in Seq(Event) /\ TellsOf(entered, k, at)
  BY <1>1, ToldEntered
<1>8. told \in Seq(Event) /\ sofar \in Seq(Event) /\ TellsOf(sofar, k + total, at)
  <2> HIDE DEF total, k, entered
  <2> QED
    BY <1>1, <1>3, <1>7, ToldFindings
<1>9. e \in Event /\ <<e>> \in Seq(Event) /\ k + total \in Nat
  BY <1>1, <1>3 DEF Event
<1> HIDE DEF total, k, hits, told, e
<1> HIDE DEF sofar
<1>10. CASE log' = sofar \o <<e>>
  <2>2. log' = Append(sofar, e)
    BY <1>8, <1>9, <1>10, AppendIsConcat
  <2>3. /\ Append(sofar, <<"progress", at + 1, Len(Walk), k + total>>) \in Seq(Event)
        /\ TellsOf(Append(sofar, <<"progress", at + 1, Len(Walk), k + total>>), k + total, at + 1)
    BY <1>1, <1>8, <1>9, ToldProgress
  <2> QED
    BY <1>5, <2>2, <2>3 DEF e
<1>11. CASE log' = sofar \o <<>>
  <2>2. log' = sofar
    BY <1>8, <1>11, ConcatEmptySeq
  <2> QED
    BY <1>1, <1>5, <1>8, <1>9, <2>2, ToldLater
<1> QED
  BY <1>6, <1>10, <1>11

LEMMA EngineStep ==
  ASSUME ReadersTypeOK, TellsOf(log, Len(found), at), Engine
  PROVE  /\ tree' = tree /\ Walk' = Walk
         /\ stage \in {"ingesting", "scanning"} /\ ingest = "ready"
         /\ stage' \in {"scanning", "returned", "raised"}
         /\ at' \in 0..Len(Walk) /\ read' + errors' + skipped' = at'
         /\ {read', errors', skipped'} \subseteq Nat
         /\ found' \in Seq(Detected) /\ log' \in Seq(Event)
         /\ TellsOf(log', Len(found'), at')
<1>1. /\ tree \in Seq(SourceFile) /\ at \in 0..Len(Walk)
      /\ found \in Seq(Detected) /\ log \in Seq(Event)
      /\ read + errors + skipped = at /\ {read, errors, skipped} \subseteq Nat
  BY DEF ReadersTypeOK
<1>2. Walk \in Seq(SourceFile) /\ Len(Walk) \in Nat /\ Len(found) \in Nat /\ at \in Nat
  BY <1>1, WalkIsOfFiles, LenProperties
<1>3. log \o Entered \in Seq(Event) /\ TellsOf(log \o Entered, Len(found), at)
  BY <1>1, <1>2, ToldEntered
<1>4. tree' = tree /\ stage \in {"ingesting", "scanning"} /\ ingest = "ready"
  BY DEF Engine, EngineNext, ScanFile, Return, Raise
<1>5. Walk' = Walk
  BY <1>4, WalkStays
<1>9. at < Len(Walk) => at + 1 \in 0..Len(Walk)
  BY <1>2
<1>6. ASSUME ScanFile
      PROVE  /\ stage' \in {"scanning", "returned", "raised"}
             /\ at' \in 0..Len(Walk) /\ read' + errors' + skipped' = at'
             /\ {read', errors', skipped'} \subseteq Nat
             /\ found' \in Seq(Detected) /\ log' \in Seq(Event)
             /\ TellsOf(log', Len(found'), at')
  <2>1. at < Len(Walk) /\ at' = at + 1 /\ stage' = "scanning"
    BY <1>6 DEF ScanFile
  <2>2. CASE PassOver(Walk[at + 1])
    <3>1. log' = log \o Entered /\ found' = found
          /\ {read', errors', skipped'} \subseteq Nat
          /\ read' + errors' + skipped' = at'
      <4>1. log' = log \o Entered /\ found' = found /\ read' = read
            /\ \/ skipped' = skipped + 1 /\ errors' = errors
               \/ skipped' = skipped /\ errors' = errors + 1
        BY <2>2 DEF PassOver
      <4>2. read \in Nat /\ errors \in Nat /\ skipped \in Nat /\ at \in Nat
            /\ read + errors + skipped = at
        BY ONLY <1>1, <1>2
      <4>3. read' \in Nat /\ errors' \in Nat /\ skipped' \in Nat
        BY ONLY <4>1, <4>2
      <4>4. read' + errors' + skipped' = at'
        BY ONLY <2>1, <4>1, <4>2
      <4> QED
        BY ONLY <4>1, <4>3, <4>4
    <3>2. TellsOf(log \o Entered, Len(found), at + 1)
      BY <1>2, <1>3, ToldLater
    <3>3. found' \in Seq(Detected) /\ Len(found') = Len(found)
      BY <1>1, <3>1
    <3> QED
      BY <1>3, <1>9, <2>1, <3>1, <3>2, <3>3
  <2>3. CASE Process(Walk[at + 1])
    <3>0. read' = read + 1 /\ errors' = errors /\ skipped' = skipped
      BY <2>3 DEF Process
    <3>1. {read', errors', skipped'} \subseteq Nat /\ read' + errors' + skipped' = at'
      BY <1>1, <2>1, <3>0
    <3>2. /\ found' \in Seq(Detected) /\ log' \in Seq(Event)
          /\ TellsOf(log', Len(found'), at + 1)
      BY <2>1, <2>3, ProcessTells
    <3> QED
      BY <1>9, <2>1, <3>1, <3>2
  <2> QED
    BY <1>6, <2>2, <2>3 DEF ScanFile
<1>7. ASSUME Return \/ Raise
      PROVE  /\ stage' \in {"scanning", "returned", "raised"}
             /\ UNCHANGED <<at, found, read, errors, skipped>>
             /\ log' \in Seq(Event) /\ TellsOf(log', Len(found), at)
  <2>1. <<"stage", "scoring">> \in Event /\ <<"stage", "scoring">>[1] \in {"stage", "done", "error"}
    BY DEF Event
  <2>2. /\ Append(log, <<"stage", "scoring">>) \in Seq(Event)
        /\ TellsOf(Append(log, <<"stage", "scoring">>), Len(found), at)
    BY <1>1, <1>2, <2>1, ToldStage
  <2>3. CASE Return
    BY <2>2, <2>3 DEF Return
  <2>4. CASE Raise
    BY <1>3, <2>4 DEF Raise
  <2> QED
    BY <1>7, <2>3, <2>4
<1>8. ScanFile \/ Return \/ Raise
  BY DEF Engine, EngineNext
<1> QED
  BY <1>1, <1>4, <1>5, <1>6, <1>7, <1>8
-----------------------------------------------------------------------------
(* The scan: its engine and what is stored of it *)

ScanTyped ==
    /\ archive \in Archives \cup {Nothing}
    /\ ingest \in {"receiving", "refused", "escaped", "ready"}
    /\ tree \in Seq(SourceFile)
    /\ stage \in {"ingesting", "scanning", "returned", "raised"}
    /\ at \in 0..Len(Walk) /\ read + errors + skipped = at
    /\ {read, errors, skipped} \subseteq Nat
    /\ found \in Seq(Detected) /\ log \in Seq(Event)
    /\ status \in {"scanning", "absent", "done", "failed"}
    /\ rows \in Seq(Row) /\ events \in Seq(Event)

ScanInv == ScanTyped /\ DistinctIds /\ OneHorizon /\ OrderInv /\ OutcomeInv

LEMMA WhoSteps ==
  ASSUME [ReadersNext]_readersVars
  PROVE  \/ Ingest \/ Engine \/ Withdraw \/ Insert
         \/ \E z \in ZValues : RescoreAll(z)
         \/ UNCHANGED scan
  BY DEF ReadersNext, PlainCount, PlainPage, SortedPage, Connect, Frame, Close, scan

(* Before the outcome the row is that of a running scan. *)
LEMMA BusyScan ==
  ASSUME OrderInv,
         ingest = "receiving" \/ (ingest = "ready" /\ stage \in {"ingesting", "scanning"})
  PROVE  status = "scanning" /\ ~Stored
<1>1. ~Concluded
  BY DEF OrderInv, Concluded, Failed
<1> QED
  BY <1>1 DEF OrderInv, Stored

LEMMA InitScan == ReadersInit => ScanInv
<1> SUFFICES ASSUME ReadersInit
             PROVE  ScanInv
  OBVIOUS
<1> USE DEF ReadersInit, IngestInit, EngineInit
<1>1. archive \in Archives \cup {Nothing} /\ ingest \in {"receiving", "ready"}
  OBVIOUS
<1>2. tree \in Seq(SourceFile)
  BY TreesAreOfFiles
<1>3. Len(Walk) \in Nat
  BY <1>2, WalkIsOfFiles, LenProperties
<1> DEFINE e == <<"stage", "ingesting">>
<1>4. e \in Event /\ e[1] \in {"stage", "done", "error"}
  BY DEF Event
<1>5. log = Append(<<>>, e)
  OBVIOUS
<1> HIDE DEF e
<1>6. log \in Seq(Event) /\ TellsOf(log, 0, 0)
  BY <1>4, <1>5, ToldNothing, ToldStage
<1>7. ScanTyped
  BY <1>1, <1>2, <1>3, <1>6, ToldNothing DEF ScanTyped
<1>8. DistinctIds /\ OneHorizon /\ OrderInv
  BY RisksAssumption DEF DistinctIds, OneHorizon, OrderInv, Stored
<1>9. OutcomeInv
  BY <1>6 DEF OutcomeInv, Stored
<1> QED
  BY <1>7, <1>8, <1>9 DEF ScanInv

LEMMA IngestScan ==
  ASSUME ScanInv, Ingest
  PROVE  ScanInv'
<1> USE DEF ScanInv
<1>1. /\ ingest = "receiving" /\ ingest' \in {"receiving", "refused", "escaped", "ready"}
      /\ UNCHANGED <<archive, engineVars, status, rows, events>>
  BY DEF Ingest, IngestNext, ReceiveChunk, Extract
<1>2. status = "scanning" /\ ~Stored
  BY <1>1, BusyScan
<1>3. Walk' = Walk
  BY <1>1, WalkStays
<1>4. ScanTyped'
  BY <1>1, <1>3 DEF ScanTyped
<1>5. DistinctIds' /\ OneHorizon' /\ OrderInv'
  BY <1>1, <1>2 DEF DistinctIds, OneHorizon, OrderInv, Stored
<1>6. OutcomeInv'
  <2>1. TellsOf(log, Len(found), at)'
    BY <1>1 DEF OutcomeInv, TellsOf, FindingsOf, ProgressOf
  <2> QED
    BY <1>1, <1>2, <2>1 DEF OutcomeInv, Stored
<1> QED
  BY <1>4, <1>5, <1>6

LEMMA EngineStepScan ==
  ASSUME ReadersTypeOK, ScanInv, Engine
  PROVE  ScanInv'
<1> USE DEF ScanInv
<1>1. TellsOf(log, Len(found), at)
  BY DEF OutcomeInv
<1>2. /\ tree' = tree /\ Walk' = Walk
      /\ stage \in {"ingesting", "scanning"} /\ ingest = "ready"
      /\ stage' \in {"scanning", "returned", "raised"}
      /\ at' \in 0..Len(Walk) /\ read' + errors' + skipped' = at'
      /\ {read', errors', skipped'} \subseteq Nat
      /\ found' \in Seq(Detected) /\ log' \in Seq(Event)
      /\ TellsOf(log', Len(found'), at')
  BY <1>1, EngineStep
<1>3. UNCHANGED <<ingestVars, status, rows, events>>
  BY DEF Engine
<1>4. status = "scanning" /\ ~Stored
  BY <1>2, BusyScan
<1>5. ScanTyped'
  BY <1>2, <1>3 DEF ScanTyped
<1>6. DistinctIds' /\ OneHorizon' /\ OrderInv'
  BY <1>2, <1>3, <1>4 DEF DistinctIds, OneHorizon, OrderInv, Stored
<1>7. OutcomeInv'
  <2>1. TellsOf(log, Len(found), at)'
    BY <1>2
  <2> QED
    BY <1>3, <1>4, <2>1 DEF OutcomeInv, Stored
<1> QED
  BY <1>5, <1>6, <1>7

LEMMA WithdrawScan ==
  ASSUME ScanInv, Withdraw
  PROVE  ScanInv'
<1> USE DEF ScanInv
<1>1. /\ Concluded /\ status = "scanning" /\ status' = "absent"
      /\ UNCHANGED <<ingestVars, engineVars, rows, events>>
  BY DEF Withdraw
<1>2. Walk' = Walk
  BY <1>1, WalkStays
<1>3. ScanTyped'
  BY <1>1, <1>2 DEF ScanTyped
<1>4. DistinctIds' /\ OneHorizon' /\ OrderInv'
  BY <1>1 DEF DistinctIds, OneHorizon, OrderInv, Stored, Concluded, Failed
<1>5. OutcomeInv'
  BY <1>1 DEF OutcomeInv, Stored, TellsOf, FindingsOf, ProgressOf
<1> QED
  BY <1>3, <1>4, <1>5

LEMMA InsertScan ==
  ASSUME ScanInv, Insert
  PROVE  /\ ScanInv'
         /\ ~Stored /\ Stored' /\ rows = <<>> /\ events = <<>>
         /\ Len(events') >= 1
<1> USE DEF ScanInv
<1> DEFINE result == IF Failed THEN <<>> ELSE found
           told == IF ingest = "refused" THEN <<>> ELSE log
           end == FinalEvent(result)
<1>1. /\ Concluded /\ status = "absent"
      /\ status' = IF Failed THEN "failed" ELSE "done"
      /\ events' = Append(told, end)
      /\ UNCHANGED <<ingestVars, engineVars>>
  BY DEF Insert
<1>2. PICK ids \in [DOMAIN result -> Ids] :
        /\ \A m, n \in DOMAIN ids : ids[m] = ids[n] => m = n
        /\ rows' = [n \in DOMAIN result |->
                      [id |-> ids[n], kind |-> result[n],
                       risk |-> RiskAt[result[n]][FirstHorizon]]]
  BY DEF Insert
<1>3. ~Stored /\ Stored' /\ rows = <<>> /\ events = <<>>
  BY <1>1 DEF Stored, OutcomeInv
<1>4. result \in Seq(Detected) /\ told \in Seq(Event)
  BY EmptySeq DEF ScanTyped
<1> HIDE DEF result, told
<1>5. Len(result) \in Nat /\ DOMAIN result = 1..Len(result)
      /\ \A n \in 1..Len(result) : result[n] \in Detected
  BY <1>4
<1>6. end \in Event
  BY <1>5 DEF FinalEvent, Event
<1> HIDE DEF end
<1>7. events' \in Seq(Event) /\ Len(events') >= 1
  <2>1. Len(told) \in Nat
    BY <1>4
  <2> QED
    BY <1>1, <1>4, <1>6, <2>1, AppendProperties
<1>8. \A n \in 1..Len(result) :
        [id |-> ids[n], kind |-> result[n],
         risk |-> RiskAt[result[n]][FirstHorizon]] \in Row
  <2> TAKE n \in 1..Len(result)
  <2>1. ids[n] \in Ids /\ result[n] \in Detected
    BY <1>2, <1>5
  <2>2. RiskAt[result[n]][FirstHorizon] \in Risk
    BY <2>1, RisksAssumption
  <2> QED
    BY <2>1, <2>2 DEF Row
<1>9. rows' \in Seq(Row) /\ Len(rows') = Len(result)
  <2>1. rows' \in [1..Len(result) -> Row]
    BY <1>2, <1>5, <1>8
  <2> QED
    BY <1>5, <2>1, SeqDef, LenProperties
<1>10. Walk' = Walk
  BY <1>1, WalkStays
<1>11. ScanTyped'
  BY <1>1, <1>7, <1>9, <1>10 DEF ScanTyped
<1>12. DistinctIds'
  <2>1. \A n \in DOMAIN rows' : n \in DOMAIN result /\ rows'[n].id = ids[n]
    BY <1>2
  <2>2. DOMAIN ids = DOMAIN result
    BY <1>2
  <2> QED
    BY <1>2, <2>1, <2>2 DEF DistinctIds
<1>13. OrderInv' /\ OneHorizon'
  <2>1. \A n \in DOMAIN rows' : rows'[n].risk = RiskAt[rows'[n].kind][FirstHorizon]
    BY <1>2
  <2>2. OneHorizon'
    BY <2>1, RisksAssumption DEF OneHorizon
  <2> QED
    BY <1>1, <2>2 DEF OrderInv, Stored, Concluded, Failed
<1>14. OutcomeInv'
  <2>1. Failed' = Failed /\ (found' = found) /\ (log' = log) /\ (ingest' = ingest)
    BY <1>1 DEF Failed
  <2>2. TellsOf(log, Len(found), at)'
    BY <1>1 DEF OutcomeInv, TellsOf, FindingsOf, ProgressOf
  <2>3. \A r : FinalEvent(r)' = FinalEvent(r)
    BY <2>1 DEF FinalEvent
  <2>4. result' = result /\ told' = told /\ end' = end
    BY <2>1, <2>3 DEF result, told, end, FinalEvent
  <2>5. Len(rows') = Len(result') /\ events' = Append(told', end')
    BY <1>1, <1>9, <2>4
  <2> QED
    BY <1>3, <2>2, <2>5 DEF OutcomeInv, result, told, end
<1> QED
  BY <1>3, <1>7, <1>11, <1>12, <1>13, <1>14

LEMMA RescoreScan ==
  ASSUME ScanInv, NEW z \in ZValues, RescoreAll(z)
  PROVE  /\ ScanInv'
         /\ DOMAIN rows' = DOMAIN rows
         /\ \A n \in DOMAIN rows : rows'[n].id = rows[n].id
<1> USE DEF ScanInv
<1>1. /\ Stored
      /\ rows' = [n \in DOMAIN rows |-> [rows[n] EXCEPT !.risk = RiskAt[rows[n].kind][z]]]
      /\ UNCHANGED <<ingestVars, engineVars, status, events>>
  BY DEF RescoreAll
<1>2. rows \in Seq(Row) /\ Len(rows) \in Nat /\ DOMAIN rows = 1..Len(rows)
      /\ \A n \in DOMAIN rows : rows[n] \in Row
  BY RowsAreTyped DEF ScanTyped
<1>3. \A n \in DOMAIN rows : rows'[n] \in Row /\ rows'[n].id = rows[n].id
  <2> TAKE n \in DOMAIN rows
  <2>1. rows[n].kind \in Detected
    BY <1>2, RowFields
  <2>2. RiskAt[rows[n].kind][z] \in Risk
    BY <2>1, RisksAssumption
  <2>3. rows'[n] = [rows[n] EXCEPT !.risk = RiskAt[rows[n].kind][z]]
    BY <1>1
  <2> QED
    BY <1>2, <2>2, <2>3 DEF Row
<1>4. DOMAIN rows' = DOMAIN rows
  BY <1>1
<1>5. rows' \in Seq(Row) /\ Len(rows') = Len(rows)
  <2>1. rows' \in [1..Len(rows) -> Row]
    BY <1>1, <1>2, <1>3
  <2> QED
    BY <1>2, <2>1, SeqDef, LenProperties
<1>6. Walk' = Walk
  BY <1>1, WalkStays
<1>7. ScanTyped'
  BY <1>1, <1>5, <1>6 DEF ScanTyped
<1>8. DistinctIds'
  BY <1>3, <1>4 DEF DistinctIds
<1>9. OrderInv' /\ OneHorizon'
  <2>1. ASSUME NEW n \in DOMAIN rows
        PROVE  rows'[n].risk = RiskAt[rows'[n].kind][z]
    <3>1. rows'[n] = [rows[n] EXCEPT !.risk = RiskAt[rows[n].kind][z]]
      BY <1>1
    <3> QED
      BY <1>2, <3>1 DEF Row
  <2>2. OneHorizon'
    BY <1>4, <2>1 DEF OneHorizon
  <2> QED
    BY <1>1, <2>2 DEF OrderInv, Stored, Concluded, Failed
<1>10. OutcomeInv'
  BY <1>1, <1>5 DEF OutcomeInv, Stored, Failed, FinalEvent, TellsOf, FindingsOf, ProgressOf
<1> QED
  BY <1>3, <1>4, <1>7, <1>8, <1>9, <1>10

LEMMA UnchangedScan ==
  ASSUME ScanInv, UNCHANGED scan
  PROVE  ScanInv'
<1> USE DEF ScanInv, scan
<1>1. Walk' = Walk
  BY WalkStays
<1>2. ScanTyped'
  BY <1>1 DEF ScanTyped
<1>3. DistinctIds' /\ OneHorizon' /\ OrderInv'
  BY DEF DistinctIds, OneHorizon, OrderInv, Stored, Concluded, Failed
<1>4. OutcomeInv'
  BY DEF OutcomeInv, Stored, Failed, FinalEvent, TellsOf, FindingsOf, ProgressOf
<1> QED
  BY <1>2, <1>3, <1>4

LEMMA ScanStep ==
  ASSUME ReadersTypeOK, ScanInv, [ReadersNext]_readersVars
  PROVE  ScanInv'
  BY WhoSteps, IngestScan, EngineStepScan, WithdrawScan, InsertScan, RescoreScan,
     UnchangedScan
-----------------------------------------------------------------------------
(* The WebSocket client *)

ReplayTyped ==
    /\ replay \in [step : {"closed", "open", "ended"},
                   pending : Seq(Nat), got : Seq(Nat), last : Nat]
    /\ misled \in BOOLEAN

LEMMA ConnectReplay ==
  ASSUME ScanTyped, OutcomeInv, ReplayTyped, ReplayInv, Connect
  PROVE  ReplayTyped' /\ ReplayInv'
<1> DEFINE missed == IF misled THEN 1 ELSE 0
<1>0. PICK r : r = replay
  OBVIOUS
<1>1. /\ r \in [step : {"closed", "open", "ended"},
                pending : Seq(Nat), got : Seq(Nat), last : Nat]
      /\ r.step = "closed" /\ UNCHANGED <<status, events>> /\ Len(events) \in Nat
      /\ misled \in BOOLEAN /\ events \in Seq(Event)
  BY <1>0 DEF ReplayTyped, Connect, scan, ScanTyped
<1>2. CASE status = "absent"
  <2>1. replay' = [r EXCEPT !.last = 1] /\ misled' = TRUE
    BY <1>0, <1>2 DEF Connect
  <2>2. ~Stored /\ ~Stored'
    BY <1>1, <1>2 DEF Stored
  <2>3. r.got = <<>> /\ r.pending = <<>>
    BY <1>0, <2>2 DEF ReplayInv
  <2>4. /\ replay'.step = "closed" /\ replay'.last = 1
        /\ replay'.got = <<>> /\ replay'.pending = <<>>
        /\ replay' \in [step : {"closed", "open", "ended"},
                        pending : Seq(Nat), got : Seq(Nat), last : Nat]
    BY <1>1, <2>1, <2>3
  <2> QED
    BY <2>1, <2>2, <2>4 DEF ReplayTyped, ReplayInv
<1>3. CASE status # "absent"
  <2> DEFINE pending == IF events = <<>> THEN <<>> ELSE EventsAfter(r.last)
  <2>1. replay' = [r EXCEPT !.step = "open", !.pending = pending] /\ misled' = misled
    BY <1>0, <1>3 DEF Connect
  <2>2. /\ r.last \in Nat
        /\ ~Stored => r.got = <<>> /\ events = <<>>
        /\ Stored => r.last <= Len(events) /\ events # <<>>
        /\ r.last = Len(r.got) + missed
        /\ \A n \in DOMAIN r.got : r.got[n] = n + missed
    <3>1. r.last \in Nat /\ Len(r.pending) \in Nat
      BY <1>1
    <3>2. /\ ~Stored => r.got = <<>> /\ events = <<>>
          /\ Stored => r.last + Len(r.pending) <= Len(events)
          /\ r.last = Len(r.got) + missed
          /\ \A n \in DOMAIN r.got : r.got[n] = n + missed
      BY <1>0 DEF ReplayInv, OutcomeInv
    <3>3. Stored => events # <<>>
      <4>1. events = Append(IF ingest = "refused" THEN <<>> ELSE log,
                            FinalEvent(IF Failed THEN <<>> ELSE found))
            => events # <<>>
        <5>1. (IF ingest = "refused" THEN <<>> ELSE log) \in Seq(Event)
          BY EmptySeq DEF ScanTyped
        <5>2. FinalEvent(IF Failed THEN <<>> ELSE found) \in Event
          <6>1. (IF Failed THEN <<>> ELSE found) \in Seq(Detected)
            BY EmptySeq DEF ScanTyped
          <6>2. Len(IF Failed THEN <<>> ELSE found) \in Nat
            BY <6>1
          <6> QED
            BY <6>2 DEF FinalEvent, Event
        <5> HIDE DEF FinalEvent
        <5> QED
          BY <5>1, <5>2, AppendProperties
      <4> QED
        BY <4>1 DEF OutcomeInv
    <3> QED
      BY <1>1, <3>1, <3>2, <3>3
  <2>3. /\ pending \in Seq(Nat)
        /\ \A n \in DOMAIN pending : pending[n] = r.last + n
        /\ Stored => r.last + Len(pending) = Len(events)
        /\ ~Stored => pending = <<>>
    <3>1. CASE events = <<>>
      <4>1. pending = <<>> /\ ~Stored
        BY <2>2, <3>1
      <4> HIDE DEF pending
      <4> QED
        BY <4>1, EmptySeq
    <3>2. CASE events # <<>>
      <4>1. Stored /\ Len(events) - r.last \in Nat
        BY <1>1, <2>2, <3>2
      <4> DEFINE left == Len(events) - r.last
      <4>2. pending = [n \in 1..left |-> r.last + n]
        BY <3>2 DEF EventsAfter
      <4>3. left \in Nat /\ r.last \in Nat /\ r.last + left = Len(events)
        BY <1>1, <2>2, <4>1
      <4> HIDE DEF left, pending
      <4>4. pending \in [1..left -> Nat]
        BY <4>2, <4>3
      <4>5. pending \in Seq(Nat) /\ Len(pending) = left
        BY <4>3, <4>4, SeqDef, LenProperties
      <4> QED
        BY <4>1, <4>2, <4>3, <4>5
    <3> QED
      BY <3>1, <3>2
  <2> HIDE DEF pending
  <2>4. /\ replay'.step = "open" /\ replay'.last = r.last
        /\ replay'.got = r.got /\ replay'.pending = pending
        /\ replay' \in [step : {"closed", "open", "ended"},
                        pending : Seq(Nat), got : Seq(Nat), last : Nat]
    BY <1>1, <2>1, <2>3
  <2>5. Stored' = Stored
    BY <1>1 DEF Stored
  <2>6. Stored => replay'.last + Len(pending) <= Len(events)
    BY <1>1, <2>3, <2>4
  <2> QED
    BY <1>1, <2>1, <2>2, <2>3, <2>4, <2>5, <2>6 DEF ReplayTyped, ReplayInv
<1> QED
  BY <1>2, <1>3

LEMMA FrameReplay ==
  ASSUME ScanTyped, ReplayTyped, ReplayInv, Frame
  PROVE  ReplayTyped' /\ ReplayInv'
<1> DEFINE missed == IF misled THEN 1 ELSE 0
<1>0. PICK r : r = replay
  OBVIOUS
<1>1. /\ r \in [step : {"closed", "open", "ended"},
                pending : Seq(Nat), got : Seq(Nat), last : Nat]
      /\ r.step = "open" /\ r.pending # <<>>
      /\ UNCHANGED <<status, events, misled>> /\ Len(events) \in Nat
      /\ misled \in BOOLEAN
      /\ replay' = [r EXCEPT !.pending = Tail(r.pending),
                             !.got = Append(r.got, Head(r.pending)),
                             !.last = Head(r.pending)]
  BY <1>0 DEF ReplayTyped, Frame, scan, ScanTyped
<1>2. /\ r.last \in Nat /\ r.got \in Seq(Nat) /\ r.pending \in Seq(Nat)
      /\ r.last = Len(r.got) + missed
      /\ \A n \in DOMAIN r.got : r.got[n] = n + missed
      /\ \A n \in DOMAIN r.pending : r.pending[n] = r.last + n
      /\ Stored /\ r.last + Len(r.pending) <= Len(events)
  BY <1>0, <1>1 DEF ReplayInv
<1> DEFINE head == Head(r.pending)
           rest == Tail(r.pending)
           more == Append(r.got, head)
<1>3. /\ head = r.last + 1 /\ rest \in Seq(Nat)
      /\ Len(rest) = Len(r.pending) - 1 /\ Len(r.pending) \in Nat
      /\ \A n \in DOMAIN rest : n + 1 \in DOMAIN r.pending /\ rest[n] = r.pending[n + 1]
                                /\ n \in Nat
  BY <1>1, <1>2
<1>4. /\ more \in Seq(Nat) /\ Len(more) = Len(r.got) + 1 /\ Len(r.got) \in Nat
      /\ DOMAIN more = 1..(Len(r.got) + 1) /\ DOMAIN r.got = 1..Len(r.got)
      /\ \A n \in 1..Len(r.got) : more[n] = r.got[n]
      /\ more[Len(r.got) + 1] = head
  BY <1>2, <1>3
<1>12. replay' = [r EXCEPT !.pending = rest, !.got = more, !.last = head]
  BY <1>1
<1>13. missed \in Nat /\ head \in Nat
  BY <1>2, <1>3
<1>14. /\ r.last = Len(r.got) + missed
       /\ \A n \in DOMAIN r.got : r.got[n] = n + missed
  BY <1>2
<1> HIDE DEF head, rest, more, missed
<1>5. /\ replay'.step = "open" /\ replay'.last = head
      /\ replay'.got = more /\ replay'.pending = rest
      /\ replay' \in [step : {"closed", "open", "ended"},
                      pending : Seq(Nat), got : Seq(Nat), last : Nat]
  BY <1>1, <1>3, <1>4, <1>12, <1>13
<1>6. head = Len(more) + missed
  BY <1>3, <1>4, <1>13, <1>14
<1>7. \A n \in DOMAIN more : more[n] = n + missed
  <2> TAKE n \in DOMAIN more
  <2>1. CASE n = Len(r.got) + 1
    <3>1. more[n] = r.last + 1
      BY <1>3, <1>4, <2>1
    <3> QED
      BY <1>4, <1>13, <1>14, <2>1, <3>1
  <2>2. CASE n # Len(r.got) + 1
    <3>1. n \in 1..Len(r.got)
      BY <1>4, <2>2
    <3> QED
      BY <1>4, <1>14, <3>1
  <2> QED
    BY <2>1, <2>2
<1>8. \A n \in DOMAIN rest : rest[n] = head + n
  <2> TAKE n \in DOMAIN rest
  <2>1. n \in Nat /\ rest[n] = r.last + (n + 1)
    BY <1>2, <1>3
  <2>2. r.last \in Nat /\ head = r.last + 1
    BY <1>2, <1>3
  <2> QED
    BY <2>1, <2>2
<1>9. head + Len(rest) <= Len(events)
  BY <1>1, <1>2, <1>3
<1>10. Stored' /\ ReplayTyped'
  BY <1>1, <1>2, <1>5 DEF Stored, ReplayTyped
<1>11. misled' = misled /\ events' = events
  BY <1>1
<1>15. ReplayInv'
  BY <1>5, <1>6, <1>7, <1>8, <1>9, <1>10, <1>11 DEF ReplayInv, missed
<1> QED
  BY <1>10, <1>15

LEMMA CloseReplay ==
  ASSUME ScanTyped, ReplayTyped, ReplayInv, Close
  PROVE  ReplayTyped' /\ ReplayInv'
<1> DEFINE there == IF Stored /\ replay.last = Len(events) THEN "ended" ELSE "closed"
<1>0. PICK r : r = replay
  OBVIOUS
<1>1. /\ r \in [step : {"closed", "open", "ended"},
                pending : Seq(Nat), got : Seq(Nat), last : Nat]
      /\ r.step = "open"
      /\ UNCHANGED <<status, events, misled>> /\ Len(events) \in Nat
      /\ misled \in BOOLEAN
      /\ replay' = [r EXCEPT !.pending = <<>>, !.step = there]
      /\ there \in {"closed", "ended"}
      /\ there = "ended" => Stored /\ r.last = Len(events)
  BY <1>0 DEF ReplayTyped, Close, scan, ScanTyped
<1> HIDE DEF there
<1>2. /\ replay'.step = there /\ replay'.last = r.last
      /\ replay'.got = r.got /\ replay'.pending = <<>>
      /\ replay' \in [step : {"closed", "open", "ended"},
                      pending : Seq(Nat), got : Seq(Nat), last : Nat]
  BY <1>1, EmptySeq
<1>3. Stored' = Stored
  BY <1>1 DEF Stored
<1>4. Stored => r.last + 0 <= Len(events)
  <2>1. Stored => r.last + Len(r.pending) <= Len(events)
    BY <1>0 DEF ReplayInv
  <2>2. r.last \in Nat /\ Len(r.pending) \in Nat
    BY <1>1
  <2> QED
    BY <1>1, <2>1, <2>2
<1> QED
  BY <1>0, <1>1, <1>2, <1>3, <1>4 DEF ReplayTyped, ReplayInv

LEMMA InsertReplay ==
  ASSUME ScanInv, ReplayTyped, ReplayInv, Insert
  PROVE  ReplayTyped' /\ ReplayInv'
<1>1. ~Stored /\ Stored' /\ Len(events') >= 1 /\ Len(events') \in Nat
  <2>1. ScanTyped'
    BY InsertScan DEF ScanInv
  <2> QED
    BY <2>1, InsertScan DEF ScanTyped
<1>2. UNCHANGED <<replay, misled>>
  BY DEF Insert, readers
<1>3. replay.got = <<>> /\ replay.pending = <<>> /\ replay.step # "ended"
  BY <1>1 DEF ReplayInv
<1>4. replay.last + Len(replay.pending) <= Len(events')
  <2>1. replay.last = Len(replay.got) + (IF misled THEN 1 ELSE 0)
    BY DEF ReplayInv
  <2>2. replay.last <= 1 /\ replay.last \in Nat
    BY <1>3, <2>1
  <2> QED
    BY <1>1, <1>3, <2>2
<1>5. ReplayTyped'
  BY <1>2 DEF ReplayTyped
<1>6. ReplayInv'
  BY <1>1, <1>2, <1>3, <1>4 DEF ReplayInv
<1> QED
  BY <1>5, <1>6

LEMMA ReplayStep ==
  ASSUME ReadersTypeOK, ScanInv, ReplayTyped, ReplayInv, [ReadersNext]_readersVars
  PROVE  ReplayTyped' /\ ReplayInv'
<1>1. \/ Insert \/ Connect \/ Frame \/ Close
      \/ UNCHANGED <<replay, misled, events>> /\ Stored' = Stored
  <2>1. CASE Ingest
    BY <2>1 DEF Ingest, readers, Stored
  <2>2. CASE Engine
    BY <2>2 DEF Engine, readers, Stored
  <2>3. CASE Withdraw
    BY <2>3 DEF Withdraw, readers, Stored
  <2>4. CASE \E z \in ZValues : RescoreAll(z)
    BY <2>4 DEF RescoreAll, readers, Stored
  <2>5. CASE PlainCount \/ PlainPage \/ SortedPage
    BY <2>5 DEF PlainCount, PlainPage, SortedPage, scan, Stored
  <2>6. CASE UNCHANGED readersVars
    BY <2>6 DEF Stored
  <2> QED
    BY <2>1, <2>2, <2>3, <2>4, <2>5, <2>6 DEF ReadersNext
<1>2. CASE UNCHANGED <<replay, misled, events>> /\ Stored' = Stored
  BY <1>2 DEF ReplayTyped, ReplayInv
<1> QED
  BY <1>1, <1>2, InsertReplay, ConnectReplay, FrameReplay, CloseReplay DEF ScanInv
-----------------------------------------------------------------------------
(* The clients that page *)

PagersTyped ==
    /\ plain \in [step : {"idle", "counted", "between", "ended"},
                  offset : Nat, total : Nat, got : Seq(Ids)]
    /\ sorted \in [step : {"idle", "between", "ended"}, offset : Nat, got : Seq(Ids)]
    /\ {late, disturbed} \subseteq BOOLEAN

(* A rescore leaves the order by id as it is. *)
LEMMA SameOrder ==
  ASSUME ScanTyped, DistinctIds, DOMAIN rows' = DOMAIN rows,
         \A n \in DOMAIN rows : rows'[n].id = rows[n].id
  PROVE  IdsOf(Listed(DOMAIN rows, ById))' = IdsOf(Listed(DOMAIN rows, ById))
<1> DEFINE all == DOMAIN rows
           size == Cardinality(all)
<1>1. ById' = ById
  BY DEF ById, Places
<1>2. all' = all /\ size' = size
  OBVIOUS
<1>3. InOrder(all, ById)' = InOrder(all, ById)
  BY <1>1, <1>2 DEF InOrder
<1> DEFINE order == InOrder(all, ById)
<1>4. \A k \in 1..size : order[k] \in all
  BY PlacesById DEF ScanTyped
<1>5. Listed(all, ById) = [k \in 1..size |-> rows[order[k]]]
  BY DEF Listed
<1>6. Listed(all, ById)' = [k \in 1..size |-> rows'[order[k]]]
  BY <1>2, <1>3 DEF Listed
<1>7. IdsOf(Listed(all, ById)) = [k \in 1..size |-> rows[order[k]].id]
  <2> HIDE DEF order, size, all
  <2> QED
    BY <1>5 DEF IdsOf
<1>8. IdsOf(Listed(all, ById))' = [k \in 1..size |-> rows'[order[k]].id]
  <2> HIDE DEF order, size
  <2> QED
    BY <1>6 DEF IdsOf
<1>9. \A k \in 1..size : rows'[order[k]].id = rows[order[k]].id
  <2> HIDE DEF order, size
  <2> QED
    BY <1>4
<1>10. [k \in 1..size |-> rows'[order[k]].id] = [k \in 1..size |-> rows[order[k]].id]
  <2> HIDE DEF order, size
  <2> QED
    BY <1>9
<1> QED
  BY <1>7, <1>8, <1>10

LEMMA SameLists ==
  ASSUME rows' = rows
  PROVE  /\ Listed(DOMAIN rows, ById)' = Listed(DOMAIN rows, ById)
         /\ IdsOf(Listed(DOMAIN rows, ById))' = IdsOf(Listed(DOMAIN rows, ById))
         /\ FilteredRows' = FilteredRows
         /\ IdsOf(FilteredRows)' = IdsOf(FilteredRows)
<1>1. ById' = ById /\ ByScore' = ByScore /\ InBand' = InBand
  BY DEF ById, ByScore, InBand, Places
<1>2. \A s, b : Listed(s, b)' = Listed(s, b)
  BY DEF Listed, InOrder
<1>3. FilteredRows' = FilteredRows
  BY <1>1 DEF FilteredRows, Listed, InOrder
<1>4. Listed(DOMAIN rows, ById)' = Listed(DOMAIN rows, ById)
  BY <1>1 DEF Listed, InOrder
<1> QED
  BY <1>3, <1>4 DEF IdsOf

LEMMA CountPlain ==
  ASSUME ScanInv, PagersTyped, PlainInv, PlainCount
  PROVE  PagersTyped' /\ PlainInv'
<1> DEFINE ids == IdsOf(Listed(DOMAIN rows, ById))
<1>0. PICK r : r = plain
  OBVIOUS
<1>1. /\ r \in [step : {"idle", "counted", "between", "ended"},
                offset : Nat, total : Nat, got : Seq(Ids)]
      /\ r.step \in {"idle", "between"}
      /\ plain' = [r EXCEPT !.step = "counted", !.total = Len(rows)]
      /\ late' = (IF r.step = "idle" THEN Stored ELSE late)
      /\ UNCHANGED <<rows, status, sorted, disturbed>> /\ Len(rows) \in Nat
      /\ {late, disturbed} \subseteq BOOLEAN
  BY <1>0 DEF PagersTyped, PlainCount, scan, ScanInv, ScanTyped
<1>2. /\ plain'.step = "counted" /\ plain'.total = Len(rows)
      /\ plain'.offset = r.offset /\ plain'.got = r.got
      /\ plain' \in [step : {"idle", "counted", "between", "ended"},
                     offset : Nat, total : Nat, got : Seq(Ids)]
  BY <1>1
<1>3. ids' = ids /\ Stored' = Stored
  BY <1>1, SameLists DEF Stored
<1>4. /\ Begins(r.got, ids) /\ Len(r.got) = r.offset
      /\ r.offset <= Len(rows)
      /\ late => Stored
  BY <1>0, <1>1 DEF PlainInv
<1>5. PagersTyped'
  <2>1. late' = TRUE \/ late' = FALSE
    <3>1. CASE r.step = "idle"
      <4>1. late' = (status \in {"done", "failed"})
        BY <1>1, <3>1 DEF Stored
      <4> QED
        BY <4>1
    <3>2. CASE r.step # "idle"
      BY <1>1, <3>2
    <3> QED
      BY <3>1, <3>2
  <2>2. late' \in BOOLEAN
    BY <2>1
  <2> QED
    BY <1>1, <1>2, <2>2 DEF PagersTyped
<1> HIDE DEF ids
<1>6. Begins(plain.got, ids)'
  BY <1>2, <1>3, <1>4 DEF Begins
<1>7. late' => Stored'
  BY <1>1, <1>3, <1>4
<1>8. PlainInv'
  BY <1>1, <1>2, <1>4, <1>6, <1>7 DEF PlainInv, ids
<1> QED
  BY <1>5, <1>8

LEMMA PagePlain ==
  ASSUME ScanInv, PagersTyped, PlainInv, PlainPage
  PROVE  PagersTyped' /\ PlainInv'
<1> DEFINE list == Listed(DOMAIN rows, ById)
           ids == IdsOf(list)
<1>0. PICK r : r = plain
  OBVIOUS
<1> DEFINE next == r.offset + PageSize
           end == Min({next, Len(rows)})
           page == SubSeq(list, r.offset + 1, end)
           got == r.got \o IdsOf(page)
           there == IF next < r.total THEN "between" ELSE "ended"
<1>1. /\ r \in [step : {"idle", "counted", "between", "ended"},
                offset : Nat, total : Nat, got : Seq(Ids)]
      /\ r.step = "counted"
      /\ UNCHANGED <<rows, status, sorted, late, disturbed>>
      /\ {late, disturbed} \subseteq BOOLEAN
      /\ rows \in Seq(Row) /\ Len(rows) \in Nat
  BY <1>0 DEF PagersTyped, PlainPage, scan, ScanInv, ScanTyped
<1>2. plain' = [r EXCEPT !.step = there, !.offset = next, !.got = got]
  BY <1>0 DEF PlainPage, PageById
<1>3. /\ r.offset \in Nat /\ r.total \in Nat /\ r.got \in Seq(Ids)
      /\ Begins(r.got, ids) /\ Len(r.got) = r.offset
      /\ \/ r.total = Len(rows) /\ r.offset <= Len(rows)
         \/ r.total = 0 /\ r.offset = 0 /\ ~late
      /\ late => Stored
  BY <1>0, <1>1 DEF PlainInv
<1>4. list \in Seq(Row) /\ Len(list) = Len(rows)
  BY <1>1, ListById DEF ScanInv
<1>5. /\ PageSize \in Nat /\ PageSize > 0 /\ next \in Nat
      /\ end = IF next <= Len(rows) THEN next ELSE Len(rows)
  BY <1>1, <1>3, PageSizeAssumption, LeastOfTwo
<1>6. r.offset <= Len(rows)
  BY <1>1, <1>3
<1>7. got \in Seq(Ids) /\ Begins(got, ids) /\ Len(got) = end
  <2>1. /\ list \in Seq(Row) /\ r.offset \in Nat /\ r.got \in Seq(Ids)
        /\ Begins(r.got, IdsOf(list)) /\ Len(r.got) = r.offset /\ r.offset <= Len(list)
        /\ Len(list) = Len(rows)
    BY <1>3, <1>4, <1>6
  <2> HIDE DEF list
  <2> QED
    BY ONLY <2>1, Pages DEF ids, got, page, end, next
<1>8. there \in {"between", "ended"} /\ (there = "between" <=> next < r.total)
  OBVIOUS
<1>9. ids' = ids /\ Stored' = Stored
  BY <1>1, SameLists DEF Stored
<1>10. rows # <<>> => Stored
  BY DEF ScanInv, OutcomeInv
<1> HIDE DEF list, ids, next, end, got, there
<1>11. /\ plain'.step = there /\ plain'.total = r.total
       /\ plain'.offset = next /\ plain'.got = got
       /\ plain' \in [step : {"idle", "counted", "between", "ended"},
                      offset : Nat, total : Nat, got : Seq(Ids)]
  BY <1>1, <1>2, <1>5, <1>7, <1>8
<1>12. there = "between" =>
         /\ r.total = Len(rows) /\ next < Len(rows) /\ Len(got) = next /\ Stored
  <2> SUFFICES ASSUME there = "between"
               PROVE  r.total = Len(rows) /\ next < Len(rows) /\ Len(got) = next /\ Stored
    OBVIOUS
  <2>1. r.total = Len(rows) /\ next < Len(rows)
    BY <1>3, <1>5, <1>8
  <2>2. Len(rows) # 0
    BY <1>5, <2>1
  <2> QED
    BY <1>5, <1>7, <1>10, <2>1, <2>2
<1>13. there = "ended" /\ late => Len(got) = Len(rows)
  BY <1>1, <1>3, <1>5, <1>7, <1>8
<1>14. PagersTyped'
  BY <1>1, <1>11 DEF PagersTyped
<1>15. Begins(plain.got, ids)'
  BY <1>7, <1>9, <1>11 DEF Begins
<1>16. PlainInv'
  BY <1>1, <1>3, <1>8, <1>9, <1>11, <1>12, <1>13, <1>15 DEF PlainInv, ids, list
<1> QED
  BY <1>14, <1>16

LEMMA InsertPlain ==
  ASSUME ScanInv, PagersTyped, PlainInv, SortedInv, Insert
  PROVE  PagersTyped' /\ PlainInv' /\ SortedInv'
<1> DEFINE ids == IdsOf(Listed(DOMAIN rows, ById))
<1>1. ~Stored /\ Stored' /\ rows = <<>>
  BY InsertScan
<1>2. UNCHANGED <<plain, sorted, late>> /\ disturbed' = TRUE
  BY DEF Insert, readers
<1>3. plain.got = <<>>
  <2>1. rows \in Seq(Row) /\ DistinctIds /\ Len(rows) = 0
    BY <1>1 DEF ScanInv, ScanTyped
  <2>2. Listed(DOMAIN rows, ById) \in Seq(Row) /\ Len(Listed(DOMAIN rows, ById)) = 0
    BY <2>1, ListById
  <2>3. DOMAIN ids = 1..0
    BY <2>2, IdsOfList
  <2>4. plain.got \in Seq(Ids) /\ \A n \in DOMAIN plain.got : n \in DOMAIN ids
    BY DEF PagersTyped, PlainInv, Begins
  <2> HIDE DEF ids
  <2>5. DOMAIN plain.got = {}
    BY <2>3, <2>4
  <2>6. DOMAIN plain.got = 1..Len(plain.got) /\ Len(plain.got) \in Nat
    BY <2>4, LenProperties
  <2>7. 1 \notin 1..Len(plain.got)
    BY <2>5, <2>6
  <2>8. Len(plain.got) = 0
    BY <2>6, <2>7
  <2> QED
    BY <2>4, <2>8, EmptySeq
<1>4. /\ ~late /\ plain.step # "between"
      /\ plain.step # "ended" => plain.offset = 0
      /\ plain.step = "counted" => plain.total = 0
  BY <1>1, <1>3 DEF PlainInv
<1>5. PagersTyped'
  BY <1>2 DEF PagersTyped
<1>6. PlainInv'
  <2>1. Begins(<<>>, ids')
    BY DEF Begins
  <2> QED
    BY <1>2, <1>3, <1>4, <2>1 DEF PlainInv
<1>7. SortedInv'
  BY <1>2 DEF SortedInv
<1> QED
  BY <1>5, <1>6, <1>7

LEMMA RescorePlain ==
  ASSUME ScanInv, PagersTyped, PlainInv, SortedInv, NEW z \in ZValues, RescoreAll(z)
  PROVE  PagersTyped' /\ PlainInv' /\ SortedInv'
<1> DEFINE ids == IdsOf(Listed(DOMAIN rows, ById))
<1>1. DOMAIN rows' = DOMAIN rows /\ \A n \in DOMAIN rows : rows'[n].id = rows[n].id
  BY RescoreScan
<1>2. UNCHANGED <<plain, sorted, late, status>> /\ disturbed' = TRUE
  BY DEF RescoreAll, readers
<1>3. ids' = ids
  BY <1>1, SameOrder DEF ScanInv
<1>4. Len(rows') = Len(rows)
  <2>1. rows \in Seq(Row) /\ rows' \in Seq(Row)
    BY RescoreScan DEF ScanInv, ScanTyped
  <2> QED
    BY <1>1, <2>1
<1>5. PagersTyped'
  BY <1>2 DEF PagersTyped
<1>6. PlainInv'
  <2>1. Begins(plain.got, ids)' <=> Begins(plain.got, ids)
    <3> HIDE DEF ids
    <3> QED
      BY <1>2, <1>3 DEF Begins
  <2>2. Begins(plain.got, ids)
    BY DEF PlainInv
  <2> QED
    BY <1>2, <1>4, <2>1, <2>2 DEF PlainInv, Stored
<1>7. SortedInv'
  BY <1>2 DEF SortedInv
<1> QED
  BY <1>5, <1>6, <1>7

LEMMA PageSorted ==
  ASSUME ScanInv, PagersTyped, SortedInv, SortedPage
  PROVE  PagersTyped' /\ SortedInv'
<1> DEFINE list == FilteredRows
           ids == IdsOf(list)
<1>0. PICK r : r = sorted
  OBVIOUS
<1> DEFINE next == r.offset + PageSize
           end == Min({next, Len(list)})
           page == SubSeq(list, r.offset + 1, end)
           got == r.got \o IdsOf(page)
           there == IF next < Len(list) THEN "between" ELSE "ended"
<1>1. /\ r \in [step : {"idle", "between", "ended"}, offset : Nat, got : Seq(Ids)]
      /\ r.step \in {"idle", "between"}
      /\ UNCHANGED <<rows, plain, late>>
      /\ disturbed' = (IF r.step = "idle" THEN FALSE ELSE disturbed)
      /\ {late, disturbed} \subseteq BOOLEAN
      /\ rows \in Seq(Row)
  BY <1>0 DEF PagersTyped, SortedPage, scan, ScanInv, ScanTyped
<1>2. sorted' = [r EXCEPT !.step = there, !.offset = next, !.got = got]
  BY <1>0 DEF SortedPage
<1>3. /\ r.offset \in Nat /\ r.got \in Seq(Ids)
      /\ list \in Seq(Row) /\ Len(list) \in Nat
  <2>1. list \in Seq(Row)
    BY <1>1, ListByScore DEF ScanInv
  <2> QED
    BY <1>1, <2>1, LenProperties
<1>4. r.step = "idle" \/ ~disturbed =>
        /\ Begins(r.got, ids) /\ Len(r.got) = r.offset /\ r.offset <= Len(list)
  <2>1. CASE r.step = "idle"
    <3>1. r.got = <<>> /\ r.offset = 0
      BY <1>0, <2>1 DEF SortedInv
    <3> QED
      BY <1>3, <3>1 DEF Begins
  <2>2. CASE r.step = "between" /\ ~disturbed
    BY <1>0, <1>3, <2>2 DEF SortedInv
  <2> QED
    BY <1>1, <2>1, <2>2
<1>5. /\ PageSize \in Nat /\ PageSize > 0 /\ next \in Nat
      /\ end = IF next <= Len(list) THEN next ELSE Len(list)
  BY <1>3, PageSizeAssumption, LeastOfTwo
<1>6. /\ got \in Seq(Ids)
      /\ r.step = "idle" \/ ~disturbed => Begins(got, ids) /\ Len(got) = end
  <2> HIDE DEF list
  <2> QED
    BY <1>3, <1>4, Pages
<1>7. there \in {"between", "ended"} /\ (there = "between" <=> next < Len(list))
  OBVIOUS
<1>8. ids' = ids /\ list' = list
  BY <1>1, SameLists
<1> HIDE DEF list, ids, next, end, got, there
<1>9. /\ sorted'.step = there /\ sorted'.offset = next /\ sorted'.got = got
      /\ sorted' \in [step : {"idle", "between", "ended"}, offset : Nat, got : Seq(Ids)]
  BY <1>1, <1>2, <1>5, <1>6, <1>7
<1>10. PagersTyped'
  BY <1>1, <1>9 DEF PagersTyped
<1>11. ~disturbed' => r.step = "idle" \/ ~disturbed
  BY <1>1
<1>12. ~disturbed' => /\ Begins(sorted'.got, ids')
                      /\ there = "between" => Len(got) = next /\ next < Len(list)
                      /\ there = "ended" => Len(got) = Len(list)
  <2>1. Begins(got, ids) => Begins(sorted'.got, ids')
    BY <1>8, <1>9 DEF Begins
  <2> QED
    BY <1>3, <1>5, <1>6, <1>7, <1>11, <2>1
<1>13. SortedInv'
  BY <1>7, <1>8, <1>9, <1>12 DEF SortedInv, ids, list
<1> QED
  BY <1>10, <1>13

LEMMA PagersStep ==
  ASSUME ReadersTypeOK, ScanInv, PagersTyped, PlainInv, SortedInv,
         [ReadersNext]_readersVars
  PROVE  PagersTyped' /\ PlainInv' /\ SortedInv'
<1>1. \/ Insert \/ \E z \in ZValues : RescoreAll(z)
      \/ PlainCount \/ PlainPage \/ SortedPage
      \/ UNCHANGED <<plain, sorted, late, disturbed, rows>> /\ Stored' = Stored
  <2>1. CASE Ingest
    BY <2>1 DEF Ingest, readers, Stored
  <2>2. CASE Engine
    BY <2>2 DEF Engine, readers, Stored
  <2>3. CASE Withdraw
    BY <2>3 DEF Withdraw, readers, Stored
  <2>4. CASE Connect \/ Frame \/ Close
    BY <2>4 DEF Connect, Frame, Close, scan, Stored
  <2>5. CASE UNCHANGED readersVars
    BY <2>5 DEF Stored
  <2> QED
    BY <2>1, <2>2, <2>3, <2>4, <2>5 DEF ReadersNext
<1> DEFINE ids == IdsOf(Listed(DOMAIN rows, ById))
           asked == IdsOf(FilteredRows)
<1>2. ASSUME rows' = rows
      PROVE  /\ ids' = ids /\ asked' = asked /\ FilteredRows' = FilteredRows
             /\ plain' = plain => (Begins(plain.got, ids)' <=> Begins(plain.got, ids))
             /\ sorted' = sorted => (Begins(sorted.got, asked)' <=> Begins(sorted.got, asked))
  <2>1. ids' = ids /\ asked' = asked /\ FilteredRows' = FilteredRows
    BY <1>2, SameLists
  <2> HIDE DEF ids, asked
  <2> QED
    BY <2>1 DEF Begins
<1>3. ASSUME rows' = rows, Stored' = Stored, UNCHANGED <<plain, late>>
      PROVE  PlainInv'
  <2>1. Begins(plain.got, ids)'
    BY <1>2, <1>3 DEF PlainInv
  <2> QED
    BY <1>3, <2>1 DEF PlainInv
<1>4. ASSUME rows' = rows, UNCHANGED <<sorted, disturbed>>
      PROVE  SortedInv'
  <2>1. Begins(sorted.got, asked) => Begins(sorted.got, asked)'
    BY <1>2, <1>4
  <2> QED
    BY <1>2, <1>4, <2>1 DEF SortedInv
<1>5. CASE UNCHANGED <<plain, sorted, late, disturbed, rows>> /\ Stored' = Stored
  BY <1>3, <1>4, <1>5 DEF PagersTyped
<1>6. CASE PlainCount
  <2>1. rows' = rows /\ UNCHANGED <<sorted, disturbed>>
    BY <1>6 DEF PlainCount, scan
  <2> QED
    BY <1>4, <1>6, <2>1, CountPlain
<1>7. CASE PlainPage
  <2>1. rows' = rows /\ UNCHANGED <<sorted, disturbed>>
    BY <1>7 DEF PlainPage, scan
  <2> QED
    BY <1>4, <1>7, <2>1, PagePlain
<1>8. CASE SortedPage
  <2>1. rows' = rows /\ Stored' = Stored /\ UNCHANGED <<plain, late>>
    BY <1>8 DEF SortedPage, scan, Stored
  <2> QED
    BY <1>3, <1>8, <2>1, PageSorted
<1> QED
  BY <1>1, <1>5, <1>6, <1>7, <1>8, InsertPlain, RescorePlain
-----------------------------------------------------------------------------
(* The theorems *)

LEMMA PartsOfReadersInv ==
  ReadersInv <=> /\ ScanInv /\ ReplayTyped /\ ReplayInv
                 /\ PagersTyped /\ PlainInv /\ SortedInv
<1>1. ReadersTypeOK <=> ScanTyped /\ ReplayTyped /\ PagersTyped
  <2>1. {late, disturbed, misled} \subseteq BOOLEAN
          <=> {late, disturbed} \subseteq BOOLEAN /\ misled \in BOOLEAN
    OBVIOUS
  <2> QED
    BY <2>1 DEF ReadersTypeOK, ScanTyped, ReplayTyped, PagersTyped
<1> QED
  BY <1>1 DEF ReadersInv, ScanInv

LEMMA ReadersStart == ReadersInit => ReadersInv
<1> SUFFICES ASSUME ReadersInit
             PROVE  ReadersInv
  OBVIOUS
<1>1. ScanInv
  BY InitScan
<1>2. ~Stored
  BY DEF ReadersInit, Stored
<1>3. ReplayTyped /\ PagersTyped
  BY EmptySeq DEF ReadersInit, ReplayTyped, PagersTyped
<1>4. ReplayInv /\ SortedInv
  BY <1>2 DEF ReadersInit, ReplayInv, SortedInv
<1>5. PlainInv
  <2> DEFINE ids == IdsOf(Listed(DOMAIN rows, ById))
  <2>1. plain.got = <<>> /\ plain.offset = 0 /\ plain.step = "idle" /\ late = FALSE
    BY DEF ReadersInit
  <2>2. Begins(plain.got, ids)
    BY <2>1 DEF Begins
  <2> HIDE DEF ids
  <2> QED
    BY <2>1, <2>2 DEF PlainInv, ids
<1> QED
  BY <1>1, <1>3, <1>4, <1>5, PartsOfReadersInv

(* The invariant of a scan and of those who read it.                       *)
THEOREM ReadersInvariant == ReadersSpec => []ReadersInv
<1>1. ReadersInv /\ [ReadersNext]_readersVars => ReadersInv'
  <2> SUFFICES ASSUME ReadersInv, [ReadersNext]_readersVars
               PROVE  ReadersInv'
    OBVIOUS
  <2>1. /\ ReadersTypeOK /\ ScanInv /\ ReplayTyped /\ ReplayInv
        /\ PagersTyped /\ PlainInv /\ SortedInv
    BY PartsOfReadersInv DEF ReadersInv
  <2>2. ScanInv' /\ ReplayTyped' /\ ReplayInv'
    BY <2>1, ScanStep, ReplayStep
  <2>3. PagersTyped' /\ PlainInv' /\ SortedInv'
    BY <2>1, PagersStep
  <2>4. (/\ ScanInv /\ ReplayTyped /\ ReplayInv
         /\ PagersTyped /\ PlainInv /\ SortedInv)'
    BY <2>2, <2>3
  <2>5. ({late, disturbed, misled} \subseteq BOOLEAN)'
    BY <2>4 DEF ReplayTyped, PagersTyped
  <2>6. ReadersTypeOK'
    BY <2>4, <2>5 DEF ReadersTypeOK, ScanInv, ScanTyped, ReplayTyped, PagersTyped
  <2> QED
    BY <2>4, <2>6 DEF ReadersInv, ScanInv
<1> QED
  BY <1>1, ReadersStart, PTL DEF ReadersSpec

(* Whatever connections are lost, the WebSocket client receives the stored *)
(* events in order, none twice, and all that it was not misled about.      *)
THEOREM ReplayIsExact == ReadersSpec => []ReplayExact
<1>1. ReadersInv => ReplayExact
  <2> SUFFICES ASSUME ReadersInv
               PROVE  ReplayExact
    OBVIOUS
  <2> DEFINE missed == IF misled THEN 1 ELSE 0
             got == replay.got
  <2>1. got \in Seq(Nat) /\ missed \in Nat
    BY DEF ReadersInv, ReadersTypeOK
  <2>2. /\ replay.last = Len(got) + missed
        /\ \A n \in DOMAIN got : got[n] = n + missed
        /\ replay.step = "ended" => replay.last = Len(events)
    BY DEF ReadersInv, ReplayInv
  <2> HIDE DEF got, missed
  <2>3. got = [n \in DOMAIN got |-> n + missed]
    BY <2>1, <2>2
  <2> QED
    BY <2>2, <2>3 DEF ReplayExact, got, missed
<1> QED
  BY <1>1, ReadersInvariant, PTL

(* From after the outcome was stored, following the cursors gives each     *)
(* finding once, whatever is rescored; never does it give one twice.       *)
THEOREM TraversalIsExact == ReadersSpec => []TraversalExact
<1>1. ReadersInv => TraversalExact
  <2> SUFFICES ASSUME ReadersInv
               PROVE  TraversalExact
    OBVIOUS
  <2> DEFINE list == Listed(DOMAIN rows, ById)
             ids == IdsOf(list)
             got == plain.got
             asked == IdsOf(FilteredRows)
             part == sorted.got
  <2>1. /\ rows \in Seq(Row) /\ DistinctIds /\ got \in Seq(Ids) /\ part \in Seq(Ids)
        /\ Begins(got, ids)
        /\ plain.step = "ended" /\ late => Len(got) = Len(rows)
        /\ sorted.step = "ended" /\ ~disturbed =>
             Begins(part, asked) /\ Len(part) = Len(FilteredRows)
    BY DEF ReadersInv, ReadersTypeOK, PlainInv, SortedInv
  <2>2. /\ list \in Seq(Row) /\ Len(list) = Len(rows)
        /\ \A j, k \in 1..Len(list) : list[j].id = list[k].id => j = k
        /\ \A x \in DOMAIN rows : \E k \in 1..Len(list) : list[k] = rows[x]
        /\ ids \in Seq(Ids) /\ Len(ids) = Len(list) /\ DOMAIN ids = 1..Len(list)
        /\ \A n \in 1..Len(list) : ids[n] = list[n].id
    BY <2>1, ListById, IdsOfList
  <2>3. /\ FilteredRows \in Seq(Row)
        /\ \A j, k \in 1..Len(FilteredRows) :
             FilteredRows[j].id = FilteredRows[k].id => j = k
        /\ asked \in Seq(Ids) /\ Len(asked) = Len(FilteredRows)
        /\ DOMAIN asked = 1..Len(FilteredRows)
        /\ \A n \in 1..Len(FilteredRows) : asked[n] = FilteredRows[n].id
    BY <2>1, ListByScore, IdsOfList
  <2>4. \A r \in {rows[n] : n \in DOMAIN rows} : r.id \in Components
    BY DEF Components
  <2>5. ASSUME NEW n \in 1..Len(list)
        PROVE  list[n].id \in Components
    <3>1. list[n] = rows[InOrder(DOMAIN rows, ById)[n]] /\ Len(list) = Cardinality(DOMAIN rows)
      BY <2>1, <2>2, RowsAreTyped DEF Listed
    <3>2. InOrder(DOMAIN rows, ById)[n] \in DOMAIN rows
      BY <2>1, <3>1, PlacesById
    <3> QED
      BY <3>1, <3>2 DEF Components
  <2> HIDE DEF list, ids, got, asked, part
  <2>6. Distinct(got)
    <3>1. ASSUME NEW m \in DOMAIN got, NEW n \in DOMAIN got, got[m] = got[n]
          PROVE  m = n
      <4>1. /\ m \in 1..Len(list) /\ n \in 1..Len(list)
            /\ got[m] = list[m].id /\ got[n] = list[n].id
        BY <2>1, <2>2 DEF Begins
      <4> QED
        BY <2>2, <3>1, <4>1
    <3> QED
      BY <3>1 DEF Distinct
  <2>7. ASSUME plain.step = "ended", late
        PROVE  {got[n] : n \in DOMAIN got} = Components
    <3>1. DOMAIN got = 1..Len(list) /\ \A n \in 1..Len(list) : got[n] = list[n].id
      BY <2>1, <2>2, <2>7, LenProperties DEF Begins
    <3>2. \A n \in DOMAIN rows : \E k \in 1..Len(list) : list[k].id = rows[n].id
      BY <2>2
    <3>3. \A c \in Components : \E k \in 1..Len(list) : list[k].id = c
      BY <3>2 DEF Components
    <3> QED
      BY <2>5, <3>1, <3>3
  <2>8. ASSUME sorted.step = "ended", ~disturbed
        PROVE  Distinct(part) /\ part = asked
    <3>1. /\ DOMAIN part = 1..Len(FilteredRows)
          /\ \A n \in 1..Len(FilteredRows) : part[n] = asked[n]
      BY <2>1, <2>3, <2>8, LenProperties DEF Begins
    <3>2. part = asked
      BY <2>1, <2>3, <2>8, <3>1, SeqEqual
    <3> QED
      BY <2>3, <3>1, <3>2 DEF Distinct
  <2> QED
    BY <2>6, <2>7, <2>8 DEF TraversalExact, got, part, asked
<1> QED
  BY <1>1, ReadersInvariant, PTL

(* The stored log tells of the findings and of progress as they are stored,*)
(* and its last event says how the scan ended.                             *)
THEOREM LogsTellTheirScan == ReadersSpec => []LogTellsScan
<1>1. ReadersInv => LogTellsScan
  <2> SUFFICES ASSUME ReadersInv, Stored
               PROVE  LogTellsScan
    BY DEF LogTellsScan
  <2> DEFINE result == IF Failed THEN <<>> ELSE found
             told == IF ingest = "refused" THEN <<>> ELSE log
             end == FinalEvent(result)
  <2>1. /\ found \in Seq(Detected) /\ log \in Seq(Event) /\ at \in Nat
        /\ TellsOf(log, Len(found), at)
        /\ Len(rows) = Len(result)
        /\ events = Append(told, end)
        /\ status = "failed" <=> Failed
        /\ status \in {"done", "failed"}
    <3>1. ScanTyped /\ OrderInv /\ OutcomeInv
      BY PartsOfReadersInv DEF ScanInv
    <3>2. at \in Nat /\ found \in Seq(Detected) /\ log \in Seq(Event)
      <4>1. /\ at \in 0..Len(Walk) /\ read + errors + skipped = at
            /\ read \in Nat /\ errors \in Nat /\ skipped \in Nat
            /\ found \in Seq(Detected) /\ log \in Seq(Event)
        BY <3>1 DEF ScanTyped
      <4> QED
        BY <4>1
    <3>3. (status = "failed" <=> Failed) /\ status \in {"done", "failed"}
      BY <3>1 DEF OrderInv, Stored
    <3>4. /\ TellsOf(log, Len(found), at) /\ Len(rows) = Len(result)
          /\ events = Append(told, end)
      BY <3>1 DEF OutcomeInv
    <3> QED
      BY <3>2, <3>3, <3>4
  <2>2. result \in Seq(Detected) /\ told \in Seq(Event)
    BY <2>1, EmptySeq
  <2>3. Len(result) \in Nat /\ Len(found) \in Nat
    BY <2>1, <2>2, LenProperties
  <2> HIDE DEF result
  <2>4. /\ end \in Event /\ end[1] \in {"stage", "done", "error"}
        /\ end = <<IF status = "done" THEN "done" ELSE "error", Len(rows)>>
    BY <2>1, <2>3 DEF FinalEvent, Event
  <2> HIDE DEF end
  <2>5. PICK k \in Nat, i \in Nat :
          TellsOf(told, k, i) /\ (ingest # "refused" => k = Len(found))
    BY <2>1, <2>3, ToldNothing
  <2>6. events \in Seq(Event) /\ TellsOf(events, k, i)
    <3> HIDE DEF told
    <3> QED
      BY <2>1, <2>2, <2>4, <2>5, ToldStage
  <2>7. Len(told) \in Nat /\ Len(events) = Len(told) + 1 /\ events[Len(events)] = end
    <3> HIDE DEF told
    <3> QED
      BY <2>1, <2>2, <2>4, AppendProperties
  <2>8. Last(events) = <<IF status = "done" THEN "done" ELSE "error", Len(rows)>>
    BY <2>4, <2>7 DEF Last
  <2>9. ingest = "refused" => status = "failed" /\ Len(events) = 1
    BY <2>1, <2>7 DEF Failed
  <2>10. status = "done" => k = Len(rows)
    BY <2>1, <2>5 DEF Failed, result
  <2>11. /\ {n \in DOMAIN events : events[n][1] = "finding"} = FindingsOf(events)
         /\ {n \in DOMAIN events : events[n][1] = "progress"} = ProgressOf(events)
    BY DEF FindingsOf, ProgressOf
  <2>12. /\ Cardinality(FindingsOf(events)) = k
         /\ \A m, n \in FindingsOf(events) : m < n => events[m][2] < events[n][2]
         /\ \A n \in ProgressOf(events) :
              /\ events[n][4] = Cardinality({m \in FindingsOf(events) : m < n})
              /\ \A m \in ProgressOf(events) : m < n => events[m][2] < events[n][2]
    BY <2>6 DEF TellsOf
  <2> QED
    BY <2>8, <2>9, <2>10, <2>11, <2>12 DEF LogTellsScan
<1> QED
  BY <1>1, ReadersInvariant, PTL
-----------------------------------------------------------------------------
(* The views *)

BandNames == {BandOrder[n] : n \in DOMAIN BandOrder}

LEMMA RankIs ==
  /\ \A b \in BandNames : Rank(b) \in 1..4 /\ BandOrder[Rank(b)] = b
  /\ \A b, c \in BandNames : Rank(b) = Rank(c) => b = c
<1>1. DOMAIN BandOrder = 1..4
  BY DEF BandOrder
<1>2. ASSUME NEW b \in BandNames
      PROVE  Rank(b) \in 1..4 /\ BandOrder[Rank(b)] = b
  <2>1. \E n \in 1..4 : BandOrder[n] = b
    BY <1>1 DEF BandNames
  <2> QED
    BY <2>1 DEF Rank
<1> QED
  BY <1>2

(* A finite set of numbers that is not empty has a greatest one.           *)
LEMMA GreatestNumber ==
  ASSUME NEW T \in SUBSET Nat, IsFiniteSet(T), T # {}
  PROVE  \E m \in T : \A n \in T : n <= m
<1> DEFINE Bounded(t) == \E m \in t : \A n \in t : n <= m
           Good == {k \in Nat : \A t \in SUBSET Nat :
                      IsFiniteSet(t) /\ Cardinality(t) = k + 1 => Bounded(t)}
<1>1. 0 \in Good
  <2> SUFFICES ASSUME NEW t \in SUBSET Nat, IsFiniteSet(t), Cardinality(t) = 0 + 1
               PROVE  Bounded(t)
    OBVIOUS
  <2>1. PICK x : t = {x}
    <3>1. Cardinality(t) = 1
      OBVIOUS
    <3> QED
      BY <3>1, FS_Singleton
  <2> QED
    BY <2>1
<1>2. ASSUME NEW k \in Nat, k \in Good
      PROVE  k + 1 \in Good
  <2> SUFFICES ASSUME NEW t \in SUBSET Nat, IsFiniteSet(t), Cardinality(t) = (k + 1) + 1
               PROVE  Bounded(t)
    BY <1>2
  <2>1. t # {}
    BY FS_EmptySet
  <2>2. PICK x : x \in t
    BY <2>1
  <2>3. IsFiniteSet(t \ {x}) /\ Cardinality(t \ {x}) = k + 1
    BY <2>2, FS_RemoveElement
  <2>4. Bounded(t \ {x})
    <3>1. t \ {x} \in SUBSET Nat
      OBVIOUS
    <3> QED
      BY <1>2, <2>3, <3>1
  <2>5. PICK m \in t \ {x} : \A n \in t \ {x} : n <= m
    BY <2>4
  <2>6. CASE x <= m
    BY <2>5, <2>6
  <2>7. CASE ~(x <= m)
    <3>1. \A n \in t : n <= x
      BY <2>2, <2>5, <2>7
    <3> QED
      BY <2>2, <3>1
  <2> QED
    BY <2>6, <2>7
<1>3. Cardinality(T) \in Nat /\ Cardinality(T) # 0
  BY FS_CardinalityType, FS_EmptySet
<1>4. Cardinality(T) - 1 \in Good
  <2> HIDE DEF Good
  <2>1. Cardinality(T) - 1 \in Nat
    BY <1>3
  <2> QED
    BY <1>1, <1>2, <2>1, Induction
<1>5. (Cardinality(T) - 1) + 1 = Cardinality(T)
  BY <1>3
<1> QED
  BY <1>4, <1>5

LEMMA MaxIs ==
  ASSUME NEW T \in SUBSET Nat, IsFiniteSet(T), T # {}
  PROVE  Max(T) \in T /\ \A n \in T : n <= Max(T)
<1>1. \E m \in T : \A n \in T : m >= n
  BY GreatestNumber
<1> QED
  BY <1>1 DEF Max

LEMMA WorstIs ==
  ASSUME NEW bands \in SUBSET BandNames, bands # {}
  PROVE  WorstBand(bands) \in bands /\ \A c \in bands : Rank(c) <= Rank(WorstBand(bands))
<1> DEFINE ranks == {Rank(b) : b \in bands}
<1>1. ranks \in SUBSET (1..4) /\ ranks # {}
  BY RankIs
<1>2. IsFiniteSet(1..4)
  <2>1. 1 \in Int /\ 4 \in Int
    OBVIOUS
  <2> QED
    BY <2>1, FS_Interval
<1>3. IsFiniteSet(ranks) /\ ranks \in SUBSET Nat
  BY <1>1, <1>2, FS_Subset
<1>4. PICK m \in ranks : \A n \in ranks : n <= m
  <2> HIDE DEF ranks
  <2> QED
    BY <1>1, <1>3, GreatestNumber
<1>5. PICK b \in bands : Rank(b) = m
  BY <1>4
<1>6. \A c \in bands : Rank(b) >= Rank(c)
  <2> TAKE c \in bands
  <2>1. Rank(c) \in ranks /\ Rank(c) \in 1..4 /\ Rank(b) \in 1..4
    BY RankIs
  <2>2. Rank(c) <= m
    BY <1>4, <2>1
  <2> QED
    BY <1>5, <2>1, <2>2
<1>7. WorstBand(bands) \in bands /\ \A c \in bands : Rank(WorstBand(bands)) >= Rank(c)
  BY <1>6 DEF WorstBand
<1>8. \A c \in bands : Rank(c) \in 1..4
  BY RankIs
<1> QED
  BY <1>7, <1>8

(* The findings of the files add up to those of all files: each finding is *)
(* below one file.                                                         *)
LEMMA FilesAddUp ==
  ASSUME NEW D, IsFiniteSet(D), NEW path,
         NEW files, \A p : p \in files <=> \E n \in D : path[n] = p,
         NEW g,
         \A p \in files : \E part : /\ g[p] = Cardinality(part)
                                   /\ \A n : n \in part <=> n \in D /\ path[n] = p
  PROVE  SumFunctionOnSet(g, files) = Cardinality(D)
<1> DEFINE G == Sums(g, files)
           In(s) == {n \in D : path[n] \in s}
           Good == {k \in Nat : \A s \in SUBSET files :
                      Cardinality(s) = k => G[s] = Cardinality(In(s))}
<1>1. IsFiniteSet(files)
  <2>1. [n \in D |-> path[n]] \in Surjection(D, files)
    BY DEF Surjection
  <2> QED
    BY <2>1, FS_Surjection
<1>2. \A s \in SUBSET files :
        G[s] = IF s = {} THEN 0 ELSE g[Taken(s)] + G[Rest(s)]
  BY <1>1, SumsUnfolds
<1> HIDE DEF G
<1>3. 0 \in Good
  <2> SUFFICES ASSUME NEW s \in SUBSET files, Cardinality(s) = 0
               PROVE  G[s] = Cardinality(In(s))
    OBVIOUS
  <2>1. s = {}
    BY <1>1, PartIs
  <2>2. In(s) = {}
    BY <2>1
  <2> QED
    BY <1>2, <2>1, <2>2, FS_EmptySet
<1>4. ASSUME NEW k \in Nat, k \in Good
      PROVE  k + 1 \in Good
  <2> SUFFICES ASSUME NEW s \in SUBSET files, Cardinality(s) = k + 1
               PROVE  G[s] = Cardinality(In(s))
    BY <1>4
  <2>1. s # {}
    BY <1>1, PartIs
  <2>2. /\ Taken(s) \in s /\ Rest(s) \in SUBSET files
        /\ Cardinality(Rest(s)) = k
    BY <1>1, <2>1, PartIs
  <2> DEFINE mine == {n \in D : path[n] = Taken(s)}
             others == In(Rest(s))
  <2>3. G[Rest(s)] = Cardinality(others)
    BY <1>4, <2>2
  <2>4. g[Taken(s)] = Cardinality(mine)
    <3>1. PICK part : /\ g[Taken(s)] = Cardinality(part)
                      /\ \A n : n \in part <=> n \in D /\ path[n] = Taken(s)
      BY <2>2
    <3>2. part = mine
      BY <3>1
    <3> QED
      BY <3>1, <3>2
  <2>5. G[s] = Cardinality(mine) + Cardinality(others)
    BY <1>2, <2>1, <2>2, <2>3, <2>4
  <2>6. /\ mine \in SUBSET D /\ others \in SUBSET D
        /\ In(s) = mine \cup others /\ mine \cap others = {}
    BY <2>2 DEF Rest
  <2> HIDE DEF mine, others, In
  <2>7. IsFiniteSet(mine) /\ IsFiniteSet(others)
    BY <2>6, FS_Subset
  <2>8. Cardinality(In(s)) = Cardinality(mine) + Cardinality(others) - Cardinality({})
    BY <2>6, <2>7, FS_Union
  <2>9. Cardinality(mine) \in Nat /\ Cardinality(others) \in Nat
    BY <2>7, FS_CardinalityType
  <2> QED
    BY <2>5, <2>8, <2>9, FS_EmptySet
<1>5. Cardinality(files) \in Nat
  BY <1>1, FS_CardinalityType
<1>6. Cardinality(files) \in Good
  <2> HIDE DEF Good
  <2> QED
    BY <1>3, <1>4, <1>5, Induction
<1>7. In(files) = D
  OBVIOUS
<1> QED
  BY <1>6, <1>7, SumIs DEF G

(* Of the findings of one scan, those with a greater score are in no milder*)
(* band: they are scored at one horizon.                                   *)
LEMMA BandsFollowScores ==
  ASSUME rows \in Seq(Row), OneHorizon, NEW m \in DOMAIN rows, NEW n \in DOMAIN rows,
         rows[m].risk.score > rows[n].risk.score
  PROVE  Rank(rows[m].risk.band) >= Rank(rows[n].risk.band)
<1>1. PICK z \in ZValues : \A k \in DOMAIN rows : rows[k].risk = RiskAt[rows[k].kind][z]
  BY DEF OneHorizon
<1>2. rows[m].kind \in Detected /\ rows[n].kind \in Detected
  BY RowsAreTyped, RowFields
<1>3. /\ rows[m].risk = RiskAt[rows[m].kind][z]
      /\ rows[n].risk = RiskAt[rows[n].kind][z]
  BY <1>1
<1> QED
  BY <1>2, <1>3, RisksAssumption

LEMMA RisksOfRows ==
  ASSUME rows \in Seq(Row), NEW n \in DOMAIN rows
  PROVE  /\ rows[n].risk.score \in Nat /\ rows[n].risk.band \in BandNames
         /\ rows[n].risk = [score |-> rows[n].risk.score, band |-> rows[n].risk.band]
         /\ Rank(rows[n].risk.band) \in 1..4
<1>1. rows[n] \in Row
  BY RowsAreTyped
<1>2. rows[n].risk \in Risk
  BY <1>1 DEF Row
<1>3. rows[n].risk.score \in Nat /\ rows[n].risk.band \in BandNames
  BY <1>2 DEF Risk, BandNames
<1>4. rows[n].risk = [score |-> rows[n].risk.score, band |-> rows[n].risk.band]
  BY <1>2 DEF Risk
<1> QED
  BY <1>3, <1>4, RankIs

(* The band and the score of a node, each the worst, are those of one      *)
(* finding below it.                                                       *)
LEMMA NodeIsAFinding ==
  ASSUME rows \in Seq(Row), OneHorizon, rows # <<>>
  PROVE  \E n \in DOMAIN rows :
           rows[n].risk = [score |-> RootNode.score, band |-> RootNode.band]
<1> DEFINE all == DOMAIN rows
           bands == {rows[n].risk.band : n \in all}
           scores == {rows[n].risk.score : n \in all}
           top == Max(scores \cup {0})
           worst == WorstBand(bands)
<1>1. all # {} /\ IsFiniteSet(all)
  BY RowsAreTyped
<1>2. \A n \in all : rows[n].risk.score \in Nat /\ rows[n].risk.band \in BandNames
  BY RisksOfRows
<1>3. RootNode.score = top /\ RootNode.band = worst
  BY <1>1 DEF RootNode, Node
<1>4. top \in scores \cup {0} /\ \A k \in scores \cup {0} : k <= top
  <2>1. [n \in all |-> rows[n].risk.score] \in Surjection(all, scores)
    BY DEF Surjection
  <2>2. IsFiniteSet(scores)
    <3> HIDE DEF all, scores
    <3> QED
      BY <1>1, <2>1, FS_Surjection
  <2>3. scores \cup {0} \in SUBSET Nat /\ scores \cup {0} # {}
    BY <1>2
  <2>4. IsFiniteSet(scores \cup {0})
    <3> HIDE DEF scores
    <3> QED
      BY <2>2, FS_AddElement
  <2> HIDE DEF scores
  <2> QED
    BY <2>3, <2>4, MaxIs
<1>5. worst \in bands /\ \A c \in bands : Rank(c) <= Rank(worst)
  <2>1. bands \in SUBSET BandNames /\ bands # {}
    BY <1>1, <1>2
  <2> HIDE DEF bands
  <2> QED
    BY <2>1, WorstIs
<1> HIDE DEF top, worst
<1>6. PICK w \in all : rows[w].risk.band = worst
  BY <1>5
<1>7. PICK m \in all : rows[m].risk.score = top
  <2>1. CASE top \in scores
    BY <2>1
  <2>2. CASE top = 0
    <3>1. rows[w].risk.score \in Nat /\ rows[w].risk.score <= 0
      BY <1>2, <1>4, <2>2
    <3>2. rows[w].risk.score = top
      BY <2>2, <3>1
    <3> QED
      BY <3>2
  <2> QED
    BY <1>4, <2>1, <2>2
<1>8. rows[w].risk.score <= top /\ rows[w].risk.score \in Nat /\ rows[m].risk.score \in Nat
  BY <1>2, <1>4
<1>9. CASE rows[w].risk.score = top
  BY <1>3, <1>6, <1>9, RisksOfRows
<1>10. CASE rows[m].risk.score > rows[w].risk.score
  <2>1. Rank(rows[m].risk.band) >= Rank(worst)
    BY <1>6, <1>10, BandsFollowScores
  <2>2. Rank(rows[m].risk.band) <= Rank(worst)
    BY <1>5
  <2>3. /\ rows[m].risk.band \in BandNames /\ worst \in BandNames
        /\ Rank(rows[m].risk.band) \in 1..4 /\ Rank(worst) \in 1..4
    BY <1>2, <1>6, RisksOfRows
  <2>4. Rank(rows[m].risk.band) = Rank(worst)
    BY <2>1, <2>2, <2>3
  <2>5. rows[m].risk.band = worst
    BY <2>3, <2>4, RankIs
  <2> QED
    BY <1>3, <1>7, <2>5, RisksOfRows
<1> QED
  BY <1>7, <1>8, <1>9, <1>10

(* The plan lists the findings with a remedy, the worst band first.        *)
LEMMA PlanIsOrdered ==
  ASSUME rows \in Seq(Row), DistinctIds
  PROVE  /\ {Plan[n] : n \in DOMAIN Plan}
              = {rows[n] : n \in {m \in DOMAIN rows : rows[m].kind \in Remedied}}
         /\ \A n \in DOMAIN Plan : \A m \in 1..n :
              Rank(Plan[m].risk.band) >= Rank(Plan[n].risk.band)
<1> DEFINE some == {m \in DOMAIN rows : rows[m].kind \in Remedied}
           order == InOrder(some, ByBand)
           size == Cardinality(some)
           rank(n) == Rank(rows[n].risk.band)
<1>1. some \in SUBSET (DOMAIN rows) /\ IsFiniteSet(some)
  <2>1. some \in SUBSET (DOMAIN rows)
    OBVIOUS
  <2> HIDE DEF some
  <2> QED
    BY <2>1, RowsAreTyped, FS_Subset
<1>2. Plan = [k \in 1..size |-> rows[order[k]]]
  BY DEF Plan, Listed
<1> HIDE DEF some
<1>3. \A x \in some : x \in DOMAIN rows /\ x \in Nat /\ rank(x) \in Nat
  <2> TAKE x \in some
  <2>1. x \in DOMAIN rows
    BY <1>1
  <2>2. x \in Nat
    BY <2>1, RowsAreTyped
  <2>3. Rank(rows[x].risk.band) \in 1..4
    BY <2>1, RisksOfRows
  <2> QED
    BY <2>1, <2>2, <2>3
<1>4. \A x, y \in some :
        <<x, y>> \in ByBand <=> \/ rank(x) > rank(y)
                                \/ rank(x) = rank(y) /\ x < y
  <2> TAKE x \in some, y \in some
  <2>1. <<x, y>> \in Places
    BY <1>3 DEF Places
  <2>2. <<x, y>> \in ByBand <=> \/ rank(x) - rank(y) > 0
                                \/ rank(x) - rank(y) = 0 /\ x < y
    BY <2>1 DEF ByBand
  <2> HIDE DEF rank
  <2>3. rank(x) \in Nat /\ rank(y) \in Nat
    BY <1>3
  <2> QED
    BY <2>2, <2>3
<1> HIDE DEF rank
<1>5. /\ \A x \in some : <<x, x>> \notin ByBand
      /\ \A x, y \in some : x # y => <<x, y>> \in ByBand \/ <<y, x>> \in ByBand
  BY <1>3, <1>4
<1>6. \A x, y, z \in some :
        <<x, y>> \in ByBand /\ <<y, z>> \in ByBand => <<x, z>> \in ByBand
  <2> SUFFICES ASSUME NEW x \in some, NEW y \in some, NEW z \in some,
                      <<x, y>> \in ByBand, <<y, z>> \in ByBand
               PROVE  <<x, z>> \in ByBand
    OBVIOUS
  <2>1. PICK a \in Nat, b \in Nat, c \in Nat : a = rank(x) /\ b = rank(y) /\ c = rank(z)
    BY <1>3
  <2>2. x \in Nat /\ y \in Nat /\ z \in Nat
    BY <1>3
  <2>3. \/ a > b
        \/ a = b /\ x < y
    BY <1>4, <2>1
  <2>4. \/ b > c
        \/ b = c /\ y < z
    BY <1>4, <2>1
  <2>5. \/ a > c
        \/ a = c /\ x < z
    BY ONLY <2>2, <2>3, <2>4
  <2> QED
    BY <1>4, <2>1, <2>5
<1>7. /\ size \in Nat /\ order \in [1..size -> some]
      /\ \A x \in some : \E k \in 1..size : order[k] = x
      /\ \A j, k \in 1..size : j < k => <<order[j], order[k]>> \in ByBand
  BY <1>1, <1>5, <1>6, InOrderLists
<1> HIDE DEF order, size
<1>8. {Plan[n] : n \in DOMAIN Plan} = {rows[n] : n \in some}
  BY <1>2, <1>7
<1>9. ASSUME NEW n \in 1..size, NEW m \in 1..n
      PROVE  rank(order[m]) >= rank(order[n])
  <2>1. m \in 1..size
    BY <1>7
  <2>2. order[m] \in some /\ order[n] \in some
    BY <1>7, <2>1
  <2>3. rank(order[m]) \in Nat /\ rank(order[n]) \in Nat
    BY <1>3, <2>2
  <2>4. CASE m = n
    BY <2>3, <2>4
  <2>5. CASE m < n
    <3>1. <<order[m], order[n]>> \in ByBand
      BY <1>7, <2>1, <2>5
    <3>2. \/ rank(order[m]) > rank(order[n])
          \/ rank(order[m]) = rank(order[n])
      BY <1>4, <2>2, <3>1
    <3> QED
      BY <2>3, <3>2
  <2> QED
    BY <1>7, <2>4, <2>5
<1>10. ASSUME NEW n \in DOMAIN Plan, NEW m \in 1..n
       PROVE  Rank(Plan[m].risk.band) >= Rank(Plan[n].risk.band)
  <2>1. n \in 1..size /\ m \in 1..size
    BY <1>2, <1>7
  <2>2. Plan[m] = rows[order[m]] /\ Plan[n] = rows[order[n]]
    BY <1>2, <2>1
  <2> QED
    BY <1>9, <2>1, <2>2 DEF rank
<1> QED
  BY <1>8, <1>10 DEF some

(* The graph, the CBOM and the plan agree on the findings of a scan.       *)
THEOREM ViewsDoAgree == ReadersSpec => []ViewsAgree
<1>1. ReadersInv => ViewsAgree
  <2> SUFFICES ASSUME ReadersInv
               PROVE  ViewsAgree
    OBVIOUS
  <2>1. rows \in Seq(Row) /\ DistinctIds /\ OneHorizon
    BY DEF ReadersInv, ReadersTypeOK
  <2> DEFINE all == DOMAIN rows
             path == [n \in all |-> Paths[rows[n].kind]]
             below(p) == {n \in all : path[n] = p}
             g == [p \in FilesOfGraph |-> FileNode(p).occurrences]
  <2>2. IsFiniteSet(all)
    BY <2>1, RowsAreTyped
  <2>3. \A p : FileNode(p) = Node(below(p))
    <3> TAKE p
    <3>1. {n \in all : Paths[rows[n].kind] = p} = below(p)
      OBVIOUS
    <3> QED
      BY <3>1 DEF FileNode
  <2>4. SumFunctionOnSet(g, FilesOfGraph) = Cardinality(all)
    <3>1. \A p : p \in FilesOfGraph <=> \E n \in all : path[n] = p
      BY DEF FilesOfGraph
    <3>2. \A p \in FilesOfGraph : \E part :
            /\ g[p] = Cardinality(part)
            /\ \A n : n \in part <=> n \in all /\ path[n] = p
      <4> TAKE p \in FilesOfGraph
      <4>1. g[p] = Node(below(p)).occurrences
        BY <2>3
      <4> WITNESS below(p)
      <4>2. g[p] = Cardinality(below(p))
        BY <4>1 DEF Node
      <4> QED
        BY <4>2
    <3> HIDE DEF all, path, g
    <3> QED
      BY ONLY <2>2, <3>1, <3>2, FilesAddUp
  <2>5. RootNode.occurrences = Cardinality(all) /\ RiskScore = RootNode.score
    BY DEF RootNode, Node, RiskScore
  <2>6. Cardinality(all) = Cardinality(Components)
    <3> DEFINE id == [n \in all |-> rows[n].id]
    <3>1. id \in Injection(all, Components)
      BY <2>1 DEF Injection, IsInjective, Components, DistinctIds
    <3>2. id \in Surjection(all, Components)
      BY DEF Surjection, Components
    <3> HIDE DEF id, all
    <3> QED
      BY <2>2, <3>1, <3>2, FS_Surjection
  <2>7. rows # <<>> =>
          \E n \in DOMAIN rows :
            rows[n].risk = [score |-> RootNode.score, band |-> RootNode.band]
    BY <2>1, NodeIsAFinding
  <2>8. ASSUME NEW p \in FilesOfGraph
        PROVE  Rank(FileNode(p).band) <= Rank(RootNode.band)
    <3> DEFINE few == {rows[n].risk.band : n \in below(p)}
               every == {rows[n].risk.band : n \in all}
    <3>1. PICK n \in all : n \in below(p)
      BY DEF FilesOfGraph
    <3>2. few \in SUBSET BandNames /\ every \in SUBSET BandNames
          /\ few \subseteq every /\ few # {} /\ every # {}
      BY <2>1, <3>1, RisksOfRows
    <3>3. RootNode.band = WorstBand(every)
      BY <3>1 DEF RootNode, Node
    <3>4. FileNode(p).band = WorstBand(few)
      <4>1. below(p) # {}
        BY <3>1
      <4> HIDE DEF below
      <4> QED
        BY <2>3, <4>1 DEF Node
    <3> HIDE DEF few, every
    <3>5. WorstBand(few) \in few /\ \A c \in every : Rank(c) <= Rank(WorstBand(every))
      BY <3>2, WorstIs
    <3> QED
      BY <3>2, <3>3, <3>4, <3>5
  <2> HIDE DEF all, g
  <2>9. SumFunctionOnSet(g, FilesOfGraph) = RootNode.occurrences
        /\ RootNode.occurrences = Cardinality(Components)
    BY <2>4, <2>5, <2>6
  <2> QED
    BY <2>1, <2>5, <2>7, <2>8, <2>9, PlanIsOrdered DEF ViewsAgree, g
<1> QED
  BY <1>1, ReadersInvariant, PTL

-----------------------------------------------------------------------------
(* Drift, alerts, probes and views of the estate: EstateWatch.              *)

(* So is the number of some findings of a scan. *)
LEMMA CountIs ==
  ASSUME NEW inventory \in [Findings -> Nat], NEW among \in SUBSET Findings
  PROVE  SumFunctionOnSet(inventory, among) \in Nat
<1>1. IsFiniteSet(among)
  BY FindingsAreFinite, FS_Subset
<1>2. \A f \in among : inventory[f] \in Int /\ inventory[f] <= inventory[f] /\ inventory[f] >= 0
  OBVIOUS
<1> QED
  BY <1>1, <1>2, SumsGrow
-----------------------------------------------------------------------------
(* What a drift compares *)

LEMMA ScoreIs ==
  ASSUME NEW r \in Reading, NEW f \in Findings, r.z \in Horizons
  PROVE  r.found[f] \in Nat /\ Score(r, f) \in 0..100
<1>1. r.found \in [Findings -> Nat]
  BY EstateAssumption DEF Reading
<1>2. f.shape \in Shapes
  BY DEF Findings
<1> QED
  BY <1>1, <1>2, EstateAssumption DEF Score

(* Two findings of one identity are one. *)
LEMMA AddedIs ==
  ASSUME NEW old, NEW new
  PROVE  Added(old, new) = {f \in Present(new) : f \notin Present(old)}
BY DEF Added, Identities, _finding_identity

(* The net risk is a number; it rises only with a finding that is added,   *)
(* with a horizon, or among findings that share their identity.            *)
LEMMA NetRiskIs ==
  ASSUME NEW old \in Reading, NEW new \in Reading
  PROVE  /\ RiskSum(old) \in Int /\ RiskSum(new) \in Int
         /\ netRiskDelta(old, new) > 0 =>
              \/ Added(old, new) # {}
              \/ old.z # new.z
              \/ \E f \in Findings : old.found[f] > 1 \/ new.found[f] > 1
<1> DEFINE g == [f \in Findings |-> new.found[f] * Score(new, f)]
           h == [f \in Findings |-> old.found[f] * Score(old, f)]
<1>1. old.z \in Horizons /\ new.z \in Horizons
  BY DEF Reading
<1>2. ASSUME NEW f \in Findings
      PROVE  /\ old.found[f] \in Nat /\ Score(old, f) \in 0..100
             /\ new.found[f] \in Nat /\ Score(new, f) \in 0..100
  BY <1>1, ScoreIs
<1>3. \A f \in Findings : g[f] \in Int /\ h[f] \in Int
  <2> TAKE f \in Findings
  <2>1. \A m \in Nat : \A n \in 0..100 : m * n \in Int
    OBVIOUS
  <2> QED
    BY <1>2, <2>1
<1>4. SumFunctionOnSet(g, Findings) \in Int /\ SumFunctionOnSet(h, Findings) \in Int
  <2> HIDE DEF g, h
  <2>1. \A f \in Findings : g[f] <= g[f] /\ h[f] <= h[f]
    BY <1>3
  <2> QED
    BY <1>3, <2>1, SumsGrow, FindingsAreFinite
<1>5. RiskSum(new) \in Int /\ RiskSum(old) \in Int
  BY <1>4 DEF RiskSum
<1>6. ASSUME Added(old, new) = {}, old.z = new.z,
             \A f \in Findings : ~(old.found[f] > 1) /\ ~(new.found[f] > 1)
      PROVE  ~(netRiskDelta(old, new) > 0)
  <2>1. ASSUME NEW f \in Findings
        PROVE  g[f] <= h[f]
    <3>1. Score(new, f) = Score(old, f)
      BY <1>6 DEF Score
    <3>2. old.found[f] \in {0, 1} /\ new.found[f] \in {0, 1}
      BY <1>2, <1>6
    <3>3. new.found[f] = 1 => old.found[f] = 1
      BY <1>6, <3>2, AddedIs DEF Present
    <3>4. \A n \in 0..100 : 0 * n = 0 /\ 1 * n = n
      OBVIOUS
    <3>5. CASE new.found[f] = 1
      <4>1. g[f] = Score(new, f) /\ h[f] = Score(old, f)
        BY <1>2, <3>3, <3>4, <3>5
      <4> QED
        BY <1>2, <3>1, <4>1
    <3>6. CASE new.found[f] = 0
      <4>1. g[f] = 0
        BY <1>2, <3>4, <3>6
      <4>2. h[f] \in {0, Score(old, f)}
        BY <1>2, <3>2, <3>4
      <4> QED
        BY <1>2, <4>1, <4>2
    <3> QED
      BY <3>2, <3>5, <3>6
  <2>2. SumFunctionOnSet(g, Findings) <= SumFunctionOnSet(h, Findings)
    <3> HIDE DEF g, h
    <3> QED
      BY <1>3, <2>1, SumsGrow, FindingsAreFinite
  <2>3. RiskSum(new) <= RiskSum(old)
    BY <2>2 DEF RiskSum
  <2> QED
    BY <1>5, <2>3 DEF netRiskDelta
<1> QED
  BY <1>5, <1>6
-----------------------------------------------------------------------------
(* The inductive invariant of the estate *)

LEMMA EstateStart == EstateInit => EstateInv
<1> SUFFICES ASSUME EstateInit
             PROVE  EstateInv
  OBVIOUS
<1>1. EstateTypeOK
  BY EstateAssumption DEF EstateInit, EstateTypeOK, LastScans
<1>2. ReportsInv /\ RequestInv
  BY DEF EstateInit, ReportsInv, RequestInv
<1>3. SnapshotsInv
  BY DEF EstateInit, SnapshotsInv, Reported
<1> QED
  BY <1>1, <1>2, <1>3 DEF EstateInv

(* The snapshot of a scan is of what was found in it, and stays.           *)
LEMMA SnapshotIs ==
  ASSUME NEW i \in DOMAIN scans, scans[i] \in Scan, i \in 1..MaxScans
  PROVE  SnapshotOf(i) \in Snapshot /\ SnapshotOf(i).scan = i
<1>1. scans[i].target \in Targets /\ scans[i].found \in [Findings -> Nat]
  BY EstateAssumption DEF Scan
<1>2. Total(scans[i]) \in Nat
  BY <1>1, CountIs DEF Total
<1>3. \A b \in Bands : CountIn([found |-> scans[i].found, z |-> Default], b) \in Nat
  BY <1>1, CountIs DEF CountIn
<1> QED
  BY <1>1, <1>2, <1>3 DEF SnapshotOf, Snapshot

LEMMA SnapshotStays ==
  ASSUME NEW i, scans'[i].found = scans[i].found, scans'[i].target = scans[i].target
  PROVE  SnapshotOf(i)' = SnapshotOf(i)
BY DEF SnapshotOf, Total, CountIn, Band

LEMMA SnapshotsStay ==
  ASSUME SnapshotsInv, snapshots' = snapshots, Reported' = Reported,
         \A i \in Reported : /\ scans'[i].found = scans[i].found
                            /\ scans'[i].target = scans[i].target
  PROVE  SnapshotsInv'
<1>1. \A i \in Reported : SnapshotOf(i)' = SnapshotOf(i)
  BY SnapshotStays
<1> QED
  BY <1>1 DEF SnapshotsInv

LEMMA SnapshotsAreOfScans ==
  ASSUME EstateInv
  PROVE  \A x \in snapshots : x.scan \in DOMAIN scans
<1>1. \A i : SnapshotOf(i).scan = i
  BY DEF SnapshotOf
<1>2. \A x \in snapshots : \E i \in Reported : x = SnapshotOf(i)
  BY DEF EstateInv, SnapshotsInv
<1> QED
  BY <1>1, <1>2 DEF Reported

(* What a request is, by the kind of it. *)
LEMMA RequestIs ==
  ASSUME EstateInv, NEW c \in Clients, request[c] # Absent
  PROVE  /\ request[c].kind = "drift" => request[c] \in DriftRequest /\ DriftInv(request[c])
         /\ request[c].kind = "probe" => request[c] \in ProbeRequest /\ ProbeInv(request[c])
         /\ request[c].kind = "view" => request[c] \in ViewRequest /\ ViewInv(request[c])
         /\ request[c].kind \in {"drift", "probe", "view"}
<1>1. request[c] \in DriftRequest \cup ProbeRequest \cup ViewRequest
  BY DEF EstateInv, EstateTypeOK
<1>2. \A r \in DriftRequest : r.kind = "drift"
  BY DEF DriftRequest
<1>3. \A r \in ProbeRequest : r.kind = "probe"
  BY DEF ProbeRequest
<1>4. \A r \in ViewRequest : r.kind = "view"
  BY DEF ViewRequest
<1>5. /\ request[c].kind = "drift" => DriftInv(request[c])
      /\ request[c].kind = "probe" => ProbeInv(request[c])
      /\ request[c].kind = "view" => ViewInv(request[c])
  BY DEF EstateInv, RequestInv
<1> QED
  BY <1>1, <1>2, <1>3, <1>4, <1>5

(* A step that changes the request of one client leaves the others where   *)
(* they are, as long as the scans and alerts they are about stay.          *)
LEMMA ClientStep ==
  ASSUME EstateInv, NEW c \in Clients, NEW r,
         request' = [request EXCEPT ![c] = r],
         UNCHANGED <<scans, lastScan, snapshots>>,
         alerts' \subseteq Alert, \A a \in alerts : a \in alerts',
         r \in DriftRequest \cup ProbeRequest \cup ViewRequest \cup {Absent},
         r # Absent => /\ r.kind = "drift" => DriftInv(r)'
                       /\ r.kind = "probe" => ProbeInv(r)'
                       /\ r.kind = "view" => ViewInv(r)'
  PROVE  EstateInv'
<1>1. EstateTypeOK'
  BY DEF EstateInv, EstateTypeOK
<1>2. ReportsInv' /\ SnapshotsInv'
  <2>1. ReportsInv'
    BY DEF EstateInv, ReportsInv, IsReportOf
  <2>2. SnapshotsInv'
    BY SnapshotsStay DEF EstateInv, Reported
  <2> QED
    BY <2>1, <2>2
<1>3. ASSUME NEW d \in Clients, d # c, request[d] # Absent
      PROVE  /\ request[d].kind = "drift" => DriftInv(request[d])'
             /\ request[d].kind = "probe" => ProbeInv(request[d])'
             /\ request[d].kind = "view" => ViewInv(request[d])'
  <2>1. request'[d] = request[d]
    BY <1>3 DEF EstateInv, EstateTypeOK
  <2>2. CASE request[d].kind = "drift"
    BY <1>3, <2>1, <2>2, RequestIs DEF DriftInv, OnFile
  <2>3. CASE request[d].kind = "probe"
    BY <1>3, <2>1, <2>3, RequestIs DEF ProbeInv, OnFile
  <2>4. CASE request[d].kind = "view"
    BY <1>3, <2>1, <2>4, RequestIs DEF ViewInv, Grounded, IsReportOf
  <2> QED
    BY <1>3, <2>2, <2>3, <2>4, RequestIs
<1>4. RequestInv'
  BY <1>3 DEF EstateInv, EstateTypeOK, RequestInv
<1> QED
  BY <1>1, <1>2, <1>4 DEF EstateInv

(* What the sessions of a drift read, and the alerts it raises. *)
LEMMA ReadingIs ==
  ASSUME EstateInv, NEW i \in DOMAIN scans
  PROVE  ReadingOf(i) \in Reading
<1>1. scans[i] \in Scan
  BY DEF EstateInv, EstateTypeOK
<1> QED
  BY <1>1 DEF ReadingOf, Reading, Scan

LEMMA AskDriftStep ==
  ASSUME EstateInv, NEW c \in Clients, NEW from \in snapshots, NEW to \in snapshots,
         AskDrift(c, from, to)
  PROVE  EstateInv'
<1>1. PICK r : r = [kind |-> "drift", at |-> "old",
         target |-> from.target, from |-> from.scan, to |-> to.scan,
         old |-> Absent, new |-> Absent, todo |-> {}, raised |-> {}, swallowed |-> FALSE]
  OBVIOUS
<1>2. /\ request' = [request EXCEPT ![c] = r]
      /\ UNCHANGED <<scans, lastScan, snapshots, alerts>>
  BY <1>1, Zenon DEF AskDrift
<1>3. /\ from \in Snapshot /\ to \in Snapshot /\ alerts \subseteq Alert
      /\ {from.scan, to.scan} \subseteq DOMAIN scans
  BY SnapshotsAreOfScans DEF EstateInv, EstateTypeOK
<1>4. r \in DriftRequest
  BY <1>1, <1>3 DEF DriftRequest, Snapshot
<1>5. DriftInv(r)'
  BY <1>1, <1>2, <1>3 DEF DriftInv
<1>6. r.kind = "drift"
  BY <1>1
<1> QED
  BY <1>2, <1>3, <1>4, <1>5, <1>6, ClientStep

LEMMA ListOldStep ==
  ASSUME EstateInv, NEW c \in Clients, ListOldFindings(c)
  PROVE  EstateInv'
<1> DEFINE q == request[c]
<1>1. /\ q # Absent /\ q.kind = "drift" /\ q.at = "old"
      /\ request' = [request EXCEPT ![c].at = "new", ![c].old = ReadingOf(q.from)]
      /\ UNCHANGED <<scans, lastScan, snapshots, alerts>>
  BY DEF ListOldFindings, Asking
<1>2. q \in DriftRequest /\ DriftInv(q) /\ alerts \subseteq Alert
  BY <1>1, RequestIs DEF EstateInv, EstateTypeOK
<1>3. ReadingOf(q.from) \in Reading
  BY <1>2, ReadingIs DEF DriftInv
<1>4. PICK r : r = [q EXCEPT !.at = "new", !.old = ReadingOf(q.from)]
  OBVIOUS
<1>5. request' = [request EXCEPT ![c] = r]
  BY <1>1, <1>4 DEF EstateInv, EstateTypeOK
<1>6. r \in DriftRequest
  BY <1>2, <1>3, <1>4 DEF DriftRequest
<1>7. /\ r.at = "new" /\ r.old \in Reading /\ r.kind = "drift"
      /\ r.from = q.from /\ r.to = q.to /\ r.raised = q.raised
  BY <1>2, <1>3, <1>4 DEF DriftRequest
<1>8. DriftInv(r)'
  BY <1>1, <1>2, <1>7 DEF DriftInv, OnFile
<1> QED
  BY <1>1, <1>2, <1>5, <1>6, <1>7, <1>8, ClientStep

LEMMA ListNewStep ==
  ASSUME EstateInv, NEW c \in Clients, ListNewFindings(c)
  PROVE  EstateInv'
<1> DEFINE q == request[c]
           new == ReadingOf(q.to)
           due == Criticals(new, Added(q.old, new))
<1>1. /\ q # Absent /\ q.kind = "drift" /\ q.at = "new"
      /\ request' = [request EXCEPT ![c].at = "alert", ![c].new = new, ![c].todo = due]
      /\ UNCHANGED <<scans, lastScan, snapshots, alerts>>
  BY DEF ListNewFindings, Asking
<1>2. q \in DriftRequest /\ DriftInv(q) /\ alerts \subseteq Alert
  BY <1>1, RequestIs DEF EstateInv, EstateTypeOK
<1>3. new \in Reading /\ due \subseteq Findings
  BY <1>2, ReadingIs DEF DriftInv, Criticals, Added, Present
<1> HIDE DEF new
<1>4. PICK r : r = [q EXCEPT !.at = "alert", !.new = new, !.todo = due]
  OBVIOUS
<1> HIDE DEF due
<1>5. request' = [request EXCEPT ![c] = r]
  BY <1>1, <1>4 DEF EstateInv, EstateTypeOK
<1>6. r \in DriftRequest
  BY <1>2, <1>3, <1>4 DEF DriftRequest
<1>7. /\ r.at = "alert" /\ r.old = q.old /\ r.new = new /\ r.kind = "drift"
      /\ r.from = q.from /\ r.to = q.to /\ r.raised = q.raised /\ r.todo = due
  BY <1>2, <1>3, <1>4 DEF DriftRequest
<1>8. due = Criticals(r.new, Added(r.old, r.new))
  BY <1>7 DEF due
<1>9. DriftInv(r)'
  BY <1>1, <1>2, <1>3, <1>7, <1>8 DEF DriftInv, OnFile
<1> QED
  BY <1>1, <1>2, <1>5, <1>6, <1>7, <1>9, ClientStep

LEMMA RowIs ==
  ASSUME NEW type \in AlertTypes, NEW t \in Targets, NEW f \in Findings \cup {Absent}
  PROVE  AlertRow(type, t, f) \in Alert /\ AlertRow(type, t, f).type = type
BY DEF AlertRow, Alert

LEMMA AlertAddedStep ==
  ASSUME EstateInv, NEW c \in Clients, AlertAdded(c)
  PROVE  EstateInv'
<1> DEFINE q == request[c]
<1>1. q # Absent /\ q.kind = "drift" /\ q.at = "alert"
  BY DEF AlertAdded, Asking
<1>2. q \in DriftRequest /\ DriftInv(q) /\ alerts \subseteq Alert
  BY <1>1, RequestIs DEF EstateInv, EstateTypeOK
<1>3. PICK f \in q.todo : \E alert :
        /\ alert = AlertRow("drift", q.target, f)
        /\ alerts' = alerts \cup {alert}
        /\ request' = [request EXCEPT ![c].todo = @ \ {f}, ![c].raised = @ \cup {alert}]
        /\ UNCHANGED <<scans, lastScan, snapshots>>
  BY DEF AlertAdded, dispatch_alert
<1>a. PICK alert :
        /\ alert = AlertRow("drift", q.target, f)
        /\ alerts' = alerts \cup {alert}
        /\ request' = [request EXCEPT ![c].todo = @ \ {f}, ![c].raised = @ \cup {alert}]
        /\ UNCHANGED <<scans, lastScan, snapshots>>
  BY <1>3
<1>4. alert \in Alert /\ alert.type = "drift" /\ q.target \in Targets /\ q.todo \subseteq Findings
  BY <1>2, <1>3, <1>a, RowIs DEF DriftRequest, AlertTypes
<1>5. PICK r : r = [q EXCEPT !.todo = @ \ {f}, !.raised = @ \cup {alert}]
  OBVIOUS
<1>6. request' = [request EXCEPT ![c] = r]
  BY <1>a, <1>5 DEF EstateInv, EstateTypeOK
<1>7. r \in DriftRequest
  BY <1>2, <1>4, <1>5 DEF DriftRequest
<1>8. /\ r.at = "alert" /\ r.old = q.old /\ r.new = q.new /\ r.kind = "drift"
      /\ r.from = q.from /\ r.to = q.to /\ r.target = q.target
      /\ r.raised = q.raised \cup {alert} /\ r.todo = q.todo \ {f}
  BY <1>1, <1>2, <1>5 DEF DriftRequest
<1>9. DriftInv(r)'
  <2>1. \A a \in r.raised : OnFile(a)' /\ a.type = "drift"
    BY <1>2, <1>a, <1>4, <1>8 DEF DriftInv, OnFile
  <2>2. \A x \in Criticals(r.new, Added(r.old, r.new)) :
          x \in r.todo \/ AlertRow("drift", r.target, x) \in r.raised
    BY <1>1, <1>2, <1>a, <1>8 DEF DriftInv
  <2> QED
    BY <1>1, <1>2, <1>a, <1>8, <2>1, <2>2 DEF DriftInv
<1>10. alerts' \subseteq Alert /\ \A a \in alerts : a \in alerts'
  BY <1>2, <1>a, <1>4
<1> QED
  BY <1>a, <1>6, <1>7, <1>8, <1>9, <1>10, ClientStep

LEMMA AlertRegressionStep ==
  ASSUME EstateInv, NEW c \in Clients, AlertRegression(c)
  PROVE  EstateInv'
<1> DEFINE q == request[c]
<1>1. q # Absent /\ q.kind = "drift" /\ q.at = "alert"
  BY DEF AlertRegression, Asking
<1>2. q \in DriftRequest /\ DriftInv(q) /\ alerts \subseteq Alert
  BY <1>1, RequestIs DEF EstateInv, EstateTypeOK
<1>3. PICK alert :
        /\ alert = AlertRow("drift", q.target, Absent)
        /\ alerts' = alerts \cup {alert}
        /\ request' = [request EXCEPT ![c].raised = @ \cup {alert}]
        /\ UNCHANGED <<scans, lastScan, snapshots>>
  BY DEF AlertRegression, dispatch_alert
<1>4. alert \in Alert /\ alert.type = "drift"
  BY <1>2, <1>3, RowIs DEF DriftRequest, AlertTypes
<1>5. PICK r : r = [q EXCEPT !.raised = @ \cup {alert}]
  OBVIOUS
<1>6. request' = [request EXCEPT ![c] = r]
  BY <1>3, <1>5 DEF EstateInv, EstateTypeOK
<1>7. r \in DriftRequest
  BY <1>2, <1>4, <1>5 DEF DriftRequest
<1>8. /\ r.at = "alert" /\ r.old = q.old /\ r.new = q.new /\ r.kind = "drift"
      /\ r.from = q.from /\ r.to = q.to /\ r.target = q.target
      /\ r.raised = q.raised \cup {alert} /\ r.todo = q.todo
  BY <1>1, <1>2, <1>5 DEF DriftRequest
<1>9. DriftInv(r)'
  <2>1. \A a \in r.raised : OnFile(a)' /\ a.type = "drift"
    BY <1>2, <1>3, <1>4, <1>8 DEF DriftInv, OnFile
  <2> QED
    BY <1>1, <1>2, <1>3, <1>8, <2>1 DEF DriftInv
<1>10. alerts' \subseteq Alert /\ \A a \in alerts : a \in alerts'
  BY <1>2, <1>3, <1>4
<1> QED
  BY <1>3, <1>6, <1>7, <1>8, <1>9, <1>10, ClientStep

LEMMA DriftDoneStep ==
  ASSUME EstateInv, NEW c \in Clients, DriftDone(c)
  PROVE  EstateInv'
<1> DEFINE q == request[c]
<1>1. /\ q # Absent /\ q.kind = "drift" /\ q.at = "alert"
      /\ q.todo = {} /\ ~Regressed(q)
      /\ request' = [request EXCEPT ![c].at = "answer"]
      /\ UNCHANGED <<scans, lastScan, snapshots, alerts>>
  BY DEF DriftDone, Asking
<1>2. q \in DriftRequest /\ DriftInv(q) /\ alerts \subseteq Alert
  BY <1>1, RequestIs DEF EstateInv, EstateTypeOK
<1>3. PICK r : r = [q EXCEPT !.at = "answer"]
  OBVIOUS
<1>4. request' = [request EXCEPT ![c] = r]
  BY <1>1, <1>3 DEF EstateInv, EstateTypeOK
<1>5. r \in DriftRequest
  BY <1>2, <1>3 DEF DriftRequest
<1>6. /\ r.at = "answer" /\ r.old = q.old /\ r.new = q.new /\ r.kind = "drift"
      /\ r.from = q.from /\ r.to = q.to /\ r.target = q.target
      /\ r.raised = q.raised /\ r.todo = q.todo
  BY <1>1, <1>2, <1>3 DEF DriftRequest
<1>7. ~Regressed(r)
  BY <1>1, <1>6 DEF Regressed
<1>8. DriftInv(r)'
  BY <1>1, <1>2, <1>6, <1>7 DEF DriftInv, OnFile, Regressed
<1> QED
  BY <1>1, <1>2, <1>4, <1>5, <1>6, <1>8, ClientStep

LEMMA SwallowStep ==
  ASSUME EstateInv, NEW c \in Clients, SwallowAlertFailure(c)
  PROVE  EstateInv'
<1> DEFINE q == request[c]
<1>1. /\ q # Absent /\ q.kind \in {"drift", "probe"} /\ q.at \in {"alert", "expiry"}
      /\ request' = [request EXCEPT ![c].at = "answer", ![c].swallowed = TRUE]
      /\ UNCHANGED <<scans, lastScan, snapshots, alerts>>
  BY DEF SwallowAlertFailure
<1>2. PICK r : r = [q EXCEPT !.at = "answer", !.swallowed = TRUE]
  OBVIOUS
<1>3. request' = [request EXCEPT ![c] = r] /\ alerts \subseteq Alert
  BY <1>1, <1>2 DEF EstateInv, EstateTypeOK
<1>4. CASE q.kind = "drift"
  <2>1. q \in DriftRequest /\ DriftInv(q)
    BY <1>1, <1>4, RequestIs
  <2>2. q.at = "alert" /\ r \in DriftRequest
    BY <1>1, <1>2, <2>1 DEF DriftRequest
  <2>3. /\ r.at = "answer" /\ r.old = q.old /\ r.new = q.new /\ r.kind = "drift"
        /\ r.from = q.from /\ r.to = q.to /\ r.target = q.target
        /\ r.raised = q.raised /\ r.todo = q.todo /\ r.swallowed
    BY <1>2, <2>1 DEF DriftRequest
  <2>4. DriftInv(r)'
    BY <1>1, <2>1, <2>2, <2>3 DEF DriftInv, OnFile
  <2> QED
    BY <1>1, <1>3, <2>2, <2>3, <2>4, ClientStep
<1>5. CASE q.kind = "probe"
  <2>1. q \in ProbeRequest /\ ProbeInv(q)
    BY <1>1, <1>5, RequestIs
  <2>2. /\ r \in ProbeRequest
        /\ r.at = "answer" /\ r.kind = "probe" /\ r.raised = q.raised /\ r.swallowed
    BY <1>2, <2>1 DEF ProbeRequest
  <2>3. ProbeInv(r)'
    BY <1>1, <2>1, <2>2 DEF ProbeInv, OnFile
  <2> QED
    BY <1>1, <1>3, <2>2, <2>3, ClientStep
<1> QED
  BY <1>1, <1>4, <1>5

(* A rule of a probe raises its alert if that is due, and goes on. *)
LEMMA RaiseIs ==
  ASSUME EstateInv, NEW c \in Clients, request[c] \in ProbeRequest, ProbeInv(request[c]),
         NEW due \in BOOLEAN, NEW alert \in Alert, NEW then \in {"expiry", "answer"},
         RaiseRow(c, due, alert, then)
  PROVE  \E r \in ProbeRequest :
           /\ request' = [request EXCEPT ![c] = r]
           /\ r.kind = "probe" /\ r.at = then /\ r.target = request[c].target
           /\ r.probe = request[c].probe /\ r.swallowed = request[c].swallowed
           /\ request[c].raised \subseteq r.raised
           /\ due => alert \in r.raised
           /\ \A a \in r.raised : OnFile(a)'
           /\ UNCHANGED <<scans, lastScan, snapshots>>
           /\ alerts' \subseteq Alert /\ \A a \in alerts : a \in alerts'
<1> DEFINE q == request[c]
           raised == IF due THEN q.raised \cup {alert} ELSE q.raised
<1>1. /\ alerts' = IF due THEN alerts \cup {alert} ELSE alerts
      /\ request' = [request EXCEPT ![c].at = then,
                                    ![c].raised = IF due THEN @ \cup {alert} ELSE @]
      /\ UNCHANGED <<scans, lastScan, snapshots>>
  BY DEF RaiseRow, dispatch_alert
<1>2. PICK r : r = [q EXCEPT !.at = then, !.raised = raised]
  OBVIOUS
<1>3. request' = [request EXCEPT ![c] = r]
  BY <1>1, <1>2 DEF EstateInv, EstateTypeOK
<1>4. raised \subseteq Alert
  BY DEF ProbeRequest
<1> HIDE DEF raised
<1>5. /\ r \in ProbeRequest
      /\ r.kind = "probe" /\ r.at = then /\ r.target = request[c].target
      /\ r.probe = request[c].probe /\ r.swallowed = request[c].swallowed
      /\ r.raised = raised
  BY <1>2, <1>4 DEF ProbeRequest
<1>6. alerts' \subseteq Alert /\ \A a \in alerts : a \in alerts'
  BY <1>1 DEF EstateInv, EstateTypeOK
<1>7. \A a \in raised : OnFile(a)'
  BY <1>1 DEF raised, ProbeInv, OnFile
<1>8. q.raised \subseteq raised /\ (due => alert \in raised)
  BY DEF raised
<1> QED
  BY <1>1, <1>3, <1>5, <1>6, <1>7, <1>8

LEMMA DowngradeStep ==
  ASSUME EstateInv, NEW c \in Clients, check_probe_downgrade(c)
  PROVE  EstateInv'
<1> DEFINE q == request[c]
           alert == AlertRow("probe-downgrade", q.target, Absent)
           then == IF q.probe.protocol = "tls" THEN "expiry" ELSE "answer"
<1>1. /\ q # Absent /\ q.kind = "probe" /\ q.at = "alert"
      /\ RaiseRow(c, q.probe.insecure, alert, then)
  BY DEF check_probe_downgrade, Asking
<1>2. q \in ProbeRequest /\ ProbeInv(q)
  BY <1>1, RequestIs
<1>3. /\ alert \in Alert /\ q.probe.insecure \in BOOLEAN
      /\ then = "answer" => ~q.probe.expiring
  BY <1>2, RowIs DEF ProbeRequest, AlertTypes, TLSProbe, SSHProbe
<1>4. then \in {"expiry", "answer"}
  OBVIOUS
<1> HIDE DEF alert, then
<1>5. PICK r \in ProbeRequest :
           /\ request' = [request EXCEPT ![c] = r]
           /\ r.kind = "probe" /\ r.at = then /\ r.target = q.target
           /\ r.probe = q.probe /\ r.swallowed = q.swallowed
           /\ q.raised \subseteq r.raised
           /\ q.probe.insecure => alert \in r.raised
           /\ \A a \in r.raised : OnFile(a)'
           /\ UNCHANGED <<scans, lastScan, snapshots>>
           /\ alerts' \subseteq Alert /\ \A a \in alerts : a \in alerts'
  BY <1>1, <1>2, <1>3, <1>4, RaiseIs
<1>6. ProbeInv(r)'
  BY <1>3, <1>5 DEF ProbeInv, alert
<1> QED
  BY <1>5, <1>6, ClientStep

LEMMA ExpiryStep ==
  ASSUME EstateInv, NEW c \in Clients, check_cert_expiring(c)
  PROVE  EstateInv'
<1> DEFINE q == request[c]
           alert == AlertRow("cert-expiring", q.target, Absent)
<1>1. /\ q # Absent /\ q.kind = "probe" /\ q.at = "expiry"
      /\ RaiseRow(c, q.probe.expiring, alert, "answer")
  BY DEF check_cert_expiring, Asking, Expires
<1>2. q \in ProbeRequest /\ ProbeInv(q)
  BY <1>1, RequestIs
<1>3. alert \in Alert /\ q.probe.expiring \in BOOLEAN
  BY <1>2, RowIs DEF ProbeRequest, AlertTypes, TLSProbe, SSHProbe
<1> HIDE DEF alert
<1>4. PICK r \in ProbeRequest :
           /\ request' = [request EXCEPT ![c] = r]
           /\ r.kind = "probe" /\ r.at = "answer" /\ r.target = q.target
           /\ r.probe = q.probe /\ r.swallowed = q.swallowed
           /\ q.raised \subseteq r.raised
           /\ q.probe.expiring => alert \in r.raised
           /\ \A a \in r.raised : OnFile(a)'
           /\ UNCHANGED <<scans, lastScan, snapshots>>
           /\ alerts' \subseteq Alert /\ \A a \in alerts : a \in alerts'
  BY <1>1, <1>2, <1>3, RaiseIs
<1>5. ProbeInv(r)'
  BY <1>1, <1>2, <1>4 DEF ProbeInv, alert
<1> QED
  BY <1>4, <1>5, ClientStep

LEMMA ProbeTargetStep ==
  ASSUME EstateInv, NEW c \in Clients, NEW p \in TLSProbe \cup SSHProbe, ProbeTarget(c, p)
  PROVE  EstateInv'
<1>1. PICK r : r = [kind |-> "probe", at |-> "alert", target |-> p.target, probe |-> p,
                    raised |-> {}, swallowed |-> FALSE]
  OBVIOUS
<1>2. /\ request' = [request EXCEPT ![c] = r]
      /\ UNCHANGED <<scans, lastScan, snapshots, alerts>>
  BY <1>1, Zenon DEF ProbeTarget
<1>3. alerts \subseteq Alert /\ p.target \in Targets
  BY DEF EstateInv, EstateTypeOK, TLSProbe, SSHProbe
<1>4. r \in ProbeRequest
  BY <1>1, <1>3 DEF ProbeRequest
<1>5. ProbeInv(r)' /\ r.kind = "probe"
  BY <1>1 DEF ProbeInv
<1> QED
  BY <1>2, <1>3, <1>4, <1>5, ClientStep

(* A request that is answered, or fails, is gone. *)
LEMMA EndStep ==
  ASSUME EstateInv, NEW c \in Clients, request' = [request EXCEPT ![c] = Absent],
         UNCHANGED <<scans, lastScan, snapshots, alerts>>
  PROVE  EstateInv'
<1>1. alerts \subseteq Alert
  BY DEF EstateInv, EstateTypeOK
<1> QED
  BY <1>1, ClientStep

LEMMA AskViewStep ==
  ASSUME EstateInv, NEW c \in Clients, AskView(c)
  PROVE  EstateInv'
<1> DEFINE none == [t \in {} |-> Absent]
<1>1. PICK r : r = [kind |-> "view", at |-> "certs", last |-> lastScan, of |-> none,
                    known |-> Len(scans)]
  OBVIOUS
<1>2. /\ request' = [request EXCEPT ![c] = r]
      /\ UNCHANGED <<scans, lastScan, snapshots, alerts>>
  BY <1>1, Zenon DEF AskView
<1>3. /\ alerts \subseteq Alert /\ lastScan \in LastScans
      /\ Len(scans) \in 0..MaxScans
  BY EstateAssumption DEF EstateInv, EstateTypeOK
<1>4. none \in UNION {[seen -> 1..MaxScans \cup {Absent}] : seen \in SUBSET Targets}
  <2>1. none \in [{} -> 1..MaxScans \cup {Absent}] /\ {} \in SUBSET Targets
    OBVIOUS
  <2> HIDE DEF none
  <2> QED
    BY <2>1
<1>5. DOMAIN none = {}
  OBVIOUS
<1> HIDE DEF none
<1>6. r \in ViewRequest
  BY <1>1, <1>3, <1>4 DEF ViewRequest
<1>7. ViewInv(r)'
  <2>1. \A t \in Targets : lastScan[t] # Absent => IsReportOf(lastScan[t], t)'
    BY <1>2 DEF EstateInv, ReportsInv, IsReportOf
  <2> QED
    BY <1>1, <1>2, <1>3, <1>5, <2>1 DEF ViewInv
<1>8. r.kind = "view"
  BY <1>1
<1> QED
  BY <1>2, <1>3, <1>6, <1>7, <1>8, ClientStep

(* The figures of a target that has no report come from a scan of its path.*)
LEMMA CertificateIs ==
  ASSUME EstateInv, NEW last, NEW t \in Targets, last[t] # Absent => IsReportOf(last[t], t)
  PROVE  LET i == CertificateFor(last, t)
         IN  /\ i = Absent => \A j \in DOMAIN scans :
                               scans[j].target = t => scans[j].registered
             /\ i # Absent => /\ i \in DOMAIN scans /\ scans[i].target = t
                              /\ last[t] = IF scans[i].registered THEN i ELSE Absent
<1>1. scans \in Seq(Scan) /\ Len(scans) <= MaxScans /\ DOMAIN scans = 1..Len(scans)
  BY DEF EstateInv, EstateTypeOK
<1>2. \A j \in DOMAIN scans : scans[j].registered \in BOOLEAN
  <2>1. \A j \in DOMAIN scans : scans[j] \in Scan
    BY <1>1
  <2> QED
    BY <2>1 DEF Scan
<1>3. Absent \notin DOMAIN scans
  BY <1>1, EstateAssumption
<1>4. CASE last[t] # Absent
  BY <1>4 DEF CertificateFor, IsReportOf
<1>5. CASE last[t] = Absent /\ ByPath(t) = {}
  <2>1. CertificateFor(last, t) = Absent
    BY <1>5 DEF CertificateFor
  <2> QED
    BY <1>2, <1>5, <2>1 DEF ByPath
<1>6. CASE last[t] = Absent /\ ByPath(t) # {}
  <2>1. ByPath(t) \in SUBSET Nat
    BY <1>1 DEF ByPath
  <2>2. Min(ByPath(t)) \in ByPath(t)
    BY <1>6, <2>1, LeastNumber DEF Min
  <2>3. CertificateFor(last, t) = Min(ByPath(t))
    BY <1>6 DEF CertificateFor
  <2> QED
    BY <1>3, <1>6, <2>2, <2>3 DEF ByPath
<1> QED
  BY <1>4, <1>5, <1>6

LEMMA ViewTargetStep ==
  ASSUME EstateInv, NEW c \in Clients, NEW t \in Targets, ViewTarget(c, t)
  PROVE  EstateInv'
<1> DEFINE q == request[c]
           with == [u \in DOMAIN q.of \cup {t} |->
                      IF u = t THEN CertificateFor(q.last, t) ELSE q.of[u]]
           then == IF DOMAIN with = Targets THEN "answer" ELSE q.at
<1>1. /\ q # Absent /\ q.kind = "view" /\ q.at = "certs" /\ t \notin DOMAIN q.of
      /\ request' = [request EXCEPT ![c].of = with,
                                    ![c].at = IF DOMAIN with = Targets THEN "answer" ELSE @]
      /\ UNCHANGED <<scans, lastScan, snapshots, alerts>>
  BY Zenon DEF ViewTarget, Asking
<1>2. q \in ViewRequest /\ ViewInv(q) /\ alerts \subseteq Alert
  BY <1>1, RequestIs DEF EstateInv, EstateTypeOK
<1>3. /\ scans \in Seq(Scan) /\ DOMAIN scans \subseteq 1..MaxScans
      /\ q.known \in Nat /\ 1..q.known \subseteq DOMAIN scans
  <2>1. Len(scans) \in Nat /\ Len(scans) <= MaxScans /\ scans \in Seq(Scan)
    BY DEF EstateInv, EstateTypeOK
  <2>2. DOMAIN scans = 1..Len(scans) /\ q.known \in 0..MaxScans /\ q.known <= Len(scans)
    BY <1>2, <2>1 DEF ViewRequest, ViewInv
  <2> QED
    BY <2>1, <2>2, EstateAssumption
<1>4. LET i == CertificateFor(q.last, t)
      IN  /\ i = Absent => \A j \in DOMAIN scans :
                               scans[j].target = t => scans[j].registered
          /\ i # Absent => /\ i \in DOMAIN scans /\ scans[i].target = t
                           /\ q.last[t] = IF scans[i].registered THEN i ELSE Absent
  <2>1. q.last[t] # Absent => IsReportOf(q.last[t], t)
    BY <1>2 DEF ViewInv
  <2> HIDE DEF q
  <2> QED
    BY <2>1, CertificateIs
<1>5. /\ DOMAIN with = DOMAIN q.of \cup {t}
      /\ with[t] = CertificateFor(q.last, t)
      /\ \A u \in DOMAIN q.of : u # t => with[u] = q.of[u]
  OBVIOUS
<1>6. with \in UNION {[seen -> 1..MaxScans \cup {Absent}] : seen \in SUBSET Targets}
  <2>1. PICK seen \in SUBSET Targets : q.of \in [seen -> 1..MaxScans \cup {Absent}]
    BY <1>2 DEF ViewRequest
  <2>2. CertificateFor(q.last, t) \in 1..MaxScans \cup {Absent}
    BY <1>3, <1>4
  <2>3. with \in [seen \cup {t} -> 1..MaxScans \cup {Absent}] /\ seen \cup {t} \in SUBSET Targets
    BY <2>1, <2>2
  <2> HIDE DEF with
  <2> QED
    BY <2>3
<1> HIDE DEF with
<1>7. PICK r : r = [q EXCEPT !.of = with, !.at = then]
  OBVIOUS
<1>8. request' = [request EXCEPT ![c] = r]
  BY <1>1, <1>7 DEF EstateInv, EstateTypeOK
<1>9. /\ r \in ViewRequest
      /\ r.kind = "view" /\ r.last = q.last /\ r.known = q.known /\ r.of = with
      /\ r.at = "answer" => DOMAIN with = Targets
  BY <1>1, <1>2, <1>6, <1>7 DEF ViewRequest
<1>10. ASSUME NEW u \in DOMAIN with
       PROVE  Grounded(r, u)'
  <2>1. CASE u = t
    BY <1>1, <1>3, <1>4, <1>5, <1>9, <2>1 DEF Grounded
  <2>2. CASE u # t
    <3>1. u \in DOMAIN q.of /\ with[u] = q.of[u] /\ Grounded(q, u)
      BY <1>2, <1>5, <2>2 DEF ViewInv
    <3> QED
      BY <1>1, <1>9, <3>1 DEF Grounded
  <2> QED
    BY <2>1, <2>2
<1>11. ViewInv(r)'
  BY <1>1, <1>2, <1>9, <1>10 DEF ViewInv, IsReportOf
<1> QED
  BY <1>1, <1>2, <1>8, <1>9, <1>11, ClientStep

(* Scans are concluded, reported and rescored, and alerts acknowledged,    *)
(* under the requests: all they rest on stays.                             *)
LEMMA EstateGrows ==
  ASSUME EstateInv, EstateTypeOK', ReportsInv', SnapshotsInv', UNCHANGED request,
         Len(scans) <= Len(scans'),
         \A i \in DOMAIN scans : scans'[i].target = scans[i].target
                               /\ scans'[i].registered = scans[i].registered,
         \A a \in Alert : OnFile(a) => OnFile(a)'
  PROVE  EstateInv'
<1>1. /\ Len(scans) \in Nat /\ DOMAIN scans = 1..Len(scans)
      /\ Len(scans') \in Nat /\ DOMAIN scans' = 1..Len(scans')
  BY DEF EstateInv, EstateTypeOK
<1>2. DOMAIN scans \subseteq DOMAIN scans'
  BY <1>1
<1>3. \A i, t : IsReportOf(i, t) => IsReportOf(i, t)'
  BY <1>2 DEF IsReportOf
<1>4. ASSUME NEW c \in Clients, request[c] # Absent
      PROVE  /\ request[c].kind = "drift" => DriftInv(request[c])'
             /\ request[c].kind = "probe" => ProbeInv(request[c])'
             /\ request[c].kind = "view" => ViewInv(request[c])'
  <2>1. PICK q : q = request[c]
    OBVIOUS
  <2>2. CASE q.kind = "drift"
    <3>1. DriftInv(q) /\ q.raised \subseteq Alert
      BY <1>4, <2>1, <2>2, RequestIs DEF DriftRequest
    <3>2. DriftInv(q)'
      BY <1>2, <3>1 DEF DriftInv
    <3> QED
      BY <2>1, <2>2, <3>2
  <2>3. CASE q.kind = "probe"
    <3>1. ProbeInv(q) /\ q.raised \subseteq Alert
      BY <1>4, <2>1, <2>3, RequestIs DEF ProbeRequest
    <3>2. ProbeInv(q)'
      BY <3>1 DEF ProbeInv
    <3> QED
      BY <2>1, <2>3, <3>2
  <2>4. CASE q.kind = "view"
    <3>1. ViewInv(q) /\ q.known \in Nat
      BY <1>4, <2>1, <2>4, RequestIs, EstateAssumption DEF ViewRequest
    <3>2. \A j \in 1..q.known : j \in DOMAIN scans
      BY <1>1, <3>1 DEF ViewInv
    <3>3. \A t : t \in DOMAIN q.of => Grounded(q, t)'
      BY <1>2, <3>1, <3>2 DEF ViewInv, Grounded
    <3>4. q.known <= Len(scans')
      BY <1>1, <3>1 DEF ViewInv
    <3>5. ViewInv(q)'
      BY <1>3, <3>1, <3>3, <3>4 DEF ViewInv
    <3> QED
      BY <2>1, <2>4, <3>5
  <2> QED
    BY <1>4, <2>1, <2>2, <2>3, <2>4, RequestIs
<1>5. RequestInv'
  BY <1>4 DEF RequestInv
<1> QED
  BY <1>5 DEF EstateInv

LEMMA ConcludeStep ==
  ASSUME EstateInv, NEW t \in Targets, NEW registered \in BOOLEAN,
         ConcludeScan(t, registered)
  PROVE  EstateInv'
<1>1. PICK s : /\ s \in Scan /\ scans' = Append(scans, s) /\ s.reported = FALSE
               /\ Len(scans) < MaxScans
               /\ UNCHANGED <<lastScan, snapshots, alerts, request>>
  <2>1. PICK bag \in Inventories :
          scans' = Append(scans, [target |-> t, registered |-> registered,
                     reported |-> FALSE, found |-> bag, z |-> Default])
    BY DEF ConcludeScan
  <2>2. [target |-> t, registered |-> registered, reported |-> FALSE,
         found |-> bag, z |-> Default] \in Scan
    BY EstateAssumption DEF Scan
  <2> QED
    BY <2>1, <2>2 DEF ConcludeScan
<1>2. scans \in Seq(Scan) /\ Len(scans) \in Nat /\ DOMAIN scans = 1..Len(scans)
  BY DEF EstateInv, EstateTypeOK
<1>3. /\ scans' \in Seq(Scan) /\ Len(scans') = Len(scans) + 1
      /\ DOMAIN scans' = 1..(Len(scans) + 1)
      /\ \A i \in 1..Len(scans) : scans'[i] = scans[i]
  BY <1>1, <1>2
<1>4. EstateTypeOK'
  <2>1. Len(scans') <= MaxScans
    BY <1>1, <1>2, <1>3, EstateAssumption
  <2> QED
    BY <1>1, <1>3, <2>1 DEF EstateInv, EstateTypeOK
<1>5. ReportsInv'
  BY <1>1, <1>2, <1>3 DEF EstateInv, ReportsInv, IsReportOf
<1>6. \A a \in Alert : OnFile(a) => OnFile(a)'
  BY <1>1 DEF OnFile
<1>7. Len(scans) <= Len(scans')
  BY <1>2, <1>3
<1>8. SnapshotsInv'
  <2>1. scans'[Len(scans) + 1] = s
    BY <1>1, <1>2
  <2>2. \A j : j \in Reported' <=> j \in Reported
    <3> TAKE j
    <3>1. CASE j = Len(scans) + 1
      BY <1>1, <1>2, <2>1, <3>1 DEF Reported
    <3>2. CASE j # Len(scans) + 1
      <4>1. j \in DOMAIN scans' <=> j \in DOMAIN scans
        BY <1>2, <1>3, <3>2
      <4>2. j \in DOMAIN scans => scans'[j] = scans[j]
        BY <1>2, <1>3
      <4> QED
        BY <4>1, <4>2 DEF Reported
    <3> QED
      BY <3>1, <3>2
  <2>3. Reported' = Reported
    BY <2>2 DEF Reported
  <2> QED
    BY <1>1, <1>2, <1>3, <2>3, SnapshotsStay DEF EstateInv, Reported
<1> QED
  BY <1>1, <1>2, <1>3, <1>4, <1>5, <1>6, <1>7, <1>8, EstateGrows

LEMMA ReportStep ==
  ASSUME EstateInv, NEW i \in DOMAIN scans, ReportScan(i)
  PROVE  EstateInv'
<1> DEFINE s == scans[i]
           new == [s EXCEPT !.reported = TRUE]
<1>1. /\ s.registered
      /\ scans' = [scans EXCEPT ![i] = new]
      /\ lastScan' = [lastScan EXCEPT ![s.target] = i]
      /\ snapshots' = snapshots \cup {SnapshotOf(i)}
      /\ UNCHANGED <<alerts, request>>
  BY DEF ReportScan
<1>2. /\ scans \in Seq(Scan) /\ Len(scans) \in Nat /\ Len(scans) <= MaxScans
      /\ DOMAIN scans = 1..Len(scans) /\ s \in Scan
  BY DEF EstateInv, EstateTypeOK
<1>3. s.target \in Targets /\ i \in 1..MaxScans
  BY <1>2, EstateAssumption DEF Scan
<1>4. SnapshotOf(i) \in Snapshot
  BY <1>2, <1>3, SnapshotIs
<1>5. /\ scans' \in Seq(Scan) /\ Len(scans') = Len(scans)
      /\ DOMAIN scans' = DOMAIN scans
      /\ \A j \in DOMAIN scans : /\ scans'[j].target = scans[j].target
                                 /\ scans'[j].registered = scans[j].registered
                                 /\ scans'[j].found = scans[j].found
                                 /\ scans'[j].reported <=> j = i \/ scans[j].reported
  <2>1. /\ new \in Scan /\ new.target = s.target /\ new.registered = s.registered
        /\ new.found = s.found /\ new.reported
    BY <1>2 DEF Scan
  <2> HIDE DEF new
  <2>2. \A j \in DOMAIN scans : scans'[j] = IF j = i THEN new ELSE scans[j]
    BY <1>1
  <2>3. DOMAIN scans' = DOMAIN scans /\ scans' \in [1..Len(scans) -> Scan]
    BY <1>1, <1>2, <2>1
  <2> QED
    BY <1>2, <2>1, <2>2, <2>3
<1>6. EstateTypeOK'
  BY <1>1, <1>2, <1>3, <1>4, <1>5 DEF EstateInv, EstateTypeOK, LastScans
<1>7. ReportsInv'
  <2>1. \A t \in Targets : lastScan'[t] = IF t = s.target THEN i ELSE lastScan[t]
    BY <1>1 DEF EstateInv, EstateTypeOK, LastScans
  <2>2. \A t \in Targets : lastScan[t] # Absent => IsReportOf(lastScan[t], t)
    BY DEF EstateInv, ReportsInv
  <2>3. ASSUME NEW t \in Targets, lastScan'[t] # Absent
        PROVE  IsReportOf(lastScan[t], t)'
    BY <1>1, <1>5, <2>1, <2>2, <2>3 DEF IsReportOf
  <2> QED
    BY <2>3 DEF ReportsInv
<1>8. SnapshotsInv'
  <2>1. Reported' = Reported \cup {i}
    BY <1>5 DEF Reported
  <2>2. \A j \in Reported \cup {i} : SnapshotOf(j)' = SnapshotOf(j)
    BY <1>5, SnapshotStays DEF Reported
  <2> QED
    BY <1>1, <2>1, <2>2 DEF EstateInv, SnapshotsInv
<1>9. \A a \in Alert : OnFile(a) => OnFile(a)'
  BY <1>1 DEF OnFile
<1> QED
  BY <1>1, <1>2, <1>8, <1>5, <1>6, <1>7, <1>9, EstateGrows

LEMMA RescoreStep ==
  ASSUME EstateInv, NEW i \in DOMAIN scans, NEW z \in Horizons, Rescore(i, z)
  PROVE  EstateInv'
<1> DEFINE s == scans[i]
           new == [s EXCEPT !.z = z]
<1>1. scans' = [scans EXCEPT ![i] = new] /\ UNCHANGED <<lastScan, snapshots, alerts, request>>
  BY DEF Rescore
<1>2. /\ scans \in Seq(Scan) /\ Len(scans) \in Nat /\ Len(scans) <= MaxScans
      /\ DOMAIN scans = 1..Len(scans) /\ s \in Scan
  BY DEF EstateInv, EstateTypeOK
<1>3. /\ new \in Scan /\ new.target = s.target /\ new.registered = s.registered
      /\ new.found = s.found /\ new.reported = s.reported
  BY <1>2 DEF Scan
<1> HIDE DEF new
<1>4. /\ scans' \in Seq(Scan) /\ Len(scans') = Len(scans)
      /\ DOMAIN scans' = DOMAIN scans
      /\ \A j \in DOMAIN scans : /\ scans'[j].target = scans[j].target
                                 /\ scans'[j].registered = scans[j].registered
                                 /\ scans'[j].found = scans[j].found
                                 /\ scans'[j].reported = scans[j].reported
  <2>1. \A j \in DOMAIN scans : scans'[j] = IF j = i THEN new ELSE scans[j]
    BY <1>1
  <2>2. DOMAIN scans' = DOMAIN scans /\ scans' \in [1..Len(scans) -> Scan]
    BY <1>1, <1>2, <1>3
  <2> QED
    BY <1>2, <1>3, <2>1, <2>2
<1>5. EstateTypeOK'
  BY <1>1, <1>2, <1>4 DEF EstateInv, EstateTypeOK
<1>6. ReportsInv'
  BY <1>1, <1>4 DEF EstateInv, ReportsInv, IsReportOf
<1>7. \A a \in Alert : OnFile(a) => OnFile(a)'
  BY <1>1 DEF OnFile
<1>8. SnapshotsInv'
  <2>1. Reported' = Reported
    BY <1>4 DEF Reported
  <2> QED
    BY <1>1, <1>4, <2>1, SnapshotsStay DEF EstateInv, Reported
<1> QED
  BY <1>1, <1>2, <1>4, <1>5, <1>6, <1>7, <1>8, EstateGrows

LEMMA AcknowledgeStep ==
  ASSUME EstateInv, NEW a \in alerts, acknowledge_alert(a)
  PROVE  EstateInv'
<1> DEFINE Known(x) == [x EXCEPT !.acknowledged = TRUE]
<1>1. /\ alerts' = (alerts \ {a}) \cup {Known(a)}
      /\ UNCHANGED <<scans, lastScan, snapshots, request>>
  BY DEF acknowledge_alert
<1>2. a \in Alert
  BY DEF EstateInv, EstateTypeOK
<1>3. \A x \in Alert : Known(x) \in Alert /\ Known(Known(x)) = Known(x)
  BY DEF Alert
<1>4. EstateTypeOK'
  BY <1>1, <1>2, <1>3 DEF EstateInv, EstateTypeOK
<1>5. ReportsInv'
  BY <1>1 DEF EstateInv, ReportsInv, IsReportOf
<1>6. ASSUME NEW x \in Alert, OnFile(x)
      PROVE  OnFile(x)'
  <2> HIDE DEF Known
  <2>1. x \in alerts \/ Known(x) \in alerts
    BY <1>6 DEF OnFile, Known
  <2>2. x \in alerts' \/ Known(x) \in alerts'
    BY <1>1, <1>3, <2>1
  <2> QED
    BY <2>2 DEF OnFile, Known
<1>7. Len(scans) <= Len(scans')
  BY <1>1 DEF EstateInv, EstateTypeOK
<1>8. SnapshotsInv'
  BY <1>1, SnapshotsStay DEF EstateInv, Reported
<1> QED
  BY <1>1, <1>4, <1>5, <1>6, <1>7, <1>8, EstateGrows

LEMMA ServeStep ==
  ASSUME EstateInv, NEW c \in Clients, Serve(c)
  PROVE  EstateInv'
<1>1. CASE \E from, to \in snapshots : AskDrift(c, from, to)
  BY <1>1, AskDriftStep
<1>2. CASE ListOldFindings(c)
  BY <1>2, ListOldStep
<1>3. CASE ListNewFindings(c)
  BY <1>3, ListNewStep
<1>4. CASE AlertAdded(c)
  BY <1>4, AlertAddedStep
<1>5. CASE AlertRegression(c)
  BY <1>5, AlertRegressionStep
<1>6. CASE DriftDone(c)
  BY <1>6, DriftDoneStep
<1>7. CASE SwallowAlertFailure(c)
  BY <1>7, SwallowStep
<1>8. CASE \E p \in TLSProbe \cup SSHProbe : ProbeTarget(c, p)
  BY <1>8, ProbeTargetStep
<1>9. CASE ReconcileFails(c) \/ Answer(c)
  BY <1>9, EndStep DEF ReconcileFails, Answer
<1>10. CASE check_probe_downgrade(c)
  BY <1>10, DowngradeStep
<1>11. CASE check_cert_expiring(c)
  BY <1>11, ExpiryStep
<1>12. CASE AskView(c)
  BY <1>12, AskViewStep
<1>13. CASE \E t \in Targets : ViewTarget(c, t)
  BY <1>13, ViewTargetStep
<1> QED
  BY <1>1, <1>2, <1>3, <1>4, <1>5, <1>6, <1>7, <1>8, <1>9, <1>10, <1>11, <1>12, <1>13
     DEF Serve

LEMMA EstateStep == EstateInv /\ [EstateNext]_estateVars => EstateInv'
<1> SUFFICES ASSUME EstateInv, [EstateNext]_estateVars
             PROVE  EstateInv'
  OBVIOUS
<1>1. CASE UNCHANGED estateVars
  <2>1. UNCHANGED <<scans, lastScan, snapshots, alerts, request>>
    BY <1>1 DEF estateVars
  <2>2. EstateTypeOK' /\ ReportsInv'
    BY <2>1 DEF EstateInv, EstateTypeOK, ReportsInv, IsReportOf
  <2>3. SnapshotsInv'
    BY <2>1, SnapshotsStay DEF EstateInv, Reported
  <2>4. \A a \in Alert : OnFile(a) => OnFile(a)'
    BY <2>1 DEF OnFile
  <2>5. Len(scans) <= Len(scans')
    BY <2>1 DEF EstateInv, EstateTypeOK
  <2> QED
    BY <2>1, <2>2, <2>3, <2>4, <2>5, EstateGrows
<1>2. CASE \E t \in Targets, registered \in BOOLEAN : ConcludeScan(t, registered)
  BY <1>2, ConcludeStep
<1>3. CASE \E i \in DOMAIN scans : ReportScan(i)
  BY <1>3, ReportStep
<1>4. CASE \E i \in DOMAIN scans, z \in Horizons : Rescore(i, z)
  BY <1>4, RescoreStep
<1>5. CASE \E a \in alerts : acknowledge_alert(a)
  BY <1>5, AcknowledgeStep
<1>6. CASE \E c \in Clients : Serve(c)
  BY <1>6, ServeStep
<1> QED
  BY <1>1, <1>2, <1>3, <1>4, <1>5, <1>6 DEF EstateNext

(* What every request has read, raised and taken its figures from, however *)
(* requests, scans, rescores and acknowledgements interleave.              *)
THEOREM EstateInvariant == EstateSpec => []EstateInv
BY EstateStart, EstateStep, PTL DEF EstateSpec

(* check_drift_alerts and the probe rules: what was worth an alert when a  *)
(* request saw it has its alert row by the time the request is answered.   *)
THEOREM AlertsAreNotSilent == EstateSpec => []AlertsNotSilent
<1>1. EstateInv => AlertsNotSilent
  <2> SUFFICES ASSUME EstateInv, NEW c \in Clients,
                      request[c] # Absent, request[c].at = "answer",
                      request[c].kind \in {"drift", "probe"}, ~request[c].swallowed
               PROVE  LET r == request[c]
                          has(type, f) == \E a \in r.raised :
                            /\ a.type = type /\ a.finding \in f
                            /\ a \in alerts \/ [a EXCEPT !.acknowledged = TRUE] \in alerts
                      IN  IF r.kind = "drift"
                          THEN /\ \A f \in Criticals(r.new, Added(r.old, r.new)) : has("drift", {f})
                               /\ RiskSum(r.new) > RiskSum(r.old) => has("drift", Findings \cup {Absent})
                          ELSE /\ r.probe.insecure => has("probe-downgrade", {Absent})
                               /\ r.probe.expiring => has("cert-expiring", {Absent})
    BY DEF AlertsNotSilent
  <2> DEFINE r == request[c]
             Has(type, f) == \E a \in r.raised :
                               a.type = type /\ a.finding \in f /\ OnFile(a)
  <2>1. \A type, t, f : /\ AlertRow(type, t, f).type = type
                        /\ AlertRow(type, t, f).finding = f
    BY DEF AlertRow
  <2>2. CASE r.kind = "drift"
    <3>1. r \in DriftRequest /\ DriftInv(r)
      BY <2>2, RequestIs
    <3>2. /\ r.old \in Reading /\ r.new \in Reading /\ r.todo = {} /\ ~Regressed(r)
          /\ \A a \in r.raised : /\ OnFile(a) /\ a.type = "drift"
                                 /\ a.finding \in Findings \cup {Absent}
          /\ \A f \in Criticals(r.new, Added(r.old, r.new)) :
               AlertRow("drift", r.target, f) \in r.raised
      BY <3>1 DEF DriftInv, DriftRequest, Alert
    <3>3. \A f \in Criticals(r.new, Added(r.old, r.new)) : Has("drift", {f})
      BY <2>1, <3>2
    <3>4. ASSUME RiskSum(r.new) > RiskSum(r.old)
          PROVE  Has("drift", Findings \cup {Absent})
      <4>1. netRiskDelta(r.old, r.new) > 0
        BY <3>2, <3>4, NetRiskIs DEF netRiskDelta
      <4>2. r.raised # {}
        BY <3>2, <4>1 DEF Regressed
      <4> QED
        BY <3>2, <4>2
    <3> QED
      BY <2>2, <3>3, <3>4 DEF OnFile
  <2>3. CASE r.kind = "probe"
    <3>1. ProbeInv(r)
      BY <2>3, RequestIs
    <3>2. /\ r.probe.insecure => Has("probe-downgrade", {Absent})
          /\ r.probe.expiring => Has("cert-expiring", {Absent})
      BY <2>1, <3>1 DEF ProbeInv
    <3> QED
      BY <2>3, <3>2 DEF OnFile
  <2> QED
    BY <2>2, <2>3
<1> QED
  BY <1>1, EstateInvariant, PTL

(* calculate_drift: a net risk that rose has its reasons in the lists of   *)
(* the same drift, in a horizon, or in findings that share an identity.    *)
THEOREM RegressionsAreExplained == EstateSpec => []RegressionExplained
<1>1. EstateInv => RegressionExplained
  <2> SUFFICES ASSUME EstateInv, NEW c \in Clients, request[c] # Absent,
                      request[c].kind = "drift", request[c].at \in {"alert", "answer"},
                      netRiskDelta(request[c].old, request[c].new) > 0
               PROVE  LET r == request[c]
                      IN  \/ Added(r.old, r.new) # {}
                          \/ r.old.z # r.new.z
                          \/ \E f \in Findings : r.old.found[f] > 1 \/ r.new.found[f] > 1
    BY DEF RegressionExplained
  <2>1. request[c] \in DriftRequest /\ DriftInv(request[c])
    BY RequestIs
  <2>2. request[c].old \in Reading /\ request[c].new \in Reading
    BY <2>1 DEF DriftInv
  <2> QED
    BY <2>2, NetRiskIs
<1> QED
  BY <1>1, EstateInvariant, PTL

(* get_estate_coverage: the figures of a target come from the last scan    *)
(* reported before the request, or a scan of its path, or nothing.         *)
THEOREM ViewsAreGrounded == EstateSpec => []ViewGrounded
<1>1. EstateInv => ViewGrounded
  <2> SUFFICES ASSUME EstateInv, NEW c \in Clients, request[c] # Absent,
                      request[c].kind = "view", request[c].at = "answer", NEW t \in Targets
               PROVE  LET r == request[c]
                          i == r.of[t]
                          before == {j \in 1..r.known : scans[j].target = t}
                      IN  /\ i = Absent => /\ \A j \in before : scans[j].registered
                                           /\ CertifiedMass(i) = 100
                          /\ i # Absent => /\ scans[i].target = t
                                           /\ scans[i].registered => i = r.last[t]
                                           /\ ~scans[i].registered => r.last[t] = Absent
    BY DEF ViewGrounded
  <2>1. Grounded(request[c], t)
    BY RequestIs DEF ViewInv
  <2>2. CertifiedMass(Absent) = 100
    BY DEF CertifiedMass
  <2> QED
    BY <2>1, <2>2 DEF Grounded
<1> QED
  BY <1>1, EstateInvariant, PTL
-----------------------------------------------------------------------------
(* The figures of the estate views *)

(* What division leaves over is less than the divisor. *)
LEMMA DivisionLeaves ==
  ASSUME NEW n \in Nat, NEW m \in Nat \ {0}
  PROVE  n \div m \in Nat /\ m * (n \div m) <= n /\ n < m * (n \div m) + m
OBVIOUS

(* Division keeps the order, and a bound that the divisor multiplies.      *)
LEMMA DivisionGrows ==
  ASSUME NEW a \in Nat, NEW b \in Nat, NEW m \in Nat \ {0}, a <= b
  PROVE  a \div m <= b \div m
<1> DEFINE p == a \div m
           q == b \div m
<1>1. p \in Nat /\ q \in Nat /\ m * p <= a /\ b < m * q + m
  BY DivisionLeaves
<1> HIDE DEF p, q
<1>2. ASSUME p > q
      PROVE  FALSE
  <2>1. PICK d \in Nat : p = (q + 1) + d
    <3>1. p - (q + 1) \in Nat /\ p = (q + 1) + (p - (q + 1))
      BY <1>1, <1>2
    <3> QED
      BY <3>1
  <2>2. m * ((q + 1) + d) = m * q + m + m * d
    BY <1>1
  <2>3. m * d \in Nat /\ m * q \in Nat
    BY <1>1
  <2> QED
    BY <1>1, <2>1, <2>2, <2>3
<1> QED
  BY <1>1, <1>2 DEF p, q

LEMMA DivisionBounded ==
  ASSUME NEW a \in Nat, NEW m \in Nat \ {0}, a <= 80 * m
  PROVE  a \div m \in 0..80
<1>1. a \div m \in Nat /\ m * (a \div m) <= a
  BY DivisionLeaves
<1>2. ASSUME a \div m > 80
      PROVE  FALSE
  <2>1. a \div m - 81 \in Nat /\ a \div m = 81 + (a \div m - 81)
    BY <1>1, <1>2
  <2>2. PICK d \in Nat : a \div m = 81 + d
    BY <2>1
  <2>3. m * (81 + d) = 81 * m + m * d /\ m * d \in Nat
    OBVIOUS
  <2> QED
    BY <1>1, <2>2, <2>3
<1> QED
  BY <1>1, <1>2

(* An average of numbers up to 80 is one. *)
LEMMA AverageIs ==
  ASSUME NEW S, IsFiniteSet(S), S # {}, NEW g, \A x \in S : g[x] \in 0..80
  PROVE  SumFunctionOnSet(g, S) \div Cardinality(S) \in 0..80
<1> DEFINE G == Sums(g, S)
           Fine(s) == G[s] \in Nat /\ G[s] <= 80 * Cardinality(s)
           Good == {n \in Nat : \A s \in SUBSET S : Cardinality(s) = n => Fine(s)}
<1>1. \A s \in SUBSET S : G[s] = IF s = {} THEN 0 ELSE g[Taken(s)] + G[Rest(s)]
  BY SumsUnfolds
<1> HIDE DEF G
<1>2. 0 \in Good
  <2> SUFFICES ASSUME NEW s \in SUBSET S, Cardinality(s) = 0
               PROVE  Fine(s)
    OBVIOUS
  <2>1. s = {}
    BY PartIs
  <2> QED
    BY <1>1, <2>1
<1>3. ASSUME NEW n \in Nat, n \in Good
      PROVE  n + 1 \in Good
  <2> SUFFICES ASSUME NEW s \in SUBSET S, Cardinality(s) = n + 1
               PROVE  Fine(s)
    BY <1>3
  <2>1. s # {}
    BY PartIs
  <2>2. /\ Taken(s) \in S /\ Rest(s) \in SUBSET S
        /\ Cardinality(Rest(s)) = n
    BY <2>1, PartIs
  <2>3. G[Rest(s)] \in Nat /\ G[Rest(s)] <= 80 * n
    BY <1>3, <2>2
  <2>4. G[s] = g[Taken(s)] + G[Rest(s)] /\ g[Taken(s)] \in 0..80
    BY <1>1, <2>1, <2>2
  <2> QED
    BY <2>3, <2>4
<1>4. Cardinality(S) \in Nat /\ Cardinality(S) # 0
  BY FS_CardinalityType, FS_EmptySet
<1>5. Cardinality(S) \in Good
  <2> HIDE DEF Good
  <2> QED
    BY <1>2, <1>3, <1>4, Induction
<1>6. Fine(S)
  BY <1>5
<1> QED
  BY <1>4, <1>6, SumIs, DivisionBounded DEF G

(* What a finding counts for: critical and ready exclude each other, and   *)
(* only a score that was rounded up to 60 makes one critical that the      *)
(* snapshots do not count.                                                 *)
LEMMA CriticalsAre ==
  ASSUME NEW r, r.z \in Horizons
  PROVE  /\ Criticals(r, Findings) \cap Ready(r) = {}
         /\ Criticals(r, Findings) \in SUBSET Findings /\ Ready(r) \in SUBSET Findings
         /\ {f \in Findings : Band(r, f) = "critical"} \in SUBSET Criticals(r, Findings)
         /\ \A f \in Criticals(r, Findings) : Band(r, f) = "critical" \/ Score(r, f) = 60
<1>1. ASSUME NEW f \in Findings
      PROVE  /\ Score(r, f) \in 0..100
             /\ Band(r, f) = "critical" => Score(r, f) >= 60
             /\ Score(r, f) >= 60 => Band(r, f) = "critical" \/ Score(r, f) = 60
  <2>1. f.shape \in Shapes /\ r.z \in Horizons
    BY DEF Findings
  <2>2. Score(r, f) \in 0..100
    BY <2>1, EstateAssumption DEF Score
  <2>3. \/ Band(r, f) = band_for_score(Score(r, f))
        \/ Score(r, f) \in {60, 35, 15} /\ Band(r, f) = band_for_score(Score(r, f) - 1)
    BY <2>1, BandsAssumption DEF Band, Score
  <2> QED
    BY <2>2, <2>3 DEF band_for_score
<1> QED
  BY <1>1 DEF Criticals, Ready

(* The critical and the high findings of a snapshot are among all of them. *)
LEMMA SnapshotCounts ==
  ASSUME EstateInv, NEW x \in snapshots
  PROVE  /\ x.total \in Nat /\ x.bands["critical"] \in Nat /\ x.bands["high"] \in Nat
         /\ x.bands["critical"] + x.bands["high"] <= x.total
<1>1. PICK i \in Reported : x = SnapshotOf(i)
  BY DEF EstateInv, SnapshotsInv
<1> DEFINE bag == scans[i].found
           r == [found |-> bag, z |-> Default]
           In(b) == {f \in Findings : Band(r, f) = b}
<1>2. bag \in [Findings -> Nat]
  <2>1. scans[i] \in Scan
    BY DEF EstateInv, EstateTypeOK, Reported
  <2> QED
    BY <2>1, EstateAssumption DEF Scan
<1>3. /\ x.total = SumFunctionOnSet(bag, Findings)
      /\ \A b \in Bands : x.bands[b] = SumFunctionOnSet(bag, In(b))
  BY <1>1 DEF SnapshotOf, Total, CountIn
<1>4. In("critical") \in SUBSET Findings /\ In("high") \in SUBSET Findings
      /\ In("critical") \cap In("high") = {}
  OBVIOUS
<1> HIDE DEF bag, In
<1>5. /\ SumFunctionOnSet(bag, Findings) \in Nat
      /\ SumFunctionOnSet(bag, In("critical")) \in Nat
      /\ SumFunctionOnSet(bag, In("high")) \in Nat
  BY <1>2, <1>4, CountIs
<1>6. SumFunctionOnSet(bag, In("critical")) + SumFunctionOnSet(bag, In("high"))
        <= SumFunctionOnSet(bag, Findings)
  BY <1>2, <1>4, FindingsAreFinite, PartsOfASum
<1> QED
  BY <1>3, <1>5, <1>6 DEF Bands

LEMMA SnapshotScoreIs ==
  ASSUME EstateInv, NEW x \in snapshots
  PROVE  SnapshotScore(x) \in 0..80
<1> DEFINE m == IF x.total > 1 THEN x.total ELSE 1
<1>1. /\ x.total \in Nat /\ x.bands["critical"] \in Nat /\ x.bands["high"] \in Nat
      /\ x.bands["critical"] + x.bands["high"] <= x.total
  BY SnapshotCounts
<1>2. m \in Nat \ {0} /\ x.total <= m
  BY <1>1
<1> HIDE DEF m
<1>3. Weighted(x) \in Nat /\ Weighted(x) <= 80 * m
  BY <1>1, <1>2 DEF Weighted
<1> QED
  BY <1>2, <1>3, DivisionBounded DEF SnapshotScore, m

LEMMA TrendIs ==
  ASSUME EstateInv, NEW day \in SUBSET snapshots, IsFiniteSet(snapshots)
  PROVE  /\ TrendPoint(day).avgRiskScore \in 0..80
         /\ TrendPoint(day).criticalCount <= TrendPoint(day).totalFindings
<1>1. CASE day = {}
  BY <1>1 DEF TrendPoint
<1>2. CASE day # {}
  <2>1. IsFiniteSet(day) /\ Cardinality(day) \in Nat \ {0}
    BY <1>2, FS_Subset, FS_CardinalityType, FS_EmptySet
  <2>2. AvgScore(day) \in 0..80
    <3> DEFINE g == [x \in day |-> SnapshotScore(x)]
    <3>1. \A x \in day : g[x] \in 0..80
      BY SnapshotScoreIs
    <3> HIDE DEF g
    <3>2. SumFunctionOnSet(g, day) \div Cardinality(day) \in 0..80
      BY <1>2, <2>1, <3>1, AverageIs
    <3> QED
      BY <3>2 DEF AvgScore, g
  <2>3. CriticalsOf(day) \in Nat /\ Totals(day) \in Nat /\ CriticalsOf(day) <= Totals(day)
    <3> DEFINE g == [x \in day |-> x.bands["critical"]]
               h == [x \in day |-> x.total]
    <3>1. \A x \in day : g[x] \in Nat /\ h[x] \in Nat /\ g[x] <= h[x]
      <4> TAKE x \in day
      <4>1. /\ x.total \in Nat /\ x.bands["critical"] \in Nat /\ x.bands["high"] \in Nat
            /\ x.bands["critical"] + x.bands["high"] <= x.total
        BY SnapshotCounts
      <4> QED
        BY <4>1
    <3> HIDE DEF g, h
    <3>2. /\ SumFunctionOnSet(g, day) \in Nat
          /\ SumFunctionOnSet(h, day) \in Nat
          /\ SumFunctionOnSet(g, day) <= SumFunctionOnSet(h, day)
      <4>1. \A x \in day : /\ g[x] \in Int /\ h[x] \in Int /\ g[x] <= h[x]
                           /\ g[x] >= 0 /\ h[x] >= 0 /\ h[x] <= h[x]
        BY <3>1
      <4> QED
        BY <2>1, <4>1, SumsGrow
    <3> QED
      BY <3>2 DEF CriticalsOf, Totals, g, h
  <2>4. CriticalsOf(day) \div Cardinality(day) <= Totals(day) \div Cardinality(day)
    BY <2>1, <2>3, DivisionGrows
  <2> QED
    BY <1>2, <2>2, <2>4 DEF TrendPoint
<1> QED
  BY <1>1, <1>2

(* The scans are finitely many, and so are their snapshots. *)
LEMMA ScansAreFinite ==
  ASSUME EstateInv
  PROVE  IsFiniteSet(DOMAIN scans) /\ IsFiniteSet(snapshots)
<1>1. DOMAIN scans = 1..Len(scans) /\ Len(scans) \in Nat
  BY DEF EstateInv, EstateTypeOK
<1>2. IsFiniteSet(DOMAIN scans)
  BY <1>1, FS_Interval
<1>3. IsFiniteSet(Reported)
  BY <1>2, FS_Subset DEF Reported
<1>4. [i \in Reported |-> SnapshotOf(i)] \in Surjection(Reported, snapshots)
  BY DEF Surjection, EstateInv, SnapshotsInv
<1> QED
  BY <1>2, <1>3, <1>4, FS_Surjection

LEMMA ScanIs ==
  ASSUME EstateInv, NEW i \in DOMAIN scans
  PROVE  scans[i].found \in [Findings -> Nat] /\ scans[i].z \in Horizons
<1>1. scans[i] \in Scan
  BY DEF EstateInv, EstateTypeOK
<1> QED
  BY <1>1, EstateAssumption DEF Scan

(* Each reported scan has one snapshot. *)
LEMMA SnapshotsSumUp ==
  ASSUME EstateInv, \A i \in DOMAIN scans : scans[i].reported,
         NEW f, NEW g, \A i \in DOMAIN scans : g[i] \in Int /\ f[SnapshotOf(i)] = g[i]
  PROVE  SumFunctionOnSet(f, snapshots) = SumFunctionOnSet(g, DOMAIN scans)
<1> DEFINE all == DOMAIN scans
           b == [i \in all |-> SnapshotOf(i)]
<1>1. IsFiniteSet(all)
  BY ScansAreFinite
<1>2. Reported = all
  BY DEF Reported
<1>3. \A y : y \in snapshots <=> \E i \in all : b[i] = y
  <2>1. snapshots = {SnapshotOf(i) : i \in all}
    BY <1>2 DEF EstateInv, SnapshotsInv
  <2> QED
    BY <2>1
<1>4. \A i, j \in all : b[i] = b[j] => i = j
  <2>1. \A i \in all : b[i].scan = i
    BY DEF SnapshotOf
  <2> QED
    BY <2>1
<1>5. \A i \in all : g[i] \in Int /\ f[b[i]] = g[i]
  OBVIOUS
<1> HIDE DEF all, b
<1>6. SumFunctionOnSet(f, snapshots) = SumFunctionOnSet(g, all)
  BY ONLY <1>1, <1>3, <1>4, <1>5, SumThroughABijection
<1> QED
  BY <1>6 DEF all

(* The figures agree with each other, however the scans were rescored.     *)
THEOREM FiguresDoAgree == EstateSpec => []FiguresAgree
<1>1. EstateInv => FiguresAgree
  <2> SUFFICES ASSUME EstateInv
               PROVE  FiguresAgree
    OBVIOUS
  <2> DEFINE all == DOMAIN scans
             total == [i \in all |-> Total(scans[i])]
             worst == [i \in all |-> SumFunctionOnSet(scans[i].found, Criticals(scans[i], Findings))]
             ready == [i \in all |-> SumFunctionOnSet(scans[i].found, Ready(scans[i]))]
  <2>1. /\ EstateSummary.totalFindings = SumFunctionOnSet(total, all)
        /\ EstateSummary.criticalFindings = SumFunctionOnSet(worst, all)
        /\ EstateSummary.pqcFindings = SumFunctionOnSet(ready, all)
    BY DEF EstateSummary
  <2>2. IsFiniteSet(all) /\ IsFiniteSet(snapshots)
    BY ScansAreFinite
  <2>3. \A i \in all : /\ total[i] \in Nat /\ worst[i] \in Nat /\ ready[i] \in Nat
                       /\ worst[i] + ready[i] <= total[i]
    <3> SUFFICES ASSUME NEW i \in all
                 PROVE  /\ total[i] \in Nat /\ worst[i] \in Nat /\ ready[i] \in Nat
                        /\ worst[i] + ready[i] <= total[i]
      OBVIOUS
    <3> DEFINE C == Criticals(scans[i], Findings)
               R == Ready(scans[i])
               bag == scans[i].found
    <3>1. bag \in [Findings -> Nat]
      BY ScanIs
    <3>2. C \in SUBSET Findings /\ R \in SUBSET Findings /\ C \cap R = {}
      BY ScanIs, CriticalsAre
    <3>3. /\ total[i] = SumFunctionOnSet(bag, Findings)
          /\ worst[i] = SumFunctionOnSet(bag, C)
          /\ ready[i] = SumFunctionOnSet(bag, R)
      BY DEF Total
    <3> HIDE DEF C, R, bag, total, worst, ready
    <3>4. SumFunctionOnSet(bag, C) + SumFunctionOnSet(bag, R)
            <= SumFunctionOnSet(bag, Findings)
      BY <3>1, <3>2, FindingsAreFinite, PartsOfASum
    <3> QED
      BY <3>1, <3>2, <3>3, <3>4, CountIs
  <2> HIDE DEF total, worst, ready
  <2>4. SumFunctionOnSet(worst, all) + SumFunctionOnSet(ready, all)
          <= SumFunctionOnSet(total, all)
    <3>1. \A i \in all : /\ worst[i] \in Int /\ ready[i] \in Int /\ total[i] \in Int
                         /\ worst[i] + ready[i] <= total[i]
      BY <2>3
    <3> HIDE DEF all
    <3> QED
      BY <2>2, <3>1, TwoSumsGrow
  <2>5. ASSUME \A i \in all : scans[i].reported
        PROVE  SumFunctionOnSet(total, all) = Totals(snapshots)
    <3> DEFINE f == [x \in snapshots |-> x.total]
    <3>1. \A i \in all : total[i] \in Int /\ f[SnapshotOf(i)] = total[i]
      <4> TAKE i \in all
      <4>1. SnapshotOf(i) \in snapshots
        BY <2>5 DEF EstateInv, SnapshotsInv, Reported
      <4>2. SnapshotOf(i).total = total[i]
        BY DEF SnapshotOf, total
      <4> QED
        BY <2>3, <4>1, <4>2
    <3> HIDE DEF f
    <3>2. SumFunctionOnSet(f, snapshots) = SumFunctionOnSet(total, all)
      BY <2>5, <3>1, SnapshotsSumUp
    <3> QED
      BY <3>2 DEF Totals, f
  <2>6. ASSUME \A i \in all : scans[i].reported, \A i \in all : scans[i].z = Default
        PROVE  /\ SumFunctionOnSet(worst, all) >= CriticalsOf(snapshots)
               /\ (\A i \in all : \A f \in Present(scans[i]) :
                     Score(scans[i], f) = 60 => Band(scans[i], f) = "critical")
                    => SumFunctionOnSet(worst, all) = CriticalsOf(snapshots)
    <3> DEFINE f == [x \in snapshots |-> x.bands["critical"]]
               told == [i \in all |-> SnapshotOf(i).bands["critical"]]
    <3>1. \A i \in all : /\ told[i] \in Nat /\ told[i] <= worst[i]
                         /\ (\A e \in Present(scans[i]) :
                                Score(scans[i], e) = 60 => Band(scans[i], e) = "critical")
                              => told[i] = worst[i]
      <4> SUFFICES ASSUME NEW i \in all
                   PROVE  /\ told[i] \in Nat /\ told[i] <= worst[i]
                          /\ (\A e \in Present(scans[i]) :
                                 Score(scans[i], e) = 60 => Band(scans[i], e) = "critical")
                               => told[i] = worst[i]
        OBVIOUS
      <4> DEFINE bag == scans[i].found
                 A == {e \in Findings : Band(scans[i], e) = "critical"}
                 C == Criticals(scans[i], Findings)
      <4>1. bag \in [Findings -> Nat]
        BY ScanIs
      <4>2. /\ C \in SUBSET Findings /\ A \in SUBSET C
            /\ \A e \in C : e \in A \/ Score(scans[i], e) = 60
        BY ScanIs, CriticalsAre
      <4>3. told[i] = SumFunctionOnSet(bag, A)
        <5>1. {e \in Findings : Band([found |-> bag, z |-> Default], e) = "critical"} = A
          BY <2>6 DEF Band
        <5> QED
          BY <5>1 DEF SnapshotOf, CountIn, Bands
      <4>4. worst[i] = SumFunctionOnSet(bag, C)
        BY DEF worst
      <4>5. ASSUME \A e \in Present(scans[i]) :
                     Score(scans[i], e) = 60 => Band(scans[i], e) = "critical"
            PROVE  \A e \in C : e \in A \cup {} \/ bag[e] = 0
        BY <4>1, <4>2, <4>5 DEF Present
      <4> HIDE DEF bag, A, C, told
      <4>6. IsFiniteSet(C) /\ {} \in SUBSET C /\ A \cap {} = {}
            /\ \A e \in C : bag[e] \in Nat
        BY <4>1, <4>2, FindingsAreFinite, FS_Subset
      <4>7. SumFunctionOnSet(bag, {}) = 0
        BY SumOfNothing
      <4>8. /\ SumFunctionOnSet(bag, A) \in Nat /\ SumFunctionOnSet(bag, C) \in Nat
        BY <4>1, <4>2, CountIs
      <4>9. /\ SumFunctionOnSet(bag, A) + 0 <= SumFunctionOnSet(bag, C)
            /\ (\A e \in C : e \in A \cup {} \/ bag[e] = 0) =>
                 SumFunctionOnSet(bag, A) + 0 = SumFunctionOnSet(bag, C)
        BY <4>2, <4>6, <4>7, PartsOfASum
      <4> QED
        BY <4>3, <4>4, <4>5, <4>8, <4>9
    <3>2. \A i \in all : told[i] \in Int /\ f[SnapshotOf(i)] = told[i]
      <4> TAKE i \in all
      <4>1. SnapshotOf(i) \in snapshots
        BY <2>6 DEF EstateInv, SnapshotsInv, Reported
      <4> QED
        BY <3>1, <4>1
    <3> HIDE DEF f, told
    <3>3. SumFunctionOnSet(f, snapshots) = SumFunctionOnSet(told, all)
      BY <2>6, <3>2, SnapshotsSumUp
    <3>4. CriticalsOf(snapshots) = SumFunctionOnSet(told, all)
      BY <3>3 DEF CriticalsOf, f
    <3>5. /\ SumFunctionOnSet(told, all) \in Int /\ SumFunctionOnSet(worst, all) \in Int
          /\ SumFunctionOnSet(told, all) <= SumFunctionOnSet(worst, all)
      <4>1. \A i \in all : told[i] \in Int /\ worst[i] \in Int /\ told[i] <= worst[i]
        BY <2>3, <3>1
      <4> HIDE DEF all
      <4> QED
        BY <2>2, <4>1, SumsGrow
    <3>6. ASSUME \A i \in all : \A e \in Present(scans[i]) :
                   Score(scans[i], e) = 60 => Band(scans[i], e) = "critical"
          PROVE  SumFunctionOnSet(worst, all) <= SumFunctionOnSet(told, all)
      <4>1. \A i \in all : told[i] \in Int /\ worst[i] \in Int /\ worst[i] <= told[i]
        BY <2>3, <3>1, <3>6
      <4> HIDE DEF all
      <4> QED
        BY <2>2, <4>1, SumsGrow
    <3> QED
      BY <3>4, <3>5, <3>6
  <2>7. \A day \in SUBSET snapshots :
          /\ TrendPoint(day).avgRiskScore \in 0..80
          /\ TrendPoint(day).criticalCount <= TrendPoint(day).totalFindings
    BY <2>2, TrendIs
  <2> QED
    BY <2>1, <2>4, <2>5, <2>6, <2>7 DEF FiguresAgree
<1> QED
  BY <1>1, EstateInvariant, PTL
=============================================================================
