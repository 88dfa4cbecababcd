------------------------------ MODULE SumProofs ------------------------------
(***************************************************************************)
(* Sums over finite sets, as the folds of the community modules make them: *)
(* they exist, they are integers, and a sum of zeros is zero.              *)
(*                                                                         *)
(* These are facts by induction.  A theorem whose parameter is a predicate *)
(* cannot be cited here, so the induction is on a set of numbers: that of  *)
(* the counterexamples, which would have a least one.                      *)
(***************************************************************************)
EXTENDS FiniteSetsExt, Functions, Integers, FiniteSetTheorems, WellFoundedInduction, TLAPS

LEMMA LeastNumber ==
  ASSUME NEW T \in SUBSET Nat, T # {}
  PROVE  \E n \in T : \A m \in T : n <= m
<1>1. PICK x \in T : \A y \in T : ~ (<<y, x>> \in OpToRel(<, Nat))
  BY NatLessThanWellFounded, WFMin, Zenon
<1>2. ASSUME NEW y \in T
      PROVE  x <= y
  <2>1. <<y, x>> \in OpToRel(<, Nat) <=> y < x
    BY DEF OpToRel
  <2>2. ~(y < x)
    BY <1>1, <2>1, Zenon
  <2> QED
    BY <2>2
<1> QED
  BY <1>2

(* A set of numbers that has zero and every successor has them all.        *)
LEMMA AllNumbers ==
  ASSUME NEW T, 0 \in T, \A n \in Nat : n \in T => n + 1 \in T
  PROVE  Nat \subseteq T
<1> SUFFICES ASSUME Nat \ T # {} PROVE FALSE
  OBVIOUS
<1>1. PICK n \in Nat \ T : \A m \in Nat \ T : n <= m
  BY LeastNumber
<1>2. n - 1 \in Nat /\ n - 1 \notin T
  BY <1>1
<1> QED
  BY <1>1, <1>2

(* The sum of val over every subset of S, one element at a time in the     *)
(* order of choice.                                                        *)
IsSum(g, S, val, choice) ==
  g = [s \in SUBSET S |->
         IF s = {} THEN 0 ELSE val[choice[s]] + g[s \ {choice[s]}]]

LEMMA SumExists ==
  ASSUME NEW S, IsFiniteSet(S), NEW val \in [S -> Int],
         NEW choice, \A s \in SUBSET S : s # {} => choice[s] \in s
  PROVE  \E g : IsSum(g, S, val, choice)
<1> DEFINE Upto(n) == {s \in SUBSET S : Cardinality(s) <= n}
           Sums(g, D) == \A s \in D : g[s] = IF s = {} THEN 0
                            ELSE val[choice[s]] + g[s \ {choice[s]}]
           T == {n \in Nat : \E g : DOMAIN g = Upto(n) /\ Sums(g, Upto(n))}
<1>0. \A s \in SUBSET S : IsFiniteSet(s) /\ Cardinality(s) \in Nat
  BY FS_Subset, FS_CardinalityType
<1>1. 0 \in T
  <2>1. Upto(0) = {{}}
    BY <1>0, FS_EmptySet
  <2> DEFINE g == [s \in Upto(0) |-> 0]
  <2>2. Sums(g, Upto(0))
    BY <2>1
  <2> QED
    BY <2>2
<1>2. ASSUME NEW n \in Nat, n \in T
      PROVE  n + 1 \in T
  <2>1. PICK g : DOMAIN g = Upto(n) /\ Sums(g, Upto(n))
    BY <1>2
  <2> DEFINE h == [s \in Upto(n + 1) |-> IF s = {} THEN 0
                     ELSE val[choice[s]] + g[s \ {choice[s]}]]
  <2>2. \A s \in Upto(n) : s \in Upto(n + 1) /\ h[s] = g[s]
    BY <1>0, <2>1
  <2>3. ASSUME NEW s \in Upto(n + 1), s # {}
        PROVE  s \ {choice[s]} \in Upto(n)
    <3>1. IsFiniteSet(s) /\ choice[s] \in s /\ Cardinality(s) \in Nat
      BY <1>0, <2>3
    <3>2. Cardinality(s \ {choice[s]}) = Cardinality(s) - 1
      BY <3>1, FS_RemoveElement
    <3> QED
      BY <3>1, <3>2
  <2>4. Sums(h, Upto(n + 1))
    BY <2>2, <2>3
  <2>5. DOMAIN h = Upto(n + 1)
    OBVIOUS
  <2> HIDE DEF h, Upto, Sums
  <2> QED
    BY <2>4, <2>5
<1>3. Nat \subseteq T
  BY <1>1, <1>2, AllNumbers
<1>4. Cardinality(S) \in Nat /\ Upto(Cardinality(S)) = SUBSET S
  BY <1>0, FS_Subset
<1>5. PICK g : DOMAIN g = SUBSET S /\ Sums(g, SUBSET S)
  BY <1>3, <1>4
<1> DEFINE h == [s \in SUBSET S |-> g[s]]
<1>6. ASSUME NEW s \in SUBSET S
      PROVE  h[s] = IF s = {} THEN 0 ELSE val[choice[s]] + h[s \ {choice[s]}]
  BY <1>5
<1>7. IsSum(h, S, val, choice)
  BY <1>6 DEF IsSum
<1> QED
  BY <1>7

LEMMA SumType ==
  ASSUME NEW S, IsFiniteSet(S), NEW val \in [S -> Int],
         NEW choice, \A s \in SUBSET S : s # {} => choice[s] \in s,
         NEW g, IsSum(g, S, val, choice)
  PROVE  /\ g[S] \in Int
         /\ (\A x \in S : val[x] = 0) => g[S] = 0
<1> DEFINE Good(s) == g[s] \in Int /\ ((\A x \in S : val[x] = 0) => g[s] = 0)
           T == {n \in Nat : \A s \in SUBSET S : Cardinality(s) = n => Good(s)}
<1>0. \A s \in SUBSET S : IsFiniteSet(s) /\ Cardinality(s) \in Nat
  BY FS_Subset, FS_CardinalityType
<1>a. \A s \in SUBSET S :
        g[s] = IF s = {} THEN 0 ELSE val[choice[s]] + g[s \ {choice[s]}]
  BY DEF IsSum
<1>1. 0 \in T
  BY <1>0, <1>a, FS_EmptySet
<1>2. ASSUME NEW n \in Nat, n \in T
      PROVE  n + 1 \in T
  <2>1. ASSUME NEW s \in SUBSET S, Cardinality(s) = n + 1
        PROVE  Good(s)
    <3>1. s # {} /\ choice[s] \in s /\ IsFiniteSet(s)
      BY <1>0, <2>1, FS_EmptySet
    <3>2. s \ {choice[s]} \in SUBSET S /\ Cardinality(s \ {choice[s]}) = n
      <4>1. Cardinality(s \ {choice[s]}) = Cardinality(s) - 1
        BY <3>1, FS_RemoveElement
      <4> QED
        BY <2>1, <4>1
    <3>3. Good(s \ {choice[s]})
      BY <1>2, <3>2
    <3>4. g[s] = val[choice[s]] + g[s \ {choice[s]}]
      BY <1>a, <3>1
    <3>5. val[choice[s]] \in Int
      BY <3>1
    <3> QED
      BY <3>1, <3>3, <3>4, <3>5
  <2> QED
    BY <2>1
<1>3. Nat \subseteq T
  BY <1>1, <1>2, AllNumbers
<1>4. S \in SUBSET S /\ Cardinality(S) \in T
  BY <1>0, <1>3
<1> QED
  BY <1>4

(* The sum MapThenFoldSet makes.                                           *)
FoldedSum(S, val) ==
  MapThenFoldSet(+, 0, LAMBDA x : val[x], LAMBDA s : CHOOSE x \in s : TRUE, S)

LEMMA FoldedSumIs ==
  ASSUME NEW S, IsFiniteSet(S), NEW val \in [S -> Int]
  PROVE  /\ FoldedSum(S, val) \in Int
         /\ (\A x \in S : val[x] = 0) => FoldedSum(S, val) = 0
<1> DEFINE choice == [s \in SUBSET S |-> CHOOSE x \in s : TRUE]
           It(g) == g = [s \in SUBSET S |->
                          IF s = {} THEN 0
                          ELSE val[CHOOSE x \in s : TRUE] + g[s \ {CHOOSE x \in s : TRUE}]]
           iter == CHOOSE g : It(g)
<1>1. \A s \in SUBSET S : s # {} => choice[s] \in s
  OBVIOUS
<1>2. PICK g : IsSum(g, S, val, choice)
  BY <1>1, SumExists
<1>3. \A h : IsSum(h, S, val, choice) <=> It(h)
  BY DEF IsSum
<1>4. FoldedSum(S, val) = iter[S]
  BY DEF FoldedSum, MapThenFoldSet
<1> HIDE DEF It
<1>5. It(iter)
  BY <1>2, <1>3
<1> HIDE DEF iter, choice
<1>6. IsSum(iter, S, val, choice)
  BY <1>3, <1>5
<1> QED
  BY <1>1, <1>4, <1>6, SumType
==============================================================================
