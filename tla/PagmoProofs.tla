----------------------------- MODULE PagmoProofs -----------------------------
(***************************************************************************)
(* What makes a replacement safe, for every problem and population: the    *)
(* comparison is an order, so that under policies that protect each other  *)
(* an individual that improves on the selected one is no worse than the    *)
(* one it replaces.  Both plugins rest on it.                              *)
(***************************************************************************)
EXTENDS Pagmo, SumProofs

(* The norm of the violations is a number. *)
LEMMA NormIsNumber ==
  ASSUME NEW f \in Seq(Int), NEW nec \in Nat
  PROVE  Norm(f, nec) \in Int
<1> DEFINE S == 2..Len(f)
           val == [i \in S |-> Violation(f, i, nec)]
           choice == [s \in SUBSET S |-> CHOOSE x \in s : TRUE]
           It(g) == g = [s \in SUBSET S |->
                          IF s = {} THEN 0
                          ELSE Violation(f, CHOOSE x \in s : TRUE, nec)
                                 + g[s \ {CHOOSE x \in s : TRUE}]]
           iter == CHOOSE g : It(g)
<1>1. IsFiniteSet(S) /\ val \in [S -> Int]
  <2>1. Len(f) \in Int /\ \A i \in 2..Len(f) : f[i] \in Int
    OBVIOUS
  <2>2. \A i \in 2..Len(f) : Violation(f, i, nec) \in Int
    BY <2>1 DEF Violation
  <2> QED
    BY <2>1, <2>2, FS_Interval
<1>2. \A s \in SUBSET S : s # {} => choice[s] \in s
  OBVIOUS
<1>3. \A h : IsSum(h, S, val, choice) <=> It(h)
  BY DEF IsSum
<1>4. Norm(f, nec) = iter[S]
  BY DEF Norm, MapThenSumSet, MapThenFoldSet
<1> HIDE DEF S, val, choice, It
<1>5. It(iter)
  BY <1>1, <1>2, <1>3, SumExists
<1> HIDE DEF iter
<1> QED
  BY <1>1, <1>2, <1>3, <1>4, <1>5, SumType

(* Among the fitness vectors of one problem, compare_fc is a strict order. *)
LEMMA CompareOrder ==
  ASSUME NEW nec \in Nat,
         NEW f \in Seq(Int), NEW g \in Seq(Int), NEW h \in Seq(Int),
         Len(f) = Len(g), Len(g) = Len(h), Len(f) > 0
  PROVE  /\ ~CompareFC(f, f, nec)
         /\ CompareFC(f, g, nec) /\ CompareFC(g, h, nec) => CompareFC(f, h, nec)
<1>1. ASSUME NEW u \in Seq(Int)
      PROVE  Cardinality(Satisfied(u, nec)) \in Nat /\ Norm(u, nec) \in Int
  <2>1. Len(u) \in Nat /\ IsFiniteSet(2..Len(u))
    BY FS_Interval
  <2>2. IsFiniteSet(Satisfied(u, nec))
    BY <2>1, FS_Subset DEF Satisfied
  <2> QED
    BY <2>2, FS_CardinalityType, NormIsNumber
<1>2. f[1] \in Int /\ g[1] \in Int /\ h[1] \in Int
  OBVIOUS
<1>3. /\ Cardinality(Satisfied(f, nec)) \in Nat /\ Norm(f, nec) \in Int
      /\ Cardinality(Satisfied(g, nec)) \in Nat /\ Norm(g, nec) \in Int
      /\ Cardinality(Satisfied(h, nec)) \in Nat /\ Norm(h, nec) \in Int
  BY <1>1
<1> QED
  BY <1>2, <1>3 DEF CompareFC

(* Selection and replacement that cannot lose the better individual.       *)
Protects(select, replace) ==
  \/ select.kind = "best"
  \/ replace.kind = "worst"
  \/ select.kind = "index" /\ replace = select

(* A point that improves on a selected individual is not worse than any    *)
(* that may be replaced.                                                   *)
LEMMA ProtectiveReplacement ==
  ASSUME NEW p \in Problem,
         NEW pop \in Seq(Individuals), \A k \in 1..Len(pop) : Consistent(p, pop[k]),
         NEW select, NEW replace, Protects(select, replace),
         NEW x \in Point,
         NEW i \in Candidates(replace, pop, Nec[p]),
         NEW s \in Candidates(select, pop, Nec[p]),
         CompareFC(Fitness[p][x], pop[s].f, Nec[p])
  PROVE  ~CompareFC(pop[i].f, Fitness[p][x], Nec[p])
<1> DEFINE new == Fitness[p][x]
           Better(f, g) == CompareFC(f, g, Nec[p])
<1>1. Nec[p] \in Nat /\ new \in Seq(Int)
  BY PagmoAssumption
<1>2. i \in 1..Len(pop) /\ s \in 1..Len(pop)
  BY DEF Candidates
<1>3. ASSUME NEW k \in 1..Len(pop)
      PROVE  pop[k].f \in Seq(Int) /\ Len(pop[k].f) = Len(new) /\ Len(pop[k].f) > 0
  BY PagmoAssumption DEF Consistent
<1>4. Better(pop[i].f, new) => Better(pop[i].f, pop[s].f)
  BY <1>1, <1>2, <1>3, CompareOrder
<1>5. ~Better(pop[i].f, pop[i].f)
  BY <1>1, <1>2, <1>3, CompareOrder
<1>6. CASE select.kind = "best"
  BY <1>2, <1>4, <1>6 DEF Candidates
<1>7. CASE replace.kind = "worst"
  BY <1>2, <1>4, <1>7 DEF Candidates
<1>8. CASE select.kind = "index" /\ replace = select
  <2>1. i = s
    BY <1>8 DEF Candidates
  <2> QED
    BY <1>4, <1>5, <2>1
<1> QED
  BY <1>6, <1>7, <1>8 DEF Protects
==============================================================================
