-------------------------------- MODULE Pagmo --------------------------------
(***************************************************************************)
(* The part of pagmo the two plugins are built on: problems, populations,  *)
(* the comparison of two fitness vectors, and the selection / replacement  *)
(* policies of pagmo::not_population_based.  pagmo is not in this          *)
(* repository; the definitions say what src/src/worhp.cpp and              *)
(* src/src/snopt7.cpp rely on.                                             *)
(*                                                                         *)
(* A decision vector is an opaque Point.  A fitness vector is a sequence   *)
(* <<objective, equality constraints, inequality constraints>> of          *)
(* integers; constraint tolerances are zero.                               *)
(***************************************************************************)
EXTENDS Integers, Sequences, FiniteSetsExt

CONSTANTS
  Problem,    \* the problems a caller may put in a population
  Point,      \* the decision vectors
  Fitness,    \* Fitness[p][x] is what problem p computes at x
  Nec,        \* Nec[p] is the number of equality constraints of p
  Unsuitable, \* problems that are multi-objective or stochastic
  MaxPop      \* bound on the size of the populations callers build

ASSUME PagmoAssumption ==
  /\ Fitness \in [Problem -> [Point -> Seq(Int)]]
  /\ \A p \in Problem : \A x, y \in Point :
       Len(Fitness[p][x]) > 0 /\ Len(Fitness[p][x]) = Len(Fitness[p][y])
  /\ Nec \in [Problem -> Nat]
  /\ \A p \in Problem, x \in Point : Nec[p] < Len(Fitness[p][x])
  /\ Unsuitable \subseteq Problem
  /\ MaxPop \in Nat

(* Number of constraints of a problem (prob.get_nc()). *)
Nc(p) == Len(Fitness[p][CHOOSE x \in Point : TRUE]) - 1

(* An individual as population stores it. *)
Individual(p, x) == [x |-> x, f |-> Fitness[p][x]]

Individuals == [x : Point, f : Seq(Int)]

(* What population guarantees: the recorded fitness is the problem's.      *)
Consistent(p, ind) == ind.x \in Point /\ ind.f = Fitness[p][ind.x]

(***************************************************************************)
(* compare_fc                                                              *)
(***************************************************************************)
Violation(f, i, nec) ==
  IF i <= nec + 1
    THEN IF f[i] < 0 THEN -f[i] ELSE f[i]
    ELSE IF f[i] > 0 THEN f[i] ELSE 0

Satisfied(f, nec) == {i \in 2..Len(f) : Violation(f, i, nec) = 0}

(* The norm of the violations.  With at most one equality and one          *)
(* inequality constraint this sum is exactly pagmo's.                      *)
Norm(f, nec) == MapThenSumSet(LAMBDA i : Violation(f, i, nec), 2..Len(f))

(* f1 is strictly better than f2: more constraints satisfied, then the     *)
(* objective if all are satisfied and the norm otherwise.                  *)
CompareFC(f1, f2, nec) ==
  LET n1 == Cardinality(Satisfied(f1, nec))
      n2 == Cardinality(Satisfied(f2, nec))
  IN  \/ n1 > n2
      \/ n1 = n2 /\ n1 = Len(f1) - 1 /\ f1[1] < f2[1]
      \/ n1 = n2 /\ n1 # Len(f1) - 1 /\ Norm(f1, nec) < Norm(f2, nec)

(***************************************************************************)
(* not_population_based: the individual a policy designates.  An empty     *)
(* answer is the std::out_of_range of an index policy past the end.        *)
(***************************************************************************)
Policies == [kind : {"best", "worst", "random"}, idx : {0}]
              \cup [kind : {"index"}, idx : Nat]

Candidates(policy, pop, nec) ==
  {i \in 1..Len(pop) :
     /\ policy.kind = "best" =>
          \A j \in 1..Len(pop) : ~CompareFC(pop[j].f, pop[i].f, nec)
     /\ policy.kind = "worst" =>
          \A j \in 1..Len(pop) : ~CompareFC(pop[i].f, pop[j].f, nec)
     /\ policy.kind = "index" => i = policy.idx + 1}

(* The populations a caller can build for p. *)
Populations(p) ==
  UNION {[1..k -> {Individual(p, x) : x \in Point}] : k \in 0..MaxPop}
==============================================================================
