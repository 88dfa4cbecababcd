---------------------------- MODULE MCWorhpEvolve ----------------------------
(* Instances of WorhpEvolve for TLC. *)
EXTENDS WorhpEvolve

Points == {"a", "b"}

(* Two problems of one function: the first provides derivatives, the       *)
(* second leaves them to the solver.                                       *)
SameProblems == {"full", "plain"}
SameFitness == [p \in SameProblems |-> [a |-> <<1, 0>>, b |-> <<0, 1>>]]
SameGradient == [p \in SameProblems |-> [a |-> <<1, 2>>, b |-> <<3, 0>>]]
OneEach == [p \in SameProblems |-> 1]
NoneEach == [p \in SameProblems |-> 0]

(* Two different problems, one without constraints and one with an equality*)
(* constraint, and a third that has two objectives.                        *)
MixedProblems == {"free", "con", "multi"}
MixedFitness == [free |-> [a |-> <<0>>, b |-> <<1>>],
                 con |-> [a |-> <<2, 1>>, b |-> <<1, 0>>],
                 multi |-> [a |-> <<0, 1>>, b |-> <<1, 0>>]]
MixedGradient == [free |-> [a |-> <<0>>, b |-> <<1>>],
                  con |-> [a |-> <<1, 1>>, b |-> <<2, 1>>],
                  multi |-> [a |-> <<0>>, b |-> <<0>>]]
MixedNec == [free |-> 0, con |-> 1, multi |-> 0]
MixedFNnz == [p \in MixedProblems |-> 1]

Best == [kind |-> "best", idx |-> 0]
Second == [kind |-> "index", idx |-> 1]
BestOnly == {Best}
Worst == [kind |-> "worst", idx |-> 0]
BestSecondWorst == {Best, Second, Worst}

SomeRequests ==
  {{}, {"evalF"}, {"evalF", "evalG"}, {"evalDF"}, {"evalDF", "evalDG"},
   Evaluations}
FunctionRequests == {{}, {"evalF"}, {"evalF", "evalG"}}
FunctionOrGradient == {{"evalF"}, {"evalF", "evalG"}, {"evalDF"}}

(* One problem with one inequality constraint and no derivatives. *)
OneProblem == {"plain"}
OneFitness == [plain |-> [a |-> <<1, 0>>, b |-> <<0, 1>>]]
OneGradient == [plain |-> [a |-> <<1, 2>>, b |-> <<3, 0>>]]
ZeroNec == [plain |-> 0]
OneFNnz == [plain |-> 1]
==============================================================================
