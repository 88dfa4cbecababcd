---------------------------- MODULE MCSnopt7Evolve ----------------------------
(* Instances of Snopt7Evolve for TLC. *)
EXTENDS Snopt7Evolve

Points == {"a", "b"}

(* A problem with a gradient and one inequality constraint, one without    *)
(* constraints, and one with two objectives.                               *)
Problems == {"con", "free", "multi"}
Functions == [con |-> [a |-> <<-1, 3>>, b |-> <<0, 0>>],
              free |-> [a |-> <<0>>, b |-> <<1>>],
              multi |-> [a |-> <<0, 1>>, b |-> <<1, 0>>]]
Equalities == [p \in Problems |-> 0]

Best == [kind |-> "best", idx |-> 0]
Second == [kind |-> "index", idx |-> 1]
Worst == [kind |-> "worst", idx |-> 0]
BestOrSecond == {Best, Second}
BestSecondWorst == {Best, Second, Worst}

(* Code 4 is not in the table of results; 83 is "not enough integer        *)
(* storage".                                                               *)
ListedCodes == {1}
NoStorage == {83}
AnyCode == {1, 4}
==============================================================================
