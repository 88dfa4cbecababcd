-------------------------- MODULE MCAlgorithmObject --------------------------
(* Instances of AlgorithmObject for TLC. *)
EXTENDS AlgorithmObject

(* No constraints; two tolerances; one of them zero.                       *)
Problems == {"free", "tight", "exact"}
Gradients == {"free", "tight"}
Hessians == {"free"}
Tolerances == [free |-> <<>>, tight |-> <<4, 6>>, exact |-> <<4, 0>>]

Feasibility == "Major feasibility tolerance"

Names ==
  [worhp |-> [num |-> {"TolFeas", "AcceptTolFeas"}, int |-> {"MaxIter"},
              bool |-> {"UserDF", "UserDG", "UserHM", "FGtogether"}],
   snopt7 |-> [num |-> {Feasibility},
               int |-> {"Major iterations limit", "Derivative option"}, bool |-> {}]]

Defaults ==
  [worhp |-> "TolFeas" :> 1 @@ "AcceptTolFeas" :> 9 @@ "MaxIter" :> 100
               @@ "UserDF" :> TRUE @@ "UserDG" :> TRUE @@ "UserHM" :> TRUE
               @@ "FGtogether" :> FALSE,
   snopt7 |-> Feasibility :> 1 @@ "Major iterations limit" :> 100
                @@ "Derivative option" :> 1]

(* No file, or one that sets a tolerance and claims no derivatives.        *)
Files == {NoOptions, "TolFeas" :> 7 @@ "UserDF" :> FALSE @@ "UserHM" :> FALSE}

Option(name, value) == [name |-> name, value |-> value]

Nums ==
  [worhp |-> {Option("TolFeas", 5), Option("AcceptTolFeas", 3)},
   snopt7 |-> {Option(Feasibility, 5), Option("misspelt", 5)}]
Ints ==
  [worhp |-> {Option("MaxIter", 7), Option("TolFeas", 2)},
   snopt7 |-> {Option("Major iterations limit", 7), Option("Derivative option", 2)}]
Bools ==
  [worhp |-> {Option("UserDF", b) : b \in BOOLEAN}, snopt7 |-> {}]

(* An index, and a string that names no policy.                            *)
SomePolicies == {[kind |-> "index", idx |-> 1], [kind |-> "nonsense", idx |-> 0]}
SomeCodes == {1, 4}
ListedCodes == {1, 71}
Levels == {0, 1}
===============================================================================
