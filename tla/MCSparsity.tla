------------------------------ MODULE MCSparsity ------------------------------
(* Instances of Sparsity for TLC. *)
EXTENDS Sparsity

Three == 3
Two == 2

(* Every pattern of the gradient, and hessians with a few patterns; then   *)
(* one gradient, and hessians with all the patterns that leave one cell of *)
(* the lower triangle out.                                                 *)
Cells == (0..2) \X (0..2)
Lower == {c \in (0..2) \X (0..2) : c[1] >= c[2]}
Diagonal == {c \in Lower : c[1] = c[2]}

Hessians(objective, first, second) ==
  [i \in 0..2 |-> CASE i = 0 -> objective [] i = 1 -> first [] i = 2 -> second]

GradientProblems ==
  {[grad |-> g, hess |-> Hessians({}, {}, {}), sparse |-> TRUE] : g \in SUBSET Cells}

HessianProblems ==
  {[grad |-> {<<0, 1>>, <<2, 0>>}, hess |-> Hessians(o, c, Diagonal \ {<<1, 1>>}),
    sparse |-> TRUE] :
      o \in SUBSET (Lower \ {<<1, 1>>, <<2, 2>>}), c \in SUBSET (Lower \ {<<0, 0>>})}

DenseProblems ==
  {[grad |-> Cells, hess |-> Hessians(Lower, Lower, Lower), sparse |-> FALSE]}

Problems == GradientProblems \cup HessianProblems \cup DenseProblems

(* All derivatives differ, at a point and between points.                  *)
At(x, scale, mu) ==
  [jac |-> [c \in Cells |-> 100 * x + 10 * c[1] + c[2] + 1],
   hess |-> [i \in 0..2 |-> [c \in Lower |-> 1000 * x + 100 * i + 10 * c[1] + c[2] + 1]],
   scale |-> scale, mu |-> mu]

Iterates == {At(1, 1, <<1, 0>>), At(2, 3, <<-2, 5>>)}
===============================================================================
