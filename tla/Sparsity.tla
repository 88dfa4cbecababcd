------------------------------- MODULE Sparsity -------------------------------
(***************************************************************************)
(* How ppnf::worhp hands pagmo's sparse derivatives to WORHP.  pagmo lists *)
(* the non-zeros of the gradient and of each hessian row by row; WORHP     *)
(* reads DF as a vector, DG column by column, and HM as the strict lower   *)
(* triangle column by column followed by the whole diagonal, one hessian   *)
(* for the objective and the constraints together.  evolve() computes the  *)
(* index maps and the structures once, and UserDF, UserDG and UserHM use   *)
(* them to place the values at every iterate.                              *)
(*                                                                         *)
(* A cell is a pair <<row, column>>, counted from 0 as pagmo does; row 0   *)
(* of the gradient is the objective.  A pattern is a set of cells, and the *)
(* vector pagmo keeps it in is its enumeration in pagmo's order.           *)
(* Positions in a vector are counted from 1.                               *)
(***************************************************************************)
EXTENDS Integers, Sequences, FiniteSets, Functions

CONSTANTS
  Dim,      \* dimension of the decision vectors
  NCon,     \* number of constraints
  Problem,  \* [grad, hess, sparse]: the patterns of a problem, and whether
            \* it has a hessians_sparsity() of its own
  Iterate,  \* [jac, hess, scale, mu]: the derivatives at a point WORHP may
            \* visit, with the ScaleObj and the Mu it has there
  NoIterate \* a matrix that was not evaluated yet

Columns == 0..(Dim - 1)
GradientCells == (0..NCon) \X Columns
LowerTriangle == {c \in Columns \X Columns : c[1] >= c[2]}

ASSUME SparsityAssumption ==
  /\ Dim \in Nat \ {0} /\ NCon \in Nat
  /\ Problem \subseteq [grad : SUBSET GradientCells,
                        hess : [0..NCon -> SUBSET LowerTriangle],
                        sparse : BOOLEAN]
  /\ Iterate \subseteq [jac : [GradientCells -> Int],
                        hess : [0..NCon -> [LowerTriangle -> Int]],
                        scale : Int,
                        mu : [1..NCon -> Int]]
  /\ NoIterate \notin Iterate

VARIABLES
  prob,       \* the problem being solved
  phase,      \* "start", "mapped", "allocated", "ready"
  gs_idx_map, \* WORHP's order of the constraints' gradients
  merged_hs,  \* union of the patterns of the hessians, in pagmo's order
  hs_idx_map, \* WORHP's order of the strict lower triangle
  df, dg, hm  \* WORHP's matrices

vars == <<prob, phase, gs_idx_map, merged_hs, hs_idx_map, df, dg, hm>>

(***************************************************************************)
(* Enumerations of a set of cells, and sorting.                            *)
(***************************************************************************)
RowFirst(c, d) == c[1] < d[1] \/ (c[1] = d[1] /\ c[2] < d[2])
ColumnFirst(c, d) == c[2] < d[2] \/ (c[2] = d[2] /\ c[1] < d[1])

(* The elements of S from the least to the greatest.                       *)
Sorted(S, Before(_, _)) ==
  [k \in 1..Cardinality(S) |->
     CHOOSE c \in S : Cardinality({d \in S : Before(d, c)}) = k - 1]

(* A pattern as pagmo stores it: std::vector, sorted, without duplicates.  *)
Vector(S) == Sorted(S, RowFirst)

(* Positions of a vector of cells, sorted by the cells they hold.          *)
Positions(v, keep, Before(_, _)) ==
  Sorted(keep, LAMBDA i, j : Before(v[i], v[j]))

(***************************************************************************)
(* pagmo::problem.  gradient() and hessians() answer in the order of the   *)
(* patterns, objective first; a derivative outside its pattern is zero.    *)
(***************************************************************************)
DenseHessian == LowerTriangle

HessianPattern(p, i) == IF p.sparse THEN p.hess[i] ELSE DenseHessian

GradientVector(p, it) ==
  [k \in 1..Cardinality(p.grad) |-> it.jac[Vector(p.grad)[k]]]

HessianVector(p, i, it) ==
  LET v == Vector(HessianPattern(p, i))
  IN  [k \in 1..Len(v) |-> it.hess[i][v[k]]]

(***************************************************************************)
(* evolve(): the patterns and the index maps.                              *)
(***************************************************************************)
(* Slip: split after (1,0), as std::upper_bound would. *)
ObjectiveCellsUpper(p) == {c \in p.grad : ~RowFirst(<<1, 0>>, c)}

(* The split of the gradient's pattern at the first cell not before (1,0). *)
ObjectiveCells(p) == {c \in p.grad : RowFirst(c, <<1, 0>>)}
ConstraintCells(p) == p.grad \ ObjectiveCells(p)

fs == Vector(ObjectiveCells(prob))
gs == Vector(ConstraintCells(prob))

MergedPattern(p) ==
  IF p.sparse THEN UNION {p.hess[i] : i \in 0..NCon} ELSE DenseHessian

(* Slip: sort by row, the order of pagmo. *)
GradientOrderOfPagmo(v) == Positions(v, DOMAIN v, RowFirst)

GradientOrder(v) == Positions(v, DOMAIN v, ColumnFirst)

(* Slip: leave the diagonal in. *)
HessianOrderWithDiagonal(v) == Positions(v, DOMAIN v, ColumnFirst)

(* The diagonal is removed: WORHP wants all of it, at the end.             *)
HessianOrder(v) ==
  Positions(v, {i \in DOMAIN v : v[i][1] # v[i][2]}, ColumnFirst)

Unallocated == [nnz |-> 0, row |-> <<>>, col |-> <<>>, val |-> <<>>, at |-> NoIterate]

Init ==
  /\ prob \in Problem
  /\ phase = "start"
  /\ gs_idx_map = <<>> /\ merged_hs = <<>> /\ hs_idx_map = <<>>
  /\ df = Unallocated /\ dg = Unallocated /\ hm = Unallocated

(* The maps are computed and the sizes of the matrices declared.           *)
PrepareMaps ==
  /\ phase = "start"
  /\ phase' = "mapped"
  /\ gs_idx_map' = GradientOrder(gs)
  /\ merged_hs' = Vector(MergedPattern(prob))
  /\ hs_idx_map' = HessianOrder(merged_hs')
  /\ df' = [df EXCEPT !.nnz = Len(fs)]
  /\ dg' = [dg EXCEPT !.nnz = Len(gs)]
  /\ hm' = [hm EXCEPT !.nnz = Len(hs_idx_map') + Dim]
  /\ UNCHANGED prob

(***************************************************************************)
(* WorhpInit allocates the matrices.  A matrix declared with as many       *)
(* non-zeros as it has cells is dense: the library fills in the structure  *)
(* itself, in its own order, and does not ask for it (NeedStructure).      *)
(***************************************************************************)
DenseDF == [k \in 1..Dim |-> <<k, 1>>]
DenseDG == Sorted((1..NCon) \X (1..Dim), ColumnFirst)
DenseHM ==
  LET lower == Sorted({c \in (1..Dim) \X (1..Dim) : c[1] > c[2]}, ColumnFirst)
  IN  lower \o [k \in 1..Dim |-> <<k, k>>]

NeedStructure(m, dense) == m.nnz # Len(dense)

Allocated(m, dense) ==
  IF NeedStructure(m, dense) THEN m
  ELSE [m EXCEPT !.row = [k \in 1..m.nnz |-> dense[k][1]],
                 !.col = [k \in 1..m.nnz |-> dense[k][2]]]

WorhpInit ==
  /\ phase = "mapped"
  /\ phase' = "allocated"
  /\ df' = Allocated(df, DenseDF)
  /\ dg' = Allocated(dg, DenseDG)
  /\ hm' = Allocated(hm, DenseHM)
  /\ UNCHANGED <<prob, gs_idx_map, merged_hs, hs_idx_map>>

(***************************************************************************)
(* The structures in CS format, in Fortran indices.  pagmo's row of a      *)
(* constraint is already counted from 1, as row 0 is the objective's.      *)
(***************************************************************************)
DFRow(k) == fs[k][2] + 1

(* Slip: add 1 to the row of a constraint too. *)
DGCellShifted(k) == <<gs[gs_idx_map[k]][1] + 1, gs[gs_idx_map[k]][2] + 1>>

DGCell(k) == <<gs[gs_idx_map[k]][1], gs[gs_idx_map[k]][2] + 1>>

HMCell(k) ==
  IF k <= Len(hs_idx_map)
    THEN <<merged_hs[hs_idx_map[k]][1] + 1, merged_hs[hs_idx_map[k]][2] + 1>>
    ELSE <<k - Len(hs_idx_map), k - Len(hs_idx_map)>>

AssignStructure ==
  /\ phase = "allocated"
  /\ phase' = "ready"
  /\ df' = IF NeedStructure(df, DenseDF)
             THEN [df EXCEPT !.row = [k \in 1..df.nnz |-> DFRow(k)],
                             !.col = [k \in 1..df.nnz |-> 1]]
             ELSE df
  /\ dg' = IF NeedStructure(dg, DenseDG)
             THEN [dg EXCEPT !.row = [k \in 1..dg.nnz |-> DGCell(k)[1]],
                             !.col = [k \in 1..dg.nnz |-> DGCell(k)[2]]]
             ELSE dg
  /\ hm' = IF NeedStructure(hm, DenseHM)
             THEN [hm EXCEPT !.row = [k \in 1..hm.nnz |-> HMCell(k)[1]],
                             !.col = [k \in 1..hm.nnz |-> HMCell(k)[2]]]
             ELSE hm
  /\ UNCHANGED <<prob, gs_idx_map, merged_hs, hs_idx_map>>

(***************************************************************************)
(* The values, each time WORHP asks for them.                              *)
(***************************************************************************)
UserDF ==
  /\ phase = "ready"
  /\ \E it \in Iterate :
       LET g == GradientVector(prob, it)
       IN  df' = [df EXCEPT !.val = [k \in 1..df.nnz |-> g[k]], !.at = it]
  /\ UNCHANGED <<prob, phase, gs_idx_map, merged_hs, hs_idx_map, dg, hm>>

UserDG ==
  /\ phase = "ready"
  /\ \E it \in Iterate :
       LET g == GradientVector(prob, it)
       IN  dg' = [dg EXCEPT !.val = [k \in 1..dg.nnz |-> g[df.nnz + gs_idx_map[k]]],
                            !.at = it]
  /\ UNCHANGED <<prob, phase, gs_idx_map, merged_hs, hs_idx_map, df, hm>>

(* What function i adds to a cell of the map: nothing outside its pattern, *)
(* and else the element of its hessian with the cell's position.           *)
Contribution(i, it, factor, c) ==
  LET v == Vector(HessianPattern(prob, i))
      h == HessianVector(prob, i, it)
  IN  IF c \in HessianPattern(prob, i)
        THEN h[CHOOSE j \in DOMAIN v : v[j] = c] * factor
        ELSE 0

Total(f) == FoldFunction(+, 0, f)

(* Slip: leave the objective's hessian unscaled. *)
MergedUnscaled(it, c) ==
  Contribution(0, it, 1, c)
    + Total([i \in 1..NCon |-> Contribution(i, it, it.mu[i], c)])

(* pagmo_merged_h: a cell that no pattern has reads as zero.               *)
MergedHessian(it, c) ==
  Contribution(0, it, it.scale, c)
    + Total([i \in 1..NCon |-> Contribution(i, it, it.mu[i], c)])

(* The cell of pagmo's whose value goes to position k of HM.               *)
HMSource(k) ==
  IF k <= Len(hs_idx_map) THEN merged_hs[hs_idx_map[k]]
  ELSE <<k - Len(hs_idx_map) - 1, k - Len(hs_idx_map) - 1>>

UserHM ==
  /\ phase = "ready"
  /\ \E it \in Iterate :
       hm' = [hm EXCEPT !.val = [k \in 1..hm.nnz |-> MergedHessian(it, HMSource(k))],
                        !.at = it]
  /\ UNCHANGED <<prob, phase, gs_idx_map, merged_hs, hs_idx_map, df, dg>>

Next ==
  \/ PrepareMaps \/ WorhpInit \/ AssignStructure
  \/ UserDF \/ UserDG \/ UserHM

Spec == Init /\ [][Next]_vars

(***************************************************************************)
(* Properties.                                                             *)
(***************************************************************************)
Cell(m, k) == <<m.row[k], m.col[k]>>

Matrix(rows, cols) ==
  [nnz : Nat, row : Seq(rows), col : Seq(cols), val : Seq(Int),
   at : Iterate \cup {NoIterate}]

(* Every index map is a list of positions of the vector it permutes, every *)
(* row and column lies in its matrix, and the arrays have the length the   *)
(* library was told.                                                       *)
TypeOK ==
  /\ prob \in Problem
  /\ phase \in {"start", "mapped", "allocated", "ready"}
  /\ gs_idx_map \in Seq(DOMAIN gs)
  /\ merged_hs \in Seq(LowerTriangle)
  /\ hs_idx_map \in Seq(DOMAIN merged_hs)
  /\ df \in Matrix(1..Dim, {1})
  /\ dg \in Matrix(1..NCon, 1..Dim)
  /\ hm \in Matrix(1..Dim, 1..Dim)
  /\ phase = "ready" =>
       \A m \in {df, dg, hm} :
         /\ Len(m.row) = m.nnz /\ Len(m.col) = m.nnz
         /\ m.at # NoIterate => Len(m.val) = m.nnz

(* m is the matrix whose value at each cell is Entry: every entry of m     *)
(* holds the value of its cell, no cell has two entries (WORHP would add   *)
(* them), and a cell without an entry is zero.                             *)
Represents(m, cells, Entry(_)) ==
  /\ \A k \in 1..m.nnz : Cell(m, k) \in cells /\ m.val[k] = Entry(Cell(m, k))
  /\ \A k, l \in 1..m.nnz : Cell(m, k) = Cell(m, l) => k = l
  /\ \A c \in cells : Entry(c) # 0 => \E k \in 1..m.nnz : Cell(m, k) = c

(* The derivative of function i by variable j, both as WORHP counts them.  *)
Derivative(it, i, j) ==
  IF <<i, j - 1>> \in prob.grad THEN it.jac[<<i, j - 1>>] ELSE 0

(* DF is the gradient of the problem's objective, whatever the pattern:    *)
(* the split of pagmo's gradient, the sizes, the structure (WORHP's own or *)
(* the one evolve() wrote) and the values of UserDF agree.                 *)
GradientRight ==
  df.at # NoIterate =>
    Represents(df, (1..Dim) \X {1}, LAMBDA c : Derivative(df.at, 0, c[1]))

(* DG is the jacobian of the constraints, whatever the pattern: the order  *)
(* in which the structure was written or assumed is the one in which       *)
(* UserDG places the values, and the offset of the objective is right.     *)
JacobianRight ==
  dg.at # NoIterate =>
    Represents(dg, (1..NCon) \X (1..Dim), LAMBDA c : Derivative(dg.at, c[1], c[2]))

(* The second derivative of function i at a cell as WORHP counts it.       *)
Second(it, i, c) ==
  LET d == <<c[1] - 1, c[2] - 1>>
  IN  IF d \in HessianPattern(prob, i) THEN it.hess[i][d] ELSE 0

Lagrangian(it, c) ==
  Second(it, 0, c) * it.scale
    + Total([i \in 1..NCon |-> Second(it, i, c) * it.mu[i]])

(* HM is the hessian of the Lagrangian, ScaleObj * f + Mu * g, at the      *)
(* iterate WORHP asked for, whatever the patterns of the functions, also   *)
(* where they do not overlap or leave the diagonal out.                    *)
HessianRight ==
  hm.at # NoIterate =>
    Represents(hm, {c \in (1..Dim) \X (1..Dim) : c[1] >= c[2]},
               LAMBDA c : Lagrangian(hm.at, c))

(* "In WORHP the HM sparsity requires lower triangular entries first, then *)
(* all the diagonal elements (also the zeros)", the former in the order of *)
(* their columns.                                                          *)
HessianFormat ==
  phase = "ready" =>
    LET strict == hm.nnz - Dim
    IN  /\ \A k \in 1..strict : hm.row[k] > hm.col[k]
        /\ \A k, l \in 1..strict :
             k < l => ColumnFirst(Cell(hm, k), Cell(hm, l))
        /\ \A k \in 1..Dim : Cell(hm, strict + k) = <<k, k>>
===============================================================================
