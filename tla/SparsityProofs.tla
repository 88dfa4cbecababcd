---------------------------- MODULE SparsityProofs ----------------------------
(***************************************************************************)
(* Theorems about Sparsity, for every dimension, every number of           *)
(* constraints and every pattern.                                          *)
(***************************************************************************)
EXTENDS Sparsity, SumProofs

-------------------------------------------------------------------------------
(* Listings of a finite set from the least element to the greatest *)

(* below[c] is the set of the elements before c.                           *)
IsOrder(S, below) ==
  /\ below \in [S -> SUBSET S]
  /\ \A c \in S : c \notin below[c]
  /\ \A c, d \in S : d \in below[c] => below[d] \subseteq below[c]
  /\ \A c, d \in S : c # d => c \in below[d] \/ d \in below[c]

(* Every number from 0 is the rank of one element.                         *)
LEMMA Ranks ==
  ASSUME NEW S, IsFiniteSet(S), NEW below, IsOrder(S, below)
  PROVE  /\ \A c \in S : Cardinality(below[c]) \in 0..(Cardinality(S) - 1)
         /\ \A c, d \in S : c \in below[d] => Cardinality(below[c]) < Cardinality(below[d])
         /\ \A c, d \in S : Cardinality(below[c]) = Cardinality(below[d]) => c = d
         /\ \A k \in 1..Cardinality(S) : \E c \in S : Cardinality(below[c]) = k - 1
<1> DEFINE n == Cardinality(S)
           rank == [c \in S |-> Cardinality(below[c]) + 1]
<1>0. n \in Nat
  BY FS_CardinalityType
<1>1. ASSUME NEW c \in S
      PROVE  IsFiniteSet(below[c]) /\ Cardinality(below[c]) \in 0..(n - 1)
  <2>1. below[c] \in SUBSET S /\ below[c] # S
    BY DEF IsOrder
  <2>2. IsFiniteSet(below[c]) /\ Cardinality(below[c]) <= n /\ Cardinality(below[c]) # n
    BY <2>1, FS_Subset
  <2>3. Cardinality(below[c]) \in Nat
    BY <2>2, FS_CardinalityType
  <2> QED
    BY <1>0, <2>2, <2>3
<1>2. ASSUME NEW c \in S, NEW d \in S, c \in below[d]
      PROVE  Cardinality(below[c]) < Cardinality(below[d])
  <2>1. below[c] \in SUBSET below[d] /\ below[c] # below[d]
    BY <1>2 DEF IsOrder
  <2>2. /\ Cardinality(below[c]) <= Cardinality(below[d])
        /\ Cardinality(below[c]) # Cardinality(below[d])
    BY <1>1, <2>1, FS_Subset
  <2> QED
    BY <1>1, <2>2
<1>3. \A c, d \in S : Cardinality(below[c]) = Cardinality(below[d]) => c = d
  BY <1>1, <1>2 DEF IsOrder
<1>4. rank \in Injection(S, 1..n)
  <2>1. rank \in [S -> 1..n]
    BY <1>0, <1>1
  <2>2. \A c, d \in S : rank[c] = rank[d] => c = d
    BY <1>1, <1>3
  <2> HIDE DEF rank, n
  <2> QED
    BY <2>1, <2>2 DEF Injection, IsInjective
<1>5. IsFiniteSet(1..n) /\ Cardinality(1..n) = n
  BY <1>0, FS_Interval
<1>6. rank \in Surjection(S, 1..n)
  BY <1>4, <1>5, FS_Injection
<1>7. ASSUME NEW k \in 1..n
      PROVE  \E c \in S : Cardinality(below[c]) = k - 1
  <2>1. PICK c \in S : rank[c] = k
    BY <1>6 DEF Surjection
  <2> QED
    BY <1>1, <2>1
<1> QED
  BY <1>1, <1>2, <1>3, <1>7

(* v lists the elements of S, each once, in the order.                     *)
Lists(v, S, below) ==
  /\ v \in [1..Cardinality(S) -> S]
  /\ \A k \in 1..Cardinality(S) : Cardinality(below[v[k]]) = k - 1

(* v has every element of S, each once, in the order.                      *)
Enumerates(v, S, below) ==
  /\ Len(v) \in Nat /\ Len(v) = Cardinality(S)
  /\ v \in Seq(S) /\ v \in [1..Len(v) -> S]
  /\ \A k, l \in 1..Len(v) : v[k] = v[l] => k = l
  /\ \A c \in S : \E k \in 1..Len(v) : v[k] = c
  /\ \A k, l \in 1..Len(v) : k < l => v[k] \in below[v[l]]

(* A list enumerates S, and is the only one that does.                     *)
LEMMA ListFacts ==
  ASSUME NEW S, IsFiniteSet(S), NEW below, IsOrder(S, below),
         NEW v, Lists(v, S, below)
  PROVE  Enumerates(v, S, below)
<1> DEFINE n == Cardinality(S)
<1>0. n \in Nat
  BY FS_CardinalityType
<1>1. v \in Seq(S) /\ v \in [1..n -> S] /\ Len(v) = n
  BY <1>0 DEF Lists
<1>2. \A k \in 1..n : v[k] \in S /\ Cardinality(below[v[k]]) = k - 1
  BY DEF Lists
<1>3. \A k, l \in 1..n : v[k] = v[l] => k = l
  <2>1. \A k, l \in 1..n : v[k] = v[l] => k - 1 = l - 1
    BY <1>2
  <2> QED
    BY <2>1
<1>4. ASSUME NEW c \in S
      PROVE  \E k \in 1..n : v[k] = c
  <2> DEFINE k == Cardinality(below[c]) + 1
  <2>1. k \in 1..n /\ Cardinality(below[c]) = k - 1
    BY <1>0, Ranks
  <2>2. v[k] = c
    BY <1>2, <2>1, Ranks
  <2> QED
    BY <2>1, <2>2
<1>5. ASSUME NEW k \in 1..n, NEW l \in 1..n, k < l
      PROVE  v[k] \in below[v[l]]
  <2>1. v[k] # v[l]
    BY <1>3, <1>5
  <2>2. v[l] \notin below[v[k]]
    <3>1. v[l] \in below[v[k]] => Cardinality(below[v[l]]) < Cardinality(below[v[k]])
      BY <1>2, Ranks
    <3>2. Cardinality(below[v[l]]) = l - 1 /\ Cardinality(below[v[k]]) = k - 1
      BY <1>2
    <3> QED
      BY <1>5, <3>1, <3>2
  <2> QED
    BY <1>2, <2>1, <2>2 DEF IsOrder
<1> QED
  BY <1>0, <1>1, <1>3, <1>4, <1>5 DEF Enumerates

(* Two lists of the same set in the same order are equal.                  *)
LEMMA OneList ==
  ASSUME NEW S, IsFiniteSet(S), NEW below, IsOrder(S, below),
         NEW v, Lists(v, S, below), NEW w, Lists(w, S, below)
  PROVE  v = w
<1>1. /\ v \in [1..Cardinality(S) -> S] /\ w \in [1..Cardinality(S) -> S]
      /\ \A k \in 1..Cardinality(S) :
           Cardinality(below[v[k]]) = k - 1 /\ Cardinality(below[w[k]]) = k - 1
  BY DEF Lists
<1>2. \A c, d \in S : Cardinality(below[c]) = Cardinality(below[d]) => c = d
  BY Ranks
<1>3. ASSUME NEW k \in 1..Cardinality(S)
      PROVE  v[k] = w[k]
  <2>1. v[k] \in S /\ w[k] \in S
    BY <1>1
  <2>2. Cardinality(below[v[k]]) = Cardinality(below[w[k]])
    BY <1>1
  <2> QED
    BY <1>2, <2>1, <2>2
<1>4. v = [k \in 1..Cardinality(S) |-> v[k]] /\ w = [k \in 1..Cardinality(S) |-> w[k]]
  BY <1>1
<1>5. [k \in 1..Cardinality(S) |-> v[k]] = [k \in 1..Cardinality(S) |-> w[k]]
  BY <1>3
<1> QED
  BY <1>4, <1>5

(* A sequence that has every element and in the order is the list.         *)
InOrder(v, n, S, below) ==
  /\ n \in Nat /\ v \in [1..n -> S]
  /\ \A c \in S : \E k \in 1..n : v[k] = c
  /\ \A k, l \in 1..n : k < l => v[k] \in below[v[l]]

(* Such a sequence has as many places as S has elements, and is its list.  *)
LEMMA OrderedIsList ==
  ASSUME NEW S, IsFiniteSet(S), NEW below, IsOrder(S, below),
         NEW n, NEW v, InOrder(v, n, S, below)
  PROVE  n = Cardinality(S) /\ Lists(v, S, below)
<1>0. /\ n \in Nat /\ v \in [1..n -> S]
      /\ \A c \in S : \E k \in 1..n : v[k] = c
      /\ \A k, l \in 1..n : k < l => v[k] \in below[v[l]]
  BY DEF InOrder
<1>1. \A k, l \in 1..n : v[k] = v[l] => k = l
  BY <1>0 DEF IsOrder
<1>2. v \in Bijection(1..n, S)
  <2>1. v \in Injection(1..n, S)
    BY <1>0, <1>1, Zenon DEF Injection, IsInjective
  <2>2. v \in Surjection(1..n, S)
    BY <1>0, Zenon DEF Surjection
  <2> QED
    BY <2>1, <2>2, Zenon DEF Bijection
<1>3. n = Cardinality(S)
  BY <1>0, <1>2, FS_Interval, FS_Bijection DEF ExistsBijection
<1>4. ASSUME NEW k \in 1..n
      PROVE  Cardinality(below[v[k]]) = k - 1
  <2>1. below[v[k]] = {v[l] : l \in 1..(k - 1)}
    <3>1. \A l \in 1..(k - 1) : l \in 1..n /\ v[l] \in below[v[k]]
      BY <1>0
    <3>2. ASSUME NEW c \in below[v[k]]
          PROVE  c \in {v[l] : l \in 1..(k - 1)}
      <4>1. PICK l \in 1..n : v[l] = c
        BY <1>0, <3>2 DEF IsOrder
      <4>2. l # k /\ ~(k < l)
        BY <1>0, <3>2, <4>1 DEF IsOrder
      <4>3. l \in 1..(k - 1)
        BY <1>0, <4>2
      <4> QED
        BY <4>1, <4>3
    <3> QED
      BY <3>1, <3>2
  <2> DEFINE w == [l \in 1..(k - 1) |-> v[l]]
  <2>2. w \in Bijection(1..(k - 1), below[v[k]])
    <3>1. \A l \in 1..(k - 1) : l \in 1..n /\ w[l] = v[l]
      BY <1>0
    <3>2. w \in [1..(k - 1) -> below[v[k]]]
      BY <2>1
    <3>3. \A l, m \in 1..(k - 1) : w[l] = w[m] => l = m
      BY <1>1, <3>1
    <3>4. \A c \in below[v[k]] : \E l \in 1..(k - 1) : w[l] = c
      BY <2>1, <3>1
    <3> HIDE DEF w
    <3>5. w \in Injection(1..(k - 1), below[v[k]])
      BY <3>2, <3>3, Zenon DEF Injection, IsInjective
    <3>6. w \in Surjection(1..(k - 1), below[v[k]])
      BY <3>2, <3>4, Zenon DEF Surjection
    <3> QED
      BY <3>5, <3>6, Zenon DEF Bijection
  <2>3. IsFiniteSet(1..(k - 1)) /\ Cardinality(1..(k - 1)) = k - 1
    BY <1>0, FS_Interval
  <2> HIDE DEF w
  <2> QED
    BY <2>2, <2>3, FS_Bijection DEF ExistsBijection
<1> QED
  BY <1>0, <1>3, <1>4 DEF Lists

-------------------------------------------------------------------------------
(* The orders of the specification, and its enumerations                   *)

RowBelow(S) == [c \in S |-> {d \in S : RowFirst(d, c)}]
ColumnBelow(S) == [c \in S |-> {d \in S : ColumnFirst(d, c)}]
PlaceBelow(v, keep) == [i \in keep |-> {j \in keep : ColumnFirst(v[j], v[i])}]

(* The order by rows and the one by columns are orders.                    *)
LEMMA CellOrders ==
  ASSUME NEW S \in SUBSET (Int \X Int)
  PROVE  IsOrder(S, RowBelow(S)) /\ IsOrder(S, ColumnBelow(S))
<1>1. \A c \in S : c[1] \in Int /\ c[2] \in Int /\ c = <<c[1], c[2]>>
  OBVIOUS
<1>2. /\ \A c \in S : ~RowFirst(c, c) /\ ~ColumnFirst(c, c)
      /\ \A c, d, e \in S : RowFirst(c, d) /\ RowFirst(d, e) => RowFirst(c, e)
      /\ \A c, d, e \in S : ColumnFirst(c, d) /\ ColumnFirst(d, e) => ColumnFirst(c, e)
  BY <1>1 DEF RowFirst, ColumnFirst
<1>3. ASSUME NEW c \in S, NEW d \in S, c # d
      PROVE  /\ RowFirst(c, d) \/ RowFirst(d, c)
             /\ ColumnFirst(c, d) \/ ColumnFirst(d, c)
  <2>1. c[1] # d[1] \/ c[2] # d[2]
    BY <1>1, <1>3
  <2> QED
    BY <1>1, <2>1 DEF RowFirst, ColumnFirst
<1>4. IsOrder(S, RowBelow(S))
  BY <1>2, <1>3 DEF IsOrder, RowBelow
<1>5. IsOrder(S, ColumnBelow(S))
  BY <1>2, <1>3 DEF IsOrder, ColumnBelow
<1> QED
  BY <1>4, <1>5

(* So is the order of the positions by the columns of their cells.         *)
LEMMA PlaceOrder ==
  ASSUME NEW n \in Nat, NEW v \in [1..n -> Int \X Int],
         \A i, j \in 1..n : v[i] = v[j] => i = j,
         NEW keep \in SUBSET (1..n)
  PROVE  IsOrder(keep, PlaceBelow(v, keep))
<1>1. \A i \in keep : v[i] \in Int \X Int
  OBVIOUS
<1>2. \A i \in keep : v[i][1] \in Int /\ v[i][2] \in Int /\ v[i] = <<v[i][1], v[i][2]>>
  BY <1>1
<1>3. /\ \A i \in keep : ~ColumnFirst(v[i], v[i])
      /\ \A i, j, k \in keep : ColumnFirst(v[i], v[j]) /\ ColumnFirst(v[j], v[k])
                                 => ColumnFirst(v[i], v[k])
  BY <1>2 DEF ColumnFirst
<1>4. ASSUME NEW i \in keep, NEW j \in keep, i # j
      PROVE  ColumnFirst(v[i], v[j]) \/ ColumnFirst(v[j], v[i])
  <2>1. v[i] # v[j]
    BY <1>4
  <2>2. v[i][1] # v[j][1] \/ v[i][2] # v[j][2]
    BY <1>2, <2>1
  <2> QED
    BY <1>2, <2>2 DEF ColumnFirst
<1> QED
  BY <1>3, <1>4 DEF IsOrder, PlaceBelow

(* The enumerations are the lists.                                         *)
LEMMA VectorLists ==
  ASSUME NEW S \in SUBSET (Int \X Int), IsFiniteSet(S)
  PROVE  Lists(Vector(S), S, RowBelow(S))
<1>1. \A c \in S : RowBelow(S)[c] = {d \in S : RowFirst(d, c)}
  BY DEF RowBelow
<1>2. \A k \in 1..Cardinality(S) : \E c \in S : Cardinality(RowBelow(S)[c]) = k - 1
  BY CellOrders, Ranks
<1>3. \A k \in 1..Cardinality(S) :
        \E c \in S : Cardinality({d \in S : RowFirst(d, c)}) = k - 1
  BY <1>1, <1>2
<1>4. \A k \in 1..Cardinality(S) :
        /\ Vector(S)[k] \in S
        /\ Cardinality({d \in S : RowFirst(d, Vector(S)[k])}) = k - 1
  BY <1>3 DEF Vector, Sorted
<1>5. Vector(S) \in [1..Cardinality(S) -> S]
  BY <1>3 DEF Vector, Sorted
<1> QED
  BY <1>1, <1>4, <1>5 DEF Lists

(* Sorting by columns lists the cells by columns.                          *)
LEMMA ColumnsLists ==
  ASSUME NEW S \in SUBSET (Int \X Int), IsFiniteSet(S)
  PROVE  Lists(Sorted(S, ColumnFirst), S, ColumnBelow(S))
<1> DEFINE v == Sorted(S, ColumnFirst)
<1>1. \A c \in S : ColumnBelow(S)[c] = {d \in S : ColumnFirst(d, c)}
  BY DEF ColumnBelow
<1>2. \A k \in 1..Cardinality(S) : \E c \in S : Cardinality(ColumnBelow(S)[c]) = k - 1
  BY CellOrders, Ranks
<1>3. \A k \in 1..Cardinality(S) :
        \E c \in S : Cardinality({d \in S : ColumnFirst(d, c)}) = k - 1
  BY <1>1, <1>2
<1>4. \A k \in 1..Cardinality(S) :
        /\ v[k] \in S
        /\ Cardinality({d \in S : ColumnFirst(d, v[k])}) = k - 1
  BY <1>3 DEF Sorted
<1>5. v \in [1..Cardinality(S) -> S]
  BY <1>3 DEF Sorted
<1> QED
  BY <1>1, <1>4, <1>5 DEF Lists

(* The list of a part of D with as many cells as D is the one of D.        *)
LEMMA FullList ==
  ASSUME NEW D \in SUBSET (Int \X Int), IsFiniteSet(D),
         NEW d, Lists(d, D, ColumnBelow(D)),
         NEW S \in SUBSET D, Cardinality(S) = Len(d),
         NEW v, Lists(v, S, ColumnBelow(S))
  PROVE  v = d
<1> DEFINE below == ColumnBelow(D)
<1>1. IsOrder(D, below) /\ Lists(d, D, below)
  BY CellOrders
<1>2. Len(d) = Cardinality(D)
  <2> HIDE DEF below
  <2>1. Enumerates(d, D, below)
    BY <1>1, ListFacts
  <2> QED
    BY <2>1 DEF Enumerates
<1>3. S = D
  BY <1>2, FS_Subset
<1>4. Lists(v, D, below)
  BY <1>3
<1> HIDE DEF below
<1> QED
  BY <1>1, <1>4, OneList

(* Positions lists the positions of keep by the columns of their cells.    *)
LEMMA PositionsLists ==
  ASSUME NEW keep, IsFiniteSet(keep), NEW v, IsOrder(keep, PlaceBelow(v, keep))
  PROVE  Lists(Positions(v, keep, ColumnFirst), keep, PlaceBelow(v, keep))
<1> DEFINE p == Positions(v, keep, ColumnFirst)
<1>1. \A i \in keep : PlaceBelow(v, keep)[i] = {j \in keep : ColumnFirst(v[j], v[i])}
  BY DEF PlaceBelow
<1>2. \A k \in 1..Cardinality(keep) :
        \E i \in keep : Cardinality(PlaceBelow(v, keep)[i]) = k - 1
  BY Ranks
<1>3. \A k \in 1..Cardinality(keep) :
        \E i \in keep : Cardinality({j \in keep : ColumnFirst(v[j], v[i])}) = k - 1
  BY <1>1, <1>2
<1>4. \A k \in 1..Cardinality(keep) :
        /\ p[k] \in keep
        /\ Cardinality({j \in keep : ColumnFirst(v[j], v[p[k]])}) = k - 1
  BY <1>3 DEF Positions, Sorted
<1>5. p \in [1..Cardinality(keep) -> keep]
  BY <1>3 DEF Positions, Sorted
<1> QED
  BY <1>1, <1>4, <1>5 DEF Lists

(* The cells of v at the positions of keep, moved by <<a, b>>, in the      *)
(* order of the columns.                                                   *)
Moved(c, a, b) == <<c[1] + a, c[2] + b>>

(* Moving two cells by the same amount keeps their order.                  *)
LEMMA MovedOrder ==
  ASSUME NEW c \in Int \X Int, NEW d \in Int \X Int, NEW a \in Int, NEW b \in Int,
         ColumnFirst(c, d)
  PROVE  ColumnFirst(Moved(c, a, b), Moved(d, a, b))
<1>1. c[1] \in Int /\ c[2] \in Int /\ d[1] \in Int /\ d[2] \in Int
  OBVIOUS
<1> QED
  BY <1>1 DEF ColumnFirst, Moved

MovedSet(v, keep, a, b) == {Moved(v[i], a, b) : i \in keep}

(* p has the positions of keep, and T the moved cells at them.             *)
MovedBy(p, v, keep, T, a, b) ==
  /\ T \in SUBSET (Int \X Int) /\ IsFiniteSet(T)
  /\ Len(p) \in Nat /\ Len(p) = Cardinality(T) /\ Len(p) = Cardinality(keep)
  /\ p \in Seq(keep) /\ p \in [1..Len(p) -> keep]
  /\ Lists([k \in 1..Len(p) |-> Moved(v[p[k]], a, b)], T, ColumnBelow(T))

IsVector(v, n) ==
  /\ n \in Nat /\ v \in [1..n -> Int \X Int]
  /\ \A i, j \in 1..n : v[i] = v[j] => i = j

(* The positions by columns enumerate the moved cells by columns: an index *)
(* map of evolve() sorts the cells it maps to.                             *)
LEMMA MovedCells ==
  ASSUME NEW n, NEW v, IsVector(v, n),
         NEW keep \in SUBSET (1..n), NEW a \in Int, NEW b \in Int,
         NEW p, p = Positions(v, keep, ColumnFirst),
         NEW T, T = MovedSet(v, keep, a, b)
  PROVE  MovedBy(p, v, keep, T, a, b)
<1> DEFINE below == PlaceBelow(v, keep)
           w == [k \in 1..Cardinality(keep) |-> Moved(v[p[k]], a, b)]
<1>0. /\ n \in Nat /\ v \in [1..n -> Int \X Int]
      /\ \A i, j \in 1..n : v[i] = v[j] => i = j
  BY DEF IsVector
<1>1. IsFiniteSet(keep)
  <2>1. IsFiniteSet(1..n)
    BY <1>0, FS_Interval
  <2> QED
    BY <2>1, FS_Subset
<1>2. IsOrder(keep, below)
  BY <1>0, PlaceOrder
<1>3. Lists(p, keep, below)
  BY <1>1, <1>2, PositionsLists
<1>4. \A i, j \in keep : j \in below[i] <=> ColumnFirst(v[j], v[i])
  BY DEF PlaceBelow
<1> HIDE DEF below
<1>5. /\ Cardinality(keep) \in Nat /\ p \in Seq(keep) /\ Len(p) = Cardinality(keep)
      /\ p \in [1..Len(p) -> keep]
      /\ \A c \in keep : \E k \in 1..Cardinality(keep) : p[k] = c
      /\ \A k, l \in 1..Cardinality(keep) : k < l => p[k] \in below[p[l]]
  <2>1. Enumerates(p, keep, below)
    BY <1>1, <1>2, <1>3, ListFacts
  <2> QED
    BY <2>1 DEF Enumerates
<1>6. \A k \in 1..Cardinality(keep) : p[k] \in keep
  BY <1>5
<1>7. \A i \in keep : v[i] \in Int \X Int
  BY <1>0
<1>8. \A i \in keep : v[i][1] \in Int /\ v[i][2] \in Int
  BY <1>7
<1>9. T \in SUBSET (Int \X Int)
  BY <1>8 DEF Moved, MovedSet
<1>10. w \in [1..Cardinality(keep) -> T]
  BY <1>6 DEF MovedSet
<1>11. \A c \in T : \E k \in 1..Cardinality(keep) : w[k] = c
  BY <1>5 DEF MovedSet
<1>12. \A k, l \in 1..Cardinality(keep) : k < l => w[k] \in ColumnBelow(T)[w[l]]
  <2>1. ASSUME NEW k \in 1..Cardinality(keep), NEW l \in 1..Cardinality(keep), k < l
        PROVE  w[k] \in ColumnBelow(T)[w[l]]
    <3>1. ColumnFirst(v[p[k]], v[p[l]])
      BY <1>4, <1>5, <1>6, <2>1
    <3>2. ColumnFirst(Moved(v[p[k]], a, b), Moved(v[p[l]], a, b))
      <4>1. v[p[k]] \in Int \X Int /\ v[p[l]] \in Int \X Int
        BY <1>6, <1>7
      <4> QED
        BY ONLY <3>1, <4>1, a \in Int, b \in Int, MovedOrder
    <3>4. w[k] = Moved(v[p[k]], a, b) /\ w[l] = Moved(v[p[l]], a, b)
      OBVIOUS
    <3>3. w[k] \in T /\ w[l] \in T
      BY <1>10
    <3> HIDE DEF w
    <3> QED
      BY <3>2, <3>3, <3>4 DEF ColumnBelow
  <2> QED
    BY <2>1
<1>13. IsFiniteSet(T)
  <2>1. IsFiniteSet(1..Cardinality(keep))
    BY <1>5, FS_Interval
  <2>2. w \in Surjection(1..Cardinality(keep), T)
    <3> HIDE DEF w
    <3> QED
      BY <1>10, <1>11, Zenon DEF Surjection
  <2> QED
    BY <2>1, <2>2, FS_Surjection
<1> HIDE DEF w
<1>14. Cardinality(keep) = Cardinality(T) /\ Lists(w, T, ColumnBelow(T))
  <2> DEFINE order == ColumnBelow(T)
             m == Cardinality(keep)
  <2>1. IsOrder(T, order)
    BY <1>9, CellOrders
  <2>2. m \in Nat
    BY <1>5
  <2> HIDE DEF order, m
  <2>3. m = Cardinality(T) /\ Lists(w, T, order)
    <3>1. InOrder(w, m, T, order)
      BY <1>10, <1>11, <1>12, <2>2 DEF InOrder, m, order
    <3> QED
      BY <1>13, <2>1, <3>1, OrderedIsList
  <2> QED
    BY <2>3 DEF order, m
<1> QED
  BY <1>5, <1>9, <1>13, <1>14 DEF w, MovedBy

-------------------------------------------------------------------------------
(* The patterns of a problem                                               *)

(* What the patterns are, for every problem the constants allow.           *)
LEMMA Patterns ==
  ASSUME prob \in Problem
  PROVE  /\ Dim \in Nat /\ Dim > 0 /\ NCon \in Nat
         /\ GradientCells \in SUBSET (Int \X Int) /\ IsFiniteSet(GradientCells)
         /\ LowerTriangle \in SUBSET (Int \X Int) /\ IsFiniteSet(LowerTriangle)
         /\ prob.grad \in SUBSET GradientCells
         /\ ObjectiveCells(prob) = {c \in prob.grad : c[1] = 0}
         /\ ConstraintCells(prob) = {c \in prob.grad : c[1] \in 1..NCon}
         /\ \A i \in 0..NCon : /\ HessianPattern(prob, i) \in SUBSET LowerTriangle
                               /\ HessianPattern(prob, i) \subseteq MergedPattern(prob)
         /\ MergedPattern(prob) \in SUBSET LowerTriangle
<1>1. Dim \in Nat /\ Dim > 0 /\ NCon \in Nat
  BY SparsityAssumption
<1>2. /\ prob.grad \in SUBSET GradientCells
      /\ prob.hess \in [0..NCon -> SUBSET LowerTriangle]
  BY SparsityAssumption
<1>3. IsFiniteSet(0..NCon) /\ IsFiniteSet(Columns)
  BY <1>1, FS_Interval DEF Columns
<1>4. GradientCells \in SUBSET (Int \X Int) /\ IsFiniteSet(GradientCells)
  BY <1>1, <1>3, FS_Product DEF GradientCells, Columns
<1>5. LowerTriangle \in SUBSET (Columns \X Columns) /\ IsFiniteSet(Columns \X Columns)
  BY <1>3, FS_Product DEF LowerTriangle
<1>6. LowerTriangle \in SUBSET (Int \X Int) /\ IsFiniteSet(LowerTriangle)
  <2>1. IsFiniteSet(LowerTriangle)
    BY <1>5, FS_Subset
  <2> QED
    BY <1>1, <1>5, <2>1 DEF Columns
<1>7. \A c \in prob.grad : c[1] \in 0..NCon /\ c[2] \in 0..(Dim - 1)
  BY <1>2 DEF GradientCells, Columns
<1>8. \A c \in prob.grad : RowFirst(c, <<1, 0>>) <=> c[1] = 0
  BY <1>1, <1>7 DEF RowFirst
<1>9. /\ ObjectiveCells(prob) = {c \in prob.grad : c[1] = 0}
      /\ ConstraintCells(prob) = {c \in prob.grad : c[1] \in 1..NCon}
  BY <1>1, <1>7, <1>8 DEF ObjectiveCells, ConstraintCells
<1>10. /\ MergedPattern(prob) \in SUBSET LowerTriangle
       /\ \A i \in 0..NCon : /\ HessianPattern(prob, i) \in SUBSET LowerTriangle
                             /\ HessianPattern(prob, i) \subseteq MergedPattern(prob)
  BY <1>2 DEF MergedPattern, HessianPattern, DenseHessian
<1> QED
  BY <1>1, <1>2, <1>4, <1>6, <1>9, <1>10

(* A pattern as pagmo stores it enumerates the pattern by rows.            *)
LEMMA VectorFacts ==
  ASSUME NEW S \in SUBSET (Int \X Int), IsFiniteSet(S)
  PROVE  Enumerates(Vector(S), S, RowBelow(S))
<1> DEFINE below == RowBelow(S)
<1>1. IsOrder(S, below) /\ Lists(Vector(S), S, below)
  BY CellOrders, VectorLists
<1> HIDE DEF below
<1>2. Enumerates(Vector(S), S, below)
  BY <1>1, ListFacts
<1> QED
  BY <1>2 DEF below

(* pagmo's gradient is the objective's part, then the constraints'.        *)
LEMMA GradientSplit ==
  ASSUME prob \in Problem
  PROVE  /\ Cardinality(prob.grad) = Len(fs) + Len(gs)
         /\ \A k \in 1..Len(fs) : Vector(prob.grad)[k] = fs[k]
         /\ \A k \in 1..Len(gs) : Vector(prob.grad)[Len(fs) + k] = gs[k]
<1> DEFINE S == prob.grad
           F == ObjectiveCells(prob)
           G == ConstraintCells(prob)
           n == Len(fs) + Len(gs)
           w == [k \in 1..n |-> IF k <= Len(fs) THEN fs[k] ELSE gs[k - Len(fs)]]
           below == RowBelow(S)
<1>1. S \in SUBSET (Int \X Int) /\ IsFiniteSet(S)
  BY Patterns, FS_Subset
<1>2. /\ F = {c \in S : c[1] = 0} /\ G = {c \in S : c[1] \in 1..NCon} /\ F \cup G = S
      /\ F \in SUBSET (Int \X Int) /\ IsFiniteSet(F)
      /\ G \in SUBSET (Int \X Int) /\ IsFiniteSet(G)
  <2>1. F = {c \in S : c[1] = 0} /\ G = {c \in S : c[1] \in 1..NCon}
    BY Patterns
  <2>2. F \cup G = S
    BY DEF ObjectiveCells, ConstraintCells
  <2>3. IsFiniteSet(F) /\ IsFiniteSet(G)
    BY <1>1, <2>2, FS_Subset
  <2> QED
    BY <1>1, <2>1, <2>2, <2>3
<1>3. /\ fs \in [1..Len(fs) -> F] /\ Len(fs) \in Nat
      /\ \A c \in F : \E k \in 1..Len(fs) : fs[k] = c
      /\ \A k, l \in 1..Len(fs) : k < l => RowFirst(fs[k], fs[l])
  <2>1. Enumerates(Vector(F), F, RowBelow(F)) /\ fs = Vector(F)
    BY <1>2, VectorFacts DEF fs
  <2> HIDE DEF F, G
  <2> QED
    BY <2>1 DEF Enumerates, RowBelow
<1>4. /\ gs \in [1..Len(gs) -> G] /\ Len(gs) \in Nat
      /\ \A c \in G : \E k \in 1..Len(gs) : gs[k] = c
      /\ \A k, l \in 1..Len(gs) : k < l => RowFirst(gs[k], gs[l])
  <2>1. Enumerates(Vector(G), G, RowBelow(G)) /\ gs = Vector(G)
    BY <1>2, VectorFacts DEF gs
  <2> HIDE DEF F, G
  <2> QED
    BY <2>1 DEF Enumerates, RowBelow
<1> HIDE DEF F, G, S
<1>5. n \in Nat /\ w \in [1..n -> S]
  BY <1>2, <1>3, <1>4
<1>6. /\ \A k \in 1..Len(fs) : k \in 1..n /\ w[k] = fs[k]
      /\ \A k \in 1..Len(gs) : Len(fs) + k \in 1..n /\ w[Len(fs) + k] = gs[k]
  BY <1>3, <1>4
<1>7. \A c \in S : \E k \in 1..n : w[k] = c
  <2>1. \A c \in F : \E k \in 1..n : w[k] = c
    BY <1>3, <1>6
  <2>2. \A c \in G : \E k \in 1..n : w[k] = c
    BY <1>4, <1>6
  <2> QED
    BY <1>2, <2>1, <2>2
<1>8. ASSUME NEW k \in 1..n, NEW l \in 1..n, k < l
      PROVE  RowFirst(w[k], w[l])
  <2>1. CASE l <= Len(fs)
    BY <1>3, <1>8, <2>1
  <2>2. CASE k > Len(fs)
    <3>1. k - Len(fs) \in 1..Len(gs) /\ l - Len(fs) \in 1..Len(gs)
      BY <1>3, <1>4, <1>8, <2>2
    <3>2. w[k] = gs[k - Len(fs)] /\ w[l] = gs[l - Len(fs)]
      BY <1>3, <1>8, <2>2
    <3> QED
      BY <1>3, <1>4, <1>8, <3>1, <3>2
  <2>3. CASE k <= Len(fs) /\ l > Len(fs)
    <3>1. w[k] \in F /\ w[l] \in G
      BY <1>3, <1>4, <2>3
    <3> QED
      BY <1>2, <3>1 DEF RowFirst
  <2> QED
    BY <1>3, <1>5, <2>1, <2>2, <2>3
<1> HIDE DEF n, w
<1>9. \A k, l \in 1..n : k < l => w[k] \in below[w[l]]
  BY <1>5, <1>8 DEF RowBelow
<1>10. IsOrder(S, below) /\ Lists(Vector(S), S, below)
  BY <1>1, CellOrders, VectorLists
<1> HIDE DEF below
<1>11. n = Cardinality(S) /\ Lists(w, S, below)
  <2>1. InOrder(w, n, S, below)
    BY <1>5, <1>7, <1>9 DEF InOrder
  <2> QED
    BY <1>1, <1>10, <2>1, OrderedIsList
<1>12. Vector(S) = w
  BY ONLY <1>1, <1>10, <1>11, OneList
<1> QED
  BY <1>6, <1>11, <1>12 DEF n, S

-------------------------------------------------------------------------------
(* The structures: the cells of each matrix, in the order evolve() has,    *)
(* are a list; and a matrix that is dense has them as the library orders   *)
(* them.                                                                   *)

(* DG has the cells of the constraints' gradients, counted as WORHP does.  *)
JacobianTarget == {Moved(c, 0, 1) : c \in ConstraintCells(prob)}

(* The cells AssignStructure writes to DG enumerate the target by columns, *)
(* one for each cell of the constraints' gradients.                        *)
LEMMA JacobianCells ==
  ASSUME prob \in Problem, gs_idx_map = GradientOrder(gs)
  PROVE  /\ Len(gs) \in Nat /\ gs \in [1..Len(gs) -> ConstraintCells(prob)]
         /\ Len(gs_idx_map) = Len(gs)
         /\ gs_idx_map \in Seq(DOMAIN gs) /\ gs_idx_map \in [1..Len(gs) -> 1..Len(gs)]
         /\ JacobianTarget \in SUBSET ((1..NCon) \X (1..Dim))
         /\ Lists([k \in 1..Len(gs) |-> DGCell(k)], JacobianTarget, ColumnBelow(JacobianTarget))
         /\ Enumerates([k \in 1..Len(gs) |-> DGCell(k)],
                       JacobianTarget, ColumnBelow(JacobianTarget))
         /\ Len(gs) = Cardinality(JacobianTarget)
<1> DEFINE G == ConstraintCells(prob)
           n == Len(gs)
           T == JacobianTarget
<1>1. /\ G = {c \in prob.grad : c[1] \in 1..NCon} /\ G \subseteq prob.grad
      /\ prob.grad \in SUBSET GradientCells
      /\ GradientCells \in SUBSET (Int \X Int) /\ IsFiniteSet(GradientCells)
      /\ Dim \in Nat /\ NCon \in Nat
  BY Patterns
<1>2. G \in SUBSET (Int \X Int) /\ IsFiniteSet(G)
  <2>1. G \in SUBSET GradientCells
    BY <1>1
  <2>2. IsFiniteSet(G)
    BY <1>1, <2>1, FS_Subset
  <2> QED
    BY <1>1, <2>1, <2>2
<1>3. /\ n \in Nat /\ n = Cardinality(G) /\ gs \in [1..n -> G]
      /\ \A k, l \in 1..n : gs[k] = gs[l] => k = l
      /\ \A c \in G : \E k \in 1..n : gs[k] = c
  <2>1. Enumerates(Vector(G), G, RowBelow(G)) /\ gs = Vector(G)
    BY <1>2, VectorFacts DEF gs
  <2> HIDE DEF G
  <2> QED
    BY <2>1 DEF Enumerates
<1>4. DOMAIN gs = 1..n /\ gs \in [1..n -> Int \X Int]
  <2> HIDE DEF G, n
  <2> QED
    BY <1>2, <1>3
<1>5. T = MovedSet(gs, 1..n, 0, 1)
  BY <1>3 DEF JacobianTarget, MovedSet
<1>6. gs_idx_map = Positions(gs, 1..n, ColumnFirst)
  BY <1>4 DEF GradientOrder
<1>7. MovedBy(gs_idx_map, gs, 1..n, T, 0, 1)
  <2>1. IsVector(gs, n)
    BY <1>3, <1>4 DEF IsVector
  <2> DEFINE keep == 1..n
  <2>2. /\ keep \in SUBSET (1..n) /\ 0 \in Int /\ 1 \in Int
        /\ T = MovedSet(gs, keep, 0, 1) /\ gs_idx_map = Positions(gs, keep, ColumnFirst)
    BY <1>5, <1>6
  <2> HIDE DEF n, T, keep
  <2>3. MovedBy(gs_idx_map, gs, keep, T, 0, 1)
    BY <2>1, <2>2, MovedCells
  <2> QED
    BY <2>3 DEF keep
<1>8. /\ T \in SUBSET (Int \X Int) /\ IsFiniteSet(T)
      /\ Len(gs_idx_map) = Cardinality(T) /\ Len(gs_idx_map) = Cardinality(1..n)
      /\ gs_idx_map \in Seq(1..n) /\ gs_idx_map \in [1..Len(gs_idx_map) -> 1..n]
      /\ Lists([k \in 1..Len(gs_idx_map) |-> Moved(gs[gs_idx_map[k]], 0, 1)],
               T, ColumnBelow(T))
  BY <1>7 DEF MovedBy
<1>9. Len(gs_idx_map) = n
  <2>1. Cardinality(1..n) = n
    BY <1>3, FS_Interval
  <2> QED
    BY <1>8, <2>1
<1>10. ASSUME NEW k \in 1..n
       PROVE  DGCell(k) = Moved(gs[gs_idx_map[k]], 0, 1)
  <2>1. gs[gs_idx_map[k]] \in Int \X Int
    BY <1>4, <1>8, <1>9
  <2>2. gs[gs_idx_map[k]][1] \in Int
    BY <2>1
  <2> QED
    BY <2>2 DEF DGCell, Moved
<1>11. T \in SUBSET ((1..NCon) \X (1..Dim))
  <2>1. ASSUME NEW c \in G
        PROVE  Moved(c, 0, 1) \in (1..NCon) \X (1..Dim)
    <3>1. c[1] \in 1..NCon /\ c[2] \in 0..(Dim - 1)
      BY <1>1 DEF GradientCells, Columns
    <3> QED
      BY <1>1, <3>1 DEF Moved
  <2> QED
    BY <2>1 DEF JacobianTarget
<1>12. [k \in 1..n |-> DGCell(k)] = [k \in 1..n |-> Moved(gs[gs_idx_map[k]], 0, 1)]
  BY <1>10
<1> DEFINE w == [k \in 1..n |-> DGCell(k)]
<1>13. Lists(w, T, ColumnBelow(T))
  BY <1>8, <1>9, <1>12
<1>14. Enumerates(w, T, ColumnBelow(T))
  <2>1. IsOrder(T, ColumnBelow(T))
    BY <1>8, CellOrders
  <2> HIDE DEF w, T
  <2> QED
    BY <1>8, <1>13, <2>1, ListFacts
<1> QED
  BY <1>3, <1>4, <1>8, <1>9, <1>11, <1>13, <1>14

(* A dense DG, as the library fills it in.                                 *)
LEMMA JacobianDense ==
  ASSUME prob \in Problem, gs_idx_map = GradientOrder(gs), Len(gs) = Len(DenseDG)
  PROVE  \A k \in 1..Len(gs) : DenseDG[k] = DGCell(k)
<1> DEFINE T == JacobianTarget
           D == (1..NCon) \X (1..Dim)
           w == [k \in 1..Len(gs) |-> DGCell(k)]
<1>1. T \in SUBSET D /\ Lists(w, T, ColumnBelow(T)) /\ Len(gs) = Cardinality(T)
  BY JacobianCells
<1>2. D \in SUBSET (Int \X Int) /\ IsFiniteSet(D)
  <2>1. Dim \in Nat /\ NCon \in Nat
    BY Patterns
  <2>2. IsFiniteSet(1..NCon) /\ IsFiniteSet(1..Dim)
    BY <2>1, FS_Interval
  <2>3. IsFiniteSet(D)
    BY ONLY <2>2, FS_Product
  <2> QED
    BY <2>1, <2>3
<1>3. Lists(DenseDG, D, ColumnBelow(D))
  BY <1>2, ColumnsLists DEF DenseDG
<1> HIDE DEF T, D, w
<1>4. w = DenseDG
  BY <1>1, <1>2, <1>3, FullList
<1> QED
  BY <1>4 DEF w

(* DF has the cells of the objective's gradient, each once, and all the    *)
(* columns in their order if it is dense.                                  *)
LEMMA ObjectiveRows ==
  ASSUME prob \in Problem
  PROVE  /\ Len(fs) \in Nat
         /\ \A k \in 1..Len(fs) : fs[k] = <<0, DFRow(k) - 1>> /\ DFRow(k) \in 1..Dim
         /\ \A k, l \in 1..Len(fs) : DFRow(k) = DFRow(l) => k = l
         /\ \A k \in 1..Len(fs) : fs[k] \in prob.grad
         /\ \A c \in prob.grad : c[1] = 0 => \E k \in 1..Len(fs) : fs[k] = c
         /\ Len(fs) = Dim => \A k \in 1..Dim : DFRow(k) = k
<1> DEFINE F == ObjectiveCells(prob)
           n == Len(fs)
           D == {0} \X Columns
           below == RowBelow(D)
           w == [k \in 1..Dim |-> <<0, k - 1>>]
<1>1. /\ F = {c \in prob.grad : c[1] = 0} /\ prob.grad \in SUBSET GradientCells
      /\ GradientCells \in SUBSET (Int \X Int) /\ IsFiniteSet(GradientCells)
      /\ Dim \in Nat /\ Dim > 0
  BY Patterns
<1>2. F \in SUBSET (Int \X Int) /\ IsFiniteSet(F)
  <2>1. F \in SUBSET GradientCells
    BY <1>1
  <2>2. IsFiniteSet(F)
    BY <1>1, <2>1, FS_Subset
  <2> QED
    BY <1>1, <2>1, <2>2
<1>3. fs = Vector(F) /\ Enumerates(fs, F, RowBelow(F))
  BY <1>2, VectorFacts DEF fs
<1>4. /\ n \in Nat /\ n = Cardinality(F) /\ fs \in [1..n -> F]
      /\ \A k, l \in 1..n : fs[k] = fs[l] => k = l
      /\ \A c \in F : \E k \in 1..n : fs[k] = c
  <2> HIDE DEF F
  <2> QED
    BY <1>3 DEF Enumerates
<1>5. ASSUME NEW k \in 1..n
      PROVE  fs[k] = <<0, DFRow(k) - 1>> /\ DFRow(k) \in 1..Dim /\ fs[k] \in prob.grad
  <2>1. fs[k] \in F
    BY <1>4
  <2>2. fs[k] \in prob.grad /\ fs[k][1] = 0 /\ fs[k] \in (0..NCon) \X (0..(Dim - 1))
    BY <1>1, <2>1 DEF GradientCells, Columns
  <2>3. fs[k] = <<0, fs[k][2]>> /\ fs[k][2] \in 0..(Dim - 1)
    BY <2>2
  <2>4. DFRow(k) = fs[k][2] + 1
    BY DEF DFRow
  <2> HIDE DEF F
  <2>5. DFRow(k) - 1 = fs[k][2] /\ DFRow(k) \in 1..Dim
    BY <1>1, <2>3, <2>4
  <2> QED
    BY <2>2, <2>3, <2>5
<1>6. \A k, l \in 1..n : DFRow(k) = DFRow(l) => k = l
  BY <1>4, <1>5
<1>7. ASSUME n = Dim
      PROVE  \A k \in 1..Dim : DFRow(k) = k
  <2>1. D \in SUBSET (Int \X Int) /\ IsFiniteSet(D)
    <3>1. IsFiniteSet({0}) /\ IsFiniteSet(Columns)
      <4>1. IsFiniteSet({0})
        BY FS_Singleton
      <4>2. IsFiniteSet(Columns)
        BY <1>1, FS_Interval DEF Columns
      <4> QED
        BY <4>1, <4>2
    <3>2. IsFiniteSet(D)
      BY ONLY <3>1, FS_Product
    <3> QED
      BY <3>2 DEF Columns
  <2>2. InOrder(w, Dim, D, below)
    <3>1. w \in [1..Dim -> D]
      BY <1>1 DEF Columns
    <3>2. ASSUME NEW c \in D
          PROVE  \E k \in 1..Dim : w[k] = c
      <4>1. c = <<0, c[2]>> /\ c[2] \in 0..(Dim - 1)
        BY DEF Columns
      <4>2. c[2] + 1 \in 1..Dim /\ w[c[2] + 1] = c
        BY <1>1, <4>1
      <4> QED
        BY <4>2
    <3>3. \A k, l \in 1..Dim : k < l => RowFirst(w[k], w[l])
      BY <1>1 DEF RowFirst
    <3> HIDE DEF w, D
    <3>4. \A k, l \in 1..Dim : k < l => w[k] \in below[w[l]]
      BY <3>1, <3>3 DEF RowBelow
    <3> QED
      BY <1>1, <3>1, <3>2, <3>4 DEF InOrder
  <2>3. IsOrder(D, below)
    BY <2>1, CellOrders
  <2>4. Dim = Cardinality(D) /\ Lists(w, D, below)
    <3> HIDE DEF w, D, below
    <3> QED
      BY <2>1, <2>2, <2>3, OrderedIsList
  <2>5. F = D
    <3>1. F \subseteq D
      BY <1>1 DEF GradientCells, Columns
    <3> HIDE DEF F, D
    <3> QED
      BY <1>4, <1>7, <2>1, <2>4, <3>1, FS_Subset
  <2>6. Lists(fs, D, below)
    <3>1. Lists(fs, F, RowBelow(F))
      BY <1>2, <1>3, VectorLists
    <3> QED
      BY <2>5, <3>1
  <2>7. fs = w
    <3> HIDE DEF w, D, below
    <3> QED
      BY <2>1, <2>3, <2>4, <2>6, OneList
  <2>8. ASSUME NEW k \in 1..Dim
        PROVE  DFRow(k) = k
    <3>1. fs[k] = <<0, k - 1>>
      BY <2>7
    <3>2. fs[k][2] = k - 1
      BY <3>1
    <3> QED
      BY <3>2 DEF DFRow
  <2> QED
    BY <2>8
<1> QED
  BY <1>1, <1>4, <1>5, <1>6, <1>7

(* The part of HM before the diagonal: the cells off the diagonal that the *)
(* hessians have, counted as WORHP does.                                   *)
StrictCells == {c \in MergedPattern(prob) : c[1] # c[2]}
HessianTarget == {Moved(c, 1, 1) : c \in StrictCells}
StrictTriangle == {c \in (1..Dim) \X (1..Dim) : c[1] > c[2]}

(* The cells AssignStructure writes to HM before the diagonal enumerate    *)
(* the merged pattern without its diagonal, by columns.                    *)
LEMMA HessianCells ==
  ASSUME prob \in Problem, merged_hs = Vector(MergedPattern(prob)),
         hs_idx_map = HessianOrder(merged_hs)
  PROVE  /\ merged_hs \in Seq(LowerTriangle) /\ hs_idx_map \in Seq(DOMAIN merged_hs)
         /\ Len(hs_idx_map) \in Nat /\ Len(hs_idx_map) = Cardinality(HessianTarget)
         /\ \A k \in 1..Len(hs_idx_map) : merged_hs[hs_idx_map[k]] \in StrictCells
         /\ \A k \in 1..Len(hs_idx_map) : HMCell(k) = Moved(merged_hs[hs_idx_map[k]], 1, 1)
         /\ HessianTarget \in SUBSET StrictTriangle
         /\ Lists([k \in 1..Len(hs_idx_map) |-> HMCell(k)],
                  HessianTarget, ColumnBelow(HessianTarget))
         /\ Enumerates([k \in 1..Len(hs_idx_map) |-> HMCell(k)],
                       HessianTarget, ColumnBelow(HessianTarget))
<1> DEFINE S == MergedPattern(prob)
           n == Len(merged_hs)
           keep == {i \in 1..n : merged_hs[i][1] # merged_hs[i][2]}
           p == hs_idx_map
           T == HessianTarget
           w == [k \in 1..Len(p) |-> HMCell(k)]
<1>1. /\ S \in SUBSET LowerTriangle /\ Dim \in Nat
      /\ LowerTriangle \in SUBSET (Int \X Int) /\ IsFiniteSet(LowerTriangle)
  BY Patterns
<1>2. S \in SUBSET (Int \X Int) /\ IsFiniteSet(S)
  BY <1>1, FS_Subset
<1>3. /\ n \in Nat /\ merged_hs \in [1..n -> S] /\ merged_hs \in Seq(S)
      /\ \A k, l \in 1..n : merged_hs[k] = merged_hs[l] => k = l
      /\ \A c \in S : \E k \in 1..n : merged_hs[k] = c
  <2> HIDE DEF S
  <2>1. Enumerates(Vector(S), S, RowBelow(S)) /\ merged_hs = Vector(S)
    BY <1>2, VectorFacts DEF S
  <2> QED
    BY <2>1 DEF Enumerates
<1>4. DOMAIN merged_hs = 1..n /\ IsVector(merged_hs, n)
  <2> HIDE DEF S, n
  <2> QED
    BY <1>2, <1>3 DEF IsVector
<1>5. keep \in SUBSET (1..n) /\ p = Positions(merged_hs, keep, ColumnFirst)
  BY <1>4 DEF HessianOrder
<1>6. T = MovedSet(merged_hs, keep, 1, 1)
  BY <1>3 DEF HessianTarget, StrictCells, MovedSet
<1>7. MovedBy(p, merged_hs, keep, T, 1, 1)
  <2> HIDE DEF n, T, keep, p
  <2> QED
    BY <1>4, <1>5, <1>6, MovedCells
<1>8. /\ T \in SUBSET (Int \X Int) /\ IsFiniteSet(T)
      /\ Len(p) \in Nat /\ Len(p) = Cardinality(T)
      /\ p \in Seq(keep) /\ p \in [1..Len(p) -> keep]
      /\ Lists([k \in 1..Len(p) |-> Moved(merged_hs[p[k]], 1, 1)], T, ColumnBelow(T))
  <2> HIDE DEF T, keep, p
  <2> QED
    BY <1>7 DEF MovedBy
<1>9. \A k \in 1..Len(p) : merged_hs[p[k]] \in StrictCells
  BY <1>3, <1>8 DEF StrictCells
<1>10. \A k \in 1..Len(p) : HMCell(k) = Moved(merged_hs[p[k]], 1, 1)
  BY <1>8 DEF HMCell, Moved
<1>11. T \in SUBSET StrictTriangle
  <2>1. ASSUME NEW c \in StrictCells
        PROVE  Moved(c, 1, 1) \in StrictTriangle
    <3>1. /\ c[1] \in 0..(Dim - 1) /\ c[2] \in 0..(Dim - 1)
          /\ c[1] >= c[2] /\ c[1] # c[2]
      BY <1>1 DEF StrictCells, LowerTriangle, Columns
    <3> QED
      BY <1>1, <3>1 DEF Moved, StrictTriangle
  <2> QED
    BY <2>1 DEF HessianTarget
<1>12. w = [k \in 1..Len(p) |-> Moved(merged_hs[p[k]], 1, 1)]
  BY <1>10
<1>13. Lists(w, T, ColumnBelow(T))
  BY <1>8, <1>12
<1>14. Enumerates(w, T, ColumnBelow(T))
  <2>1. IsOrder(T, ColumnBelow(T))
    BY <1>8, CellOrders
  <2> HIDE DEF w, T
  <2> QED
    BY <1>8, <1>13, <2>1, ListFacts
<1>15. merged_hs \in Seq(LowerTriangle) /\ p \in Seq(DOMAIN merged_hs)
  <2>1. merged_hs \in Seq(LowerTriangle)
    BY <1>1, <1>3
  <2>2. p \in Seq(1..n)
    <3>1. keep \subseteq 1..n
      OBVIOUS
    <3>2. p \in [1..Len(p) -> keep] /\ Len(p) \in Nat
      BY <1>8
    <3> HIDE DEF keep, n, p
    <3> DEFINE m == Len(p)
               K == 1..n
    <3>3. m \in Nat /\ p \in [1..m -> K]
      BY <3>1, <3>2
    <3> HIDE DEF m, K
    <3>4. p \in Seq(K)
      BY <3>3
    <3> QED
      BY <3>4 DEF K
  <2> QED
    BY <1>4, <2>1, <2>2
<1> QED
  BY <1>8, <1>9, <1>10, <1>11, <1>13, <1>14, <1>15

(* A dense HM, as the library fills it in.                                 *)
LEMMA HessianDense ==
  ASSUME prob \in Problem, merged_hs = Vector(MergedPattern(prob)),
         hs_idx_map = HessianOrder(merged_hs),
         Len(hs_idx_map) + Dim = Len(DenseHM)
  PROVE  \A k \in 1..(Len(hs_idx_map) + Dim) : DenseHM[k] = HMCell(k)
<1> DEFINE T == HessianTarget
           D == StrictTriangle
           n == Len(hs_idx_map)
           w == [k \in 1..n |-> HMCell(k)]
           lower == Sorted(D, ColumnFirst)
           diagonal == [k \in 1..Dim |-> <<k, k>>]
<1>1. /\ T \in SUBSET D /\ Lists(w, T, ColumnBelow(T))
      /\ n \in Nat /\ n = Cardinality(T)
  BY HessianCells
<1>2. Dim \in Nat
  BY Patterns
<1>3. D \in SUBSET (Int \X Int) /\ IsFiniteSet(D)
  <2>1. IsFiniteSet(1..Dim)
    BY <1>2, FS_Interval
  <2>2. IsFiniteSet((1..Dim) \X (1..Dim))
    BY ONLY <2>1, FS_Product
  <2>3. IsFiniteSet(D)
    BY <2>2, FS_Subset DEF StrictTriangle
  <2> QED
    BY <1>2, <2>3 DEF StrictTriangle
<1>4. Lists(lower, D, ColumnBelow(D)) /\ IsOrder(D, ColumnBelow(D))
  BY <1>3, ColumnsLists, CellOrders
<1>5. Enumerates(lower, D, ColumnBelow(D))
  <2> HIDE DEF D, lower
  <2> QED
    BY <1>3, <1>4, ListFacts
<1>6. Len(lower) \in Nat /\ lower \in Seq(D)
  BY <1>5 DEF Enumerates
<1>7. DenseHM = lower \o diagonal
  BY DEF DenseHM, StrictTriangle
<1>8. diagonal \in Seq((1..Dim) \X (1..Dim)) /\ Len(diagonal) = Dim
  BY <1>2
<1> HIDE DEF T, D, w, lower, diagonal, n
<1>9. Len(DenseHM) = Len(lower) + Dim
  BY <1>6, <1>7, <1>8
<1>10. n = Len(lower)
  BY <1>1, <1>2, <1>6, <1>9 DEF n
<1>11. w = lower
  BY <1>1, <1>3, <1>4, <1>10, FullList
<1>12. ASSUME NEW k \in 1..(n + Dim)
       PROVE  DenseHM[k] = HMCell(k)
  <2>1. CASE k <= n
    <3>1. DenseHM[k] = lower[k]
      BY <1>1, <1>6, <1>7, <1>8, <1>10, <2>1
    <3>2. w[k] = HMCell(k)
      BY <1>1, <2>1 DEF w
    <3> QED
      BY <1>11, <3>1, <3>2
  <2>2. CASE k > n
    <3>1. DenseHM[k] = diagonal[k - n] /\ k - n \in 1..Dim
      BY <1>1, <1>2, <1>6, <1>7, <1>8, <1>10, <2>2
    <3>2. diagonal[k - n] = <<k - n, k - n>>
      BY <3>1 DEF diagonal
    <3> QED
      BY <1>1, <2>2, <3>1, <3>2 DEF HMCell, n
  <2> QED
    BY <1>1, <1>2, <2>1, <2>2
<1> QED
  BY <1>12 DEF n

-------------------------------------------------------------------------------
(* The inductive invariant *)

(* The maps are those of the problem's patterns once they are computed.    *)
MapsOK ==
  /\ prob \in Problem
  /\ phase \in {"start", "mapped", "allocated", "ready"}
  /\ IF phase = "start"
       THEN gs_idx_map = <<>> /\ merged_hs = <<>> /\ hs_idx_map = <<>>
       ELSE /\ gs_idx_map = GradientOrder(gs)
            /\ merged_hs = Vector(MergedPattern(prob))
            /\ hs_idx_map = HessianOrder(merged_hs)

SizesOK ==
  IF phase = "start" THEN df.nnz = 0 /\ dg.nnz = 0 /\ hm.nnz = 0
  ELSE df.nnz = Len(fs) /\ dg.nnz = Len(gs) /\ hm.nnz = Len(hs_idx_map) + Dim

(* m has no structure, then the library's if it is dense, then one in any  *)
(* case: and it is always the one of evolve().                             *)
HasStructure(m, dense, row, col) ==
  IF phase = "ready" \/ (phase = "allocated" /\ ~NeedStructure(m, dense))
  THEN m.row = row /\ m.col = col
  ELSE m.row = <<>> /\ m.col = <<>>

StructureOK ==
  /\ HasStructure(df, DenseDF, [k \in 1..df.nnz |-> DFRow(k)], [k \in 1..df.nnz |-> 1])
  /\ HasStructure(dg, DenseDG, [k \in 1..dg.nnz |-> DGCell(k)[1]],
                               [k \in 1..dg.nnz |-> DGCell(k)[2]])
  /\ HasStructure(hm, DenseHM, [k \in 1..hm.nnz |-> HMCell(k)[1]],
                               [k \in 1..hm.nnz |-> HMCell(k)[2]])

(* The values are those of the iterate they were asked for.                *)
HasValues(m, val) ==
  /\ m = [nnz |-> m.nnz, row |-> m.row, col |-> m.col, val |-> m.val, at |-> m.at]
  /\ m.at \in Iterate \cup {NoIterate}
  /\ phase # "ready" => m.at = NoIterate
  /\ m.val = IF m.at = NoIterate THEN <<>> ELSE val

DFValues == [k \in 1..df.nnz |-> GradientVector(prob, df.at)[k]]
DGValues == [k \in 1..dg.nnz |-> GradientVector(prob, dg.at)[df.nnz + gs_idx_map[k]]]
HMValues == [k \in 1..hm.nnz |-> MergedHessian(hm.at, HMSource(k))]

ValuesOK ==
  /\ HasValues(df, DFValues)
  /\ HasValues(dg, DGValues)
  /\ HasValues(hm, HMValues)

IInv == MapsOK /\ SizesOK /\ StructureOK /\ ValuesOK

(* evolve() starts without maps, structures or values.                     *)
THEOREM InitInvariant == Init => IInv
<1> SUFFICES ASSUME Init PROVE IInv
  OBVIOUS
<1>1. MapsOK /\ SizesOK
  BY DEF Init, MapsOK, SizesOK, Unallocated
<1>2. StructureOK
  BY DEF Init, StructureOK, HasStructure, Unallocated
<1>3. ValuesOK
  BY DEF Init, ValuesOK, HasValues, Unallocated
<1> QED
  BY <1>1, <1>2, <1>3 DEF IInv

(* The maps and the sizes are set once, by PrepareMaps.                    *)
LEMMA MapsStep == IInv /\ [Next]_vars => MapsOK' /\ SizesOK'
<1> SUFFICES ASSUME IInv, [Next]_vars PROVE MapsOK' /\ SizesOK'
  OBVIOUS
<1>0. MapsOK /\ SizesOK /\ ValuesOK
  BY DEF IInv
<1>1. CASE PrepareMaps
  <2>1. /\ phase = "start" /\ phase' = "mapped" /\ prob' = prob
        /\ gs_idx_map' = GradientOrder(gs)
        /\ merged_hs' = Vector(MergedPattern(prob))
        /\ hs_idx_map' = HessianOrder(merged_hs')
    BY <1>1 DEF PrepareMaps
  <2>2. fs' = fs /\ gs' = gs
    BY <2>1 DEF fs, gs
  <2>3. MapsOK'
    BY <1>0, <2>1, <2>2 DEF MapsOK
  <2>4. df'.nnz = Len(fs) /\ dg'.nnz = Len(gs) /\ hm'.nnz = Len(hs_idx_map') + Dim
    BY <1>0, <1>1 DEF PrepareMaps, ValuesOK, HasValues
  <2> QED
    BY <2>1, <2>2, <2>3, <2>4 DEF SizesOK
<1>2. CASE WorhpInit \/ AssignStructure \/ UserDF \/ UserDG \/ UserHM \/ UNCHANGED vars
  <2>1. /\ prob' = prob /\ gs_idx_map' = gs_idx_map /\ merged_hs' = merged_hs
        /\ hs_idx_map' = hs_idx_map /\ phase' \in {phase, "allocated", "ready"}
        /\ phase' = "start" <=> phase = "start"
    BY <1>2 DEF WorhpInit, AssignStructure, UserDF, UserDG, UserHM, vars
  <2>2. fs' = fs /\ gs' = gs
    BY <2>1 DEF fs, gs
  <2>3. MapsOK'
    BY <1>0, <2>1, <2>2 DEF MapsOK
  <2>4. df'.nnz = df.nnz /\ dg'.nnz = dg.nnz /\ hm'.nnz = hm.nnz
    <3>1. CASE WorhpInit
      BY <1>0, <3>1 DEF WorhpInit, Allocated, ValuesOK, HasValues
    <3>2. CASE AssignStructure
      BY <1>0, <3>2 DEF AssignStructure, ValuesOK, HasValues
    <3>3. CASE UserDF \/ UserDG \/ UserHM \/ UNCHANGED vars
      BY <1>0, <3>3 DEF UserDF, UserDG, UserHM, vars, ValuesOK, HasValues
    <3> QED
      BY <1>2, <3>1, <3>2, <3>3
  <2> QED
    BY <1>0, <2>1, <2>2, <2>3, <2>4 DEF SizesOK
<1> QED
  BY <1>1, <1>2 DEF Next

(* The structure of each matrix is evolve()'s, also where WorhpInit wrote  *)
(* it: that of a dense matrix is the same.                                 *)
LEMMA StructureStep == IInv /\ [Next]_vars => StructureOK'
<1> SUFFICES ASSUME IInv, [Next]_vars PROVE StructureOK'
  OBVIOUS
<1>0. MapsOK /\ SizesOK /\ StructureOK /\ ValuesOK
  BY DEF IInv
<1>1. CASE PrepareMaps
  <2>1. phase = "start" /\ phase' = "mapped"
    BY <1>1 DEF PrepareMaps
  <2>2. /\ df.row = <<>> /\ df.col = <<>> /\ dg.row = <<>> /\ dg.col = <<>>
        /\ hm.row = <<>> /\ hm.col = <<>>
    BY <1>0, <2>1 DEF StructureOK, HasStructure
  <2>3. /\ df'.row = df.row /\ df'.col = df.col /\ dg'.row = dg.row /\ dg'.col = dg.col
        /\ hm'.row = hm.row /\ hm'.col = hm.col
    BY <1>0, <1>1 DEF PrepareMaps, ValuesOK, HasValues
  <2> QED
    BY <2>1, <2>2, <2>3 DEF StructureOK, HasStructure
<1>a. CASE ~PrepareMaps
  <2>1. /\ prob' = prob /\ gs_idx_map' = gs_idx_map /\ merged_hs' = merged_hs
        /\ hs_idx_map' = hs_idx_map
    BY <1>a DEF Next, WorhpInit, AssignStructure, UserDF, UserDG, UserHM, vars
  <2>2. fs' = fs /\ gs' = gs
    BY <2>1 DEF fs, gs
  <2>3. /\ \A k : DFRow(k)' = DFRow(k)
        /\ \A k : DGCell(k)' = DGCell(k)
        /\ \A k : HMCell(k)' = HMCell(k)
    BY <2>1, <2>2 DEF DFRow, DGCell, HMCell
  <2>a. /\ phase' = phase \/ phase = "mapped" \/ phase = "allocated"
        /\ df'.nnz = df.nnz /\ dg'.nnz = dg.nnz /\ hm'.nnz = hm.nnz
    BY <1>0, <1>a DEF Next, WorhpInit, AssignStructure, UserDF, UserDG, UserHM, vars,
                      Allocated, ValuesOK, HasValues
  <2>4. CASE WorhpInit
    <3>1. /\ phase = "mapped" /\ phase' = "allocated"
          /\ df' = Allocated(df, DenseDF)
          /\ dg' = Allocated(dg, DenseDG)
          /\ hm' = Allocated(hm, DenseHM)
      BY <2>4 DEF WorhpInit
    <3>2. /\ df.nnz = Len(fs) /\ dg.nnz = Len(gs) /\ hm.nnz = Len(hs_idx_map) + Dim
          /\ gs_idx_map = GradientOrder(gs)
          /\ merged_hs = Vector(MergedPattern(prob)) /\ hs_idx_map = HessianOrder(merged_hs)
          /\ prob \in Problem
      BY <1>0, <3>1 DEF SizesOK, MapsOK
    <3>3. /\ df.row = <<>> /\ df.col = <<>> /\ dg.row = <<>> /\ dg.col = <<>>
          /\ hm.row = <<>> /\ hm.col = <<>>
      BY <1>0, <3>1 DEF StructureOK, HasStructure
    <3>4. HasStructure(df, DenseDF, [k \in 1..df.nnz |-> DFRow(k)], [k \in 1..df.nnz |-> 1])'
      <4>1. CASE df.nnz # Len(DenseDF)
        <5>1. df' = df
          BY <3>1, <4>1 DEF Allocated, NeedStructure
        <5> QED
          BY <3>1, <3>3, <4>1, <5>1 DEF HasStructure, NeedStructure
      <4>2. CASE df.nnz = Len(DenseDF)
        <5>1. Len(DenseDF) = Dim /\ \A k \in 1..Dim : DenseDF[k] = <<k, 1>> /\ DFRow(k) = k
          BY <3>2, <4>2, Patterns, ObjectiveRows DEF DenseDF
        <5>2. /\ df'.row = [k \in 1..df.nnz |-> DenseDF[k][1]]
              /\ df'.col = [k \in 1..df.nnz |-> DenseDF[k][2]]
          BY <1>0, <3>1, <4>2 DEF Allocated, NeedStructure, ValuesOK, HasValues
        <5>3. /\ df'.row = [k \in 1..df'.nnz |-> DFRow(k)']
              /\ df'.col = [k \in 1..df'.nnz |-> 1]
          BY <2>3, <2>a, <4>2, <5>1, <5>2
        <5> QED
          BY <2>a, <3>1, <4>2, <5>3 DEF HasStructure, NeedStructure
      <4> QED
        BY <4>1, <4>2
    <3>5. HasStructure(dg, DenseDG, [k \in 1..dg.nnz |-> DGCell(k)[1]],
                                    [k \in 1..dg.nnz |-> DGCell(k)[2]])'
      <4>1. CASE dg.nnz # Len(DenseDG)
        <5>1. dg' = dg
          BY <3>1, <4>1 DEF Allocated, NeedStructure
        <5> QED
          BY <3>1, <3>3, <4>1, <5>1 DEF HasStructure, NeedStructure
      <4>2. CASE dg.nnz = Len(DenseDG)
        <5>1. \A k \in 1..dg.nnz : DenseDG[k] = DGCell(k)
          BY <3>2, <4>2, JacobianDense
        <5>2. /\ dg'.row = [k \in 1..dg.nnz |-> DenseDG[k][1]]
              /\ dg'.col = [k \in 1..dg.nnz |-> DenseDG[k][2]]
          BY <1>0, <3>1, <4>2 DEF Allocated, NeedStructure, ValuesOK, HasValues
        <5>3. /\ dg'.row = [k \in 1..dg'.nnz |-> DGCell(k)'[1]]
              /\ dg'.col = [k \in 1..dg'.nnz |-> DGCell(k)'[2]]
          BY <2>3, <2>a, <5>1, <5>2
        <5> QED
          BY <2>a, <3>1, <4>2, <5>3 DEF HasStructure, NeedStructure
      <4> QED
        BY <4>1, <4>2
    <3>6. HasStructure(hm, DenseHM, [k \in 1..hm.nnz |-> HMCell(k)[1]],
                                    [k \in 1..hm.nnz |-> HMCell(k)[2]])'
      <4>1. CASE hm.nnz # Len(DenseHM)
        <5>1. hm' = hm
          BY <3>1, <4>1 DEF Allocated, NeedStructure
        <5> QED
          BY <3>1, <3>3, <4>1, <5>1 DEF HasStructure, NeedStructure
      <4>2. CASE hm.nnz = Len(DenseHM)
        <5>1. \A k \in 1..hm.nnz : DenseHM[k] = HMCell(k)
          BY <3>2, <4>2, HessianDense
        <5>2. /\ hm'.row = [k \in 1..hm.nnz |-> DenseHM[k][1]]
              /\ hm'.col = [k \in 1..hm.nnz |-> DenseHM[k][2]]
          BY <1>0, <3>1, <4>2 DEF Allocated, NeedStructure, ValuesOK, HasValues
        <5>3. /\ hm'.row = [k \in 1..hm'.nnz |-> HMCell(k)'[1]]
              /\ hm'.col = [k \in 1..hm'.nnz |-> HMCell(k)'[2]]
          BY <2>3, <2>a, <5>1, <5>2
        <5> QED
          BY <2>a, <3>1, <4>2, <5>3 DEF HasStructure, NeedStructure
      <4> QED
        BY <4>1, <4>2
    <3> QED
      BY <3>4, <3>5, <3>6 DEF StructureOK
  <2>5. CASE AssignStructure
    <3>1. phase = "allocated" /\ phase' = "ready"
      BY <2>5 DEF AssignStructure
    <3>2. /\ df'.row = [k \in 1..df.nnz |-> DFRow(k)]
          /\ df'.col = [k \in 1..df.nnz |-> 1]
      BY <1>0, <2>5, <3>1 DEF AssignStructure, StructureOK, HasStructure, ValuesOK, HasValues
    <3>3. /\ dg'.row = [k \in 1..dg.nnz |-> DGCell(k)[1]]
          /\ dg'.col = [k \in 1..dg.nnz |-> DGCell(k)[2]]
      BY <1>0, <2>5, <3>1 DEF AssignStructure, StructureOK, HasStructure, ValuesOK, HasValues
    <3>4. /\ hm'.row = [k \in 1..hm.nnz |-> HMCell(k)[1]]
          /\ hm'.col = [k \in 1..hm.nnz |-> HMCell(k)[2]]
      BY <1>0, <2>5, <3>1 DEF AssignStructure, StructureOK, HasStructure, ValuesOK, HasValues
    <3>5. /\ df'.row = [k \in 1..df'.nnz |-> DFRow(k)']
          /\ df'.col = [k \in 1..df'.nnz |-> 1]
          /\ dg'.row = [k \in 1..dg'.nnz |-> DGCell(k)'[1]]
          /\ dg'.col = [k \in 1..dg'.nnz |-> DGCell(k)'[2]]
          /\ hm'.row = [k \in 1..hm'.nnz |-> HMCell(k)'[1]]
          /\ hm'.col = [k \in 1..hm'.nnz |-> HMCell(k)'[2]]
      BY <2>3, <2>a, <3>2, <3>3, <3>4
    <3> QED
      BY <3>1, <3>5 DEF StructureOK, HasStructure
  <2>6. CASE UserDF \/ UserDG \/ UserHM \/ UNCHANGED vars
    <3>1. phase' = phase
      BY <2>6 DEF UserDF, UserDG, UserHM, vars
    <3>2. /\ df'.row = df.row /\ df'.col = df.col /\ dg'.row = dg.row /\ dg'.col = dg.col
          /\ hm'.row = hm.row /\ hm'.col = hm.col
      BY <1>0, <2>6 DEF UserDF, UserDG, UserHM, vars, ValuesOK, HasValues
    <3>3. /\ [k \in 1..df'.nnz |-> DFRow(k)'] = [k \in 1..df.nnz |-> DFRow(k)]
          /\ [k \in 1..dg'.nnz |-> DGCell(k)'[1]] = [k \in 1..dg.nnz |-> DGCell(k)[1]]
          /\ [k \in 1..dg'.nnz |-> DGCell(k)'[2]] = [k \in 1..dg.nnz |-> DGCell(k)[2]]
          /\ [k \in 1..hm'.nnz |-> HMCell(k)'[1]] = [k \in 1..hm.nnz |-> HMCell(k)[1]]
          /\ [k \in 1..hm'.nnz |-> HMCell(k)'[2]] = [k \in 1..hm.nnz |-> HMCell(k)[2]]
      BY <2>3, <2>a
    <3>4. HasStructure(df, DenseDF, [k \in 1..df.nnz |-> DFRow(k)], [k \in 1..df.nnz |-> 1])'
      BY <1>0, <2>a, <3>1, <3>2, <3>3 DEF StructureOK, HasStructure, NeedStructure
    <3>5. HasStructure(dg, DenseDG, [k \in 1..dg.nnz |-> DGCell(k)[1]],
                                    [k \in 1..dg.nnz |-> DGCell(k)[2]])'
      BY <1>0, <2>a, <3>1, <3>2, <3>3 DEF StructureOK, HasStructure, NeedStructure
    <3>6. HasStructure(hm, DenseHM, [k \in 1..hm.nnz |-> HMCell(k)[1]],
                                    [k \in 1..hm.nnz |-> HMCell(k)[2]])'
      BY <1>0, <2>a, <3>1, <3>2, <3>3 DEF StructureOK, HasStructure, NeedStructure
    <3> QED
      BY <3>4, <3>5, <3>6 DEF StructureOK
  <2> QED
    BY <1>a, <2>4, <2>5, <2>6 DEF Next
<1> QED
  BY <1>1, <1>a

(* A matrix without values stays one when its structure is written.        *)
IsBlank(m) ==
  m = [nnz |-> m.nnz, row |-> m.row, col |-> m.col, val |-> <<>>, at |-> NoIterate]

(* A matrix without values was not evaluated.                              *)
LEMMA BlankFields ==
  ASSUME NEW m, IsBlank(m)
  PROVE  m.val = <<>> /\ m.at = NoIterate
<1> DEFINE blank(n, r, c) == [nnz |-> n, row |-> r, col |-> c, val |-> <<>>, at |-> NoIterate]
<1>1. \A n, r, c : blank(n, r, c).val = <<>> /\ blank(n, r, c).at = NoIterate
  OBVIOUS
<1>2. m = blank(m.nnz, m.row, m.col)
  BY DEF IsBlank
<1> HIDE DEF blank
<1> QED
  BY <1>1, <1>2

(* Writing the structure gives it no values.                               *)
LEMMA BlankRewritten ==
  ASSUME NEW m, IsBlank(m), NEW r, NEW c
  PROVE  IsBlank([m EXCEPT !.row = r, !.col = c])
<1> DEFINE blank == [nnz |-> m.nnz, row |-> m.row, col |-> m.col, val |-> <<>>, at |-> NoIterate]
           done == [nnz |-> m.nnz, row |-> r, col |-> c, val |-> <<>>, at |-> NoIterate]
           half == [nnz |-> m.nnz, row |-> r, col |-> m.col, val |-> <<>>, at |-> NoIterate]
<1>1. [blank EXCEPT !.row = r, !.col = c] = done
  <2>1. [blank EXCEPT !.row = r] = half
    OBVIOUS
  <2>2. [half EXCEPT !.col = c] = done
    OBVIOUS
  <2>3. [blank EXCEPT !.row = r, !.col = c] = [[blank EXCEPT !.row = r] EXCEPT !.col = c]
    OBVIOUS
  <2> HIDE DEF half, blank, done
  <2> QED
    BY <2>1, <2>2, <2>3
<1>2. m = blank
  BY DEF IsBlank
<1>3. [m EXCEPT !.row = r, !.col = c] = done
  <2> DEFINE copy == blank
  <2>1. m = copy /\ [copy EXCEPT !.row = r, !.col = c] = done
    BY <1>1, <1>2
  <2> HIDE DEF copy, done
  <2> QED
    BY <2>1
<1>4. IsBlank(done)
  BY DEF IsBlank
<1> HIDE DEF done
<1> QED
  BY <1>3, <1>4

(* A matrix whose values are written keeps its shape.                      *)
LEMMA Revalued ==
  ASSUME NEW m, NEW v, NEW it, NEW n,
         m = [nnz |-> m.nnz, row |-> m.row, col |-> m.col, val |-> m.val, at |-> m.at],
         n = [m EXCEPT !.val = v, !.at = it]
  PROVE  /\ n.nnz = m.nnz /\ n.val = v /\ n.at = it
         /\ n = [nnz |-> n.nnz, row |-> n.row, col |-> n.col, val |-> n.val, at |-> n.at]
  OBVIOUS

(* The values of a matrix are those of the iterate it was last asked for.  *)
LEMMA ValuesStep == IInv /\ [Next]_vars => ValuesOK'
<1> SUFFICES ASSUME IInv, [Next]_vars PROVE ValuesOK'
  OBVIOUS
<1>0. ValuesOK /\ MapsOK
  BY DEF IInv
<1>1. CASE PrepareMaps \/ WorhpInit \/ AssignStructure
  <2>1. /\ phase # "ready"
        /\ df.at = NoIterate /\ dg.at = NoIterate /\ hm.at = NoIterate
        /\ df.val = <<>> /\ dg.val = <<>> /\ hm.val = <<>>
    BY <1>0, <1>1 DEF ValuesOK, HasValues, PrepareMaps, WorhpInit, AssignStructure
  <2>2. IsBlank(df) /\ IsBlank(dg) /\ IsBlank(hm)
    BY <1>0, <2>1 DEF ValuesOK, HasValues, IsBlank
  <2>3. IsBlank(df') /\ IsBlank(dg') /\ IsBlank(hm')
    <3>1. CASE PrepareMaps
      BY <2>2, <3>1 DEF PrepareMaps, IsBlank
    <3>2. CASE WorhpInit
      <4>1. \A m \in {df, dg, hm} : \A dense : IsBlank(Allocated(m, dense))
        BY <2>2, BlankRewritten DEF Allocated
      <4> QED
        BY <3>2, <4>1 DEF WorhpInit
    <3>3. CASE AssignStructure
      BY <2>2, <3>3, BlankRewritten DEF AssignStructure
    <3> QED
      BY <1>1, <3>1, <3>2, <3>3
  <2>4. /\ df'.val = <<>> /\ df'.at = NoIterate /\ dg'.val = <<>> /\ dg'.at = NoIterate
        /\ hm'.val = <<>> /\ hm'.at = NoIterate
    BY <2>3, BlankFields
  <2> QED
    BY <2>3, <2>4 DEF ValuesOK, HasValues, IsBlank
<1>2. CASE UserDF \/ UserDG \/ UserHM \/ UNCHANGED vars
  <2>1. /\ prob' = prob /\ gs_idx_map' = gs_idx_map /\ merged_hs' = merged_hs
        /\ hs_idx_map' = hs_idx_map /\ phase' = phase
    BY <1>2 DEF UserDF, UserDG, UserHM, vars
  <2>2. df'.nnz = df.nnz /\ dg'.nnz = dg.nnz /\ hm'.nnz = hm.nnz
    BY <1>0, <1>2 DEF UserDF, UserDG, UserHM, vars, ValuesOK, HasValues
  <2>3. \A k : HMSource(k)' = HMSource(k)
    BY <2>1 DEF HMSource
  <2>4. \A i, it, f, c : Contribution(i, it, f, c)' = Contribution(i, it, f, c)
    BY <2>1 DEF Contribution
  <2>5. \A it, c : MergedHessian(it, c)' = MergedHessian(it, c)
    <3>1. ASSUME NEW it, NEW c
          PROVE  MergedHessian(it, c)' = MergedHessian(it, c)
      <4> DEFINE parts == [i \in 1..NCon |-> Contribution(i, it, it.mu[i], c)]
      <4>1. parts' = parts
        BY <2>4
      <4>2. MergedHessian(it, c) = Contribution(0, it, it.scale, c) + Total(parts)
        BY DEF MergedHessian
      <4>3. MergedHessian(it, c)' = Contribution(0, it, it.scale, c)' + Total(parts')
        BY DEF MergedHessian
      <4> HIDE DEF parts
      <4> QED
        BY <2>4, <4>1, <4>2, <4>3
    <3> QED
      BY <3>1
  <2>6. HasValues(df, DFValues)'
    <3>1. CASE UserDF
      <4>1. PICK it \in Iterate : df' = [df EXCEPT !.val = [k \in 1..df.nnz |-> GradientVector(prob, it)[k]], !.at = it]
        BY <3>1 DEF UserDF
      <4>2. phase' = "ready" /\ it # NoIterate
        BY <2>1, <3>1, SparsityAssumption DEF UserDF
      <4> DEFINE new == [k \in 1..df.nnz |-> GradientVector(prob, it)[k]]
      <4>3. /\ df'.at = it /\ df'.val = new
            /\ df' = [nnz |-> df'.nnz, row |-> df'.row, col |-> df'.col,
                      val |-> df'.val, at |-> df'.at]
        <5>1. df' = [df EXCEPT !.val = new, !.at = it]
          BY <4>1
        <5>2. df = [nnz |-> df.nnz, row |-> df.row, col |-> df.col,
                    val |-> df.val, at |-> df.at]
          BY <1>0 DEF ValuesOK, HasValues
        <5> HIDE DEF new
        <5> QED
          BY <5>1, <5>2, Revalued
      <4>4. DFValues' = new
        BY <2>1, <2>2, <4>3 DEF DFValues
      <4> HIDE DEF new
      <4> QED
        BY <4>2, <4>3, <4>4 DEF HasValues
    <3>2. CASE df' = df
      <4>1. DFValues' = DFValues
        BY <2>1, <2>2, <3>2 DEF DFValues
      <4> QED
        BY <1>0, <2>1, <3>2, <4>1 DEF ValuesOK, HasValues
    <3> QED
      BY <1>2, <3>1, <3>2 DEF UserDG, UserHM, vars
  <2>7. HasValues(dg, DGValues)'
    <3>1. CASE UserDG
      <4>1. PICK it \in Iterate : dg' = [dg EXCEPT !.val = [k \in 1..dg.nnz |-> GradientVector(prob, it)[df.nnz + gs_idx_map[k]]], !.at = it]
        BY <3>1 DEF UserDG
      <4>2. phase' = "ready" /\ it # NoIterate
        BY <2>1, <3>1, SparsityAssumption DEF UserDG
      <4> DEFINE new == [k \in 1..dg.nnz |-> GradientVector(prob, it)[df.nnz + gs_idx_map[k]]]
      <4>3. /\ dg'.at = it /\ dg'.val = new
            /\ dg' = [nnz |-> dg'.nnz, row |-> dg'.row, col |-> dg'.col,
                      val |-> dg'.val, at |-> dg'.at]
        <5>1. dg' = [dg EXCEPT !.val = new, !.at = it]
          BY <4>1
        <5>2. dg = [nnz |-> dg.nnz, row |-> dg.row, col |-> dg.col,
                    val |-> dg.val, at |-> dg.at]
          BY <1>0 DEF ValuesOK, HasValues
        <5> HIDE DEF new
        <5> QED
          BY <5>1, <5>2, Revalued
      <4>4. DGValues' = new
        BY <2>1, <2>2, <4>3 DEF DGValues
      <4> HIDE DEF new
      <4> QED
        BY <4>2, <4>3, <4>4 DEF HasValues
    <3>2. CASE dg' = dg
      <4>1. DGValues' = DGValues
        BY <2>1, <2>2, <3>2 DEF DGValues
      <4> QED
        BY <1>0, <2>1, <3>2, <4>1 DEF ValuesOK, HasValues
    <3> QED
      BY <1>2, <3>1, <3>2 DEF UserDF, UserHM, vars
  <2>8. HasValues(hm, HMValues)'
    <3>1. CASE UserHM
      <4>1. PICK it \in Iterate : hm' = [hm EXCEPT !.val = [k \in 1..hm.nnz |-> MergedHessian(it, HMSource(k))], !.at = it]
        BY <3>1 DEF UserHM
      <4>2. phase' = "ready" /\ it # NoIterate
        BY <2>1, <3>1, SparsityAssumption DEF UserHM
      <4> DEFINE new == [k \in 1..hm.nnz |-> MergedHessian(it, HMSource(k))]
      <4>3. /\ hm'.at = it /\ hm'.val = new
            /\ hm' = [nnz |-> hm'.nnz, row |-> hm'.row, col |-> hm'.col,
                      val |-> hm'.val, at |-> hm'.at]
        <5>1. hm' = [hm EXCEPT !.val = new, !.at = it]
          BY <4>1
        <5>2. hm = [nnz |-> hm.nnz, row |-> hm.row, col |-> hm.col,
                    val |-> hm.val, at |-> hm.at]
          BY <1>0 DEF ValuesOK, HasValues
        <5> HIDE DEF new
        <5> QED
          BY <5>1, <5>2, Revalued
      <4>4. HMValues' = new
        BY <2>3, <2>5, <2>1, <2>2, <4>3 DEF HMValues
      <4> HIDE DEF new
      <4> QED
        BY <4>2, <4>3, <4>4 DEF HasValues
    <3>2. CASE hm' = hm
      <4>1. HMValues' = HMValues
        BY <2>3, <2>5, <2>1, <2>2, <3>2 DEF HMValues
      <4> QED
        BY <1>0, <2>1, <3>2, <4>1 DEF ValuesOK, HasValues
    <3> QED
      BY <1>2, <3>1, <3>2 DEF UserDF, UserDG, vars
  <2> QED
    BY <2>6, <2>7, <2>8 DEF ValuesOK
<1> QED
  BY <1>1, <1>2 DEF Next

(* The invariant holds of every state evolve() reaches.                    *)
THEOREM Inductive == Spec => []IInv
<1>1. Init => IInv
  BY InitInvariant
<1>2. IInv /\ [Next]_vars => IInv'
  <2>1. IInv /\ [Next]_vars => MapsOK' /\ SizesOK' /\ StructureOK' /\ ValuesOK'
    BY MapsStep, StructureStep, ValuesStep
  <2> QED
    BY <2>1 DEF IInv
<1> QED
  BY <1>1, <1>2, PTL DEF Spec

-------------------------------------------------------------------------------
(* The values                                                              *)

(* The derivatives at an iterate are numbers.                              *)
LEMMA Iterates ==
  ASSUME NEW it \in Iterate
  PROVE  /\ it # NoIterate
         /\ \A c \in GradientCells : it.jac[c] \in Int
         /\ \A i \in 0..NCon : \A c \in LowerTriangle : it.hess[i][c] \in Int
         /\ it.scale \in Int
         /\ \A i \in 1..NCon : it.mu[i] \in Int
<1>1. /\ it.jac \in [GradientCells -> Int]
      /\ it.hess \in [0..NCon -> [LowerTriangle -> Int]]
      /\ it.scale \in Int /\ it.mu \in [1..NCon -> Int] /\ it # NoIterate
  BY SparsityAssumption
<1> QED
  BY <1>1

(* Element k of the gradient that pagmo gives.                             *)
LEMMA GradientValues ==
  ASSUME prob \in Problem, NEW it \in Iterate
  PROVE  /\ \A k \in 1..Len(fs) : GradientVector(prob, it)[k] = it.jac[fs[k]]
         /\ \A k \in 1..Len(gs) : GradientVector(prob, it)[Len(fs) + k] = it.jac[gs[k]]
<1>1. Cardinality(prob.grad) = Len(fs) + Len(gs) /\ Len(fs) \in Nat /\ Len(gs) \in Nat
  <2>1. Len(fs) \in Nat
    BY ObjectiveRows
  <2>2. Len(gs) \in Nat
    <3>1. ConstraintCells(prob) \in SUBSET (Int \X Int) /\ IsFiniteSet(ConstraintCells(prob))
      BY Patterns, FS_Subset
    <3>2. Enumerates(gs, ConstraintCells(prob), RowBelow(ConstraintCells(prob)))
      BY <3>1, VectorFacts DEF gs
    <3> QED
      BY <3>2 DEF Enumerates
  <2> QED
    BY <2>1, <2>2, GradientSplit
<1>2. \A k \in 1..(Len(fs) + Len(gs)) :
        GradientVector(prob, it)[k] = it.jac[Vector(prob.grad)[k]]
  BY <1>1 DEF GradientVector
<1>3. \A k \in 1..Len(fs) : k \in 1..(Len(fs) + Len(gs))
  BY <1>1
<1>4. \A k \in 1..Len(gs) : Len(fs) + k \in 1..(Len(fs) + Len(gs))
  BY <1>1
<1> QED
  BY <1>2, <1>3, <1>4, GradientSplit

(* The sum of a function is a number, and that of zeros is zero.           *)
LEMMA TotalFacts ==
  ASSUME NEW f \in [1..NCon -> Int]
  PROVE  /\ Total(f) \in Int
         /\ (\A i \in 1..NCon : f[i] = 0) => Total(f) = 0
<1>1. IsFiniteSet(1..NCon)
  BY SparsityAssumption, FS_Interval
<1>2. DOMAIN f = 1..NCon
  OBVIOUS
<1>3. Total(f) = FoldedSum(DOMAIN f, f)
  BY DEF Total, FoldFunction, FoldFunctionOnSet, FoldedSum
<1> QED
  BY <1>1, <1>2, <1>3, FoldedSumIs

(* What a function adds to a cell of the merged hessian is its second      *)
(* derivative there times its factor.                                      *)
LEMMA ContributionIs ==
  ASSUME prob \in Problem, NEW it \in Iterate, NEW i \in 0..NCon,
         NEW factor \in Int, NEW c \in Int \X Int
  PROVE  /\ Contribution(i, it, factor, c) = Second(it, i, Moved(c, 1, 1)) * factor
         /\ Second(it, i, Moved(c, 1, 1)) \in Int
         /\ c \notin HessianPattern(prob, i) => Second(it, i, Moved(c, 1, 1)) = 0
<1> DEFINE S == HessianPattern(prob, i)
           v == Vector(S)
           h == HessianVector(prob, i, it)
           d == <<Moved(c, 1, 1)[1] - 1, Moved(c, 1, 1)[2] - 1>>
<1>1. d = c
  <2>1. c[1] \in Int /\ c[2] \in Int /\ c = <<c[1], c[2]>>
    OBVIOUS
  <2>2. d = <<c[1] + 1 - 1, c[2] + 1 - 1>>
    BY DEF Moved
  <2>3. c[1] + 1 - 1 = c[1] /\ c[2] + 1 - 1 = c[2]
    BY <2>1
  <2> HIDE DEF d
  <2> QED
    BY <2>1, <2>2, <2>3
<1>2. Second(it, i, Moved(c, 1, 1)) = IF c \in S THEN it.hess[i][c] ELSE 0
  BY <1>1 DEF Second
<1>3. S \in SUBSET LowerTriangle /\ S \in SUBSET (Int \X Int) /\ IsFiniteSet(S)
  BY Patterns, FS_Subset
<1>4. CASE c \in S
  <2>1. Enumerates(v, S, RowBelow(S))
    BY <1>3, VectorFacts
  <2>2. Len(v) \in Nat /\ v \in [1..Len(v) -> S] /\ \E k \in 1..Len(v) : v[k] = c
    BY <1>4, <2>1 DEF Enumerates
  <2> DEFINE j == CHOOSE k \in DOMAIN v : v[k] = c
  <2>3. j \in 1..Len(v) /\ v[j] = c
    <3> HIDE DEF v
    <3> QED
      BY <2>2
  <2>4. h[j] = it.hess[i][v[j]]
    <3> HIDE DEF j
    <3> QED
      BY <2>3 DEF HessianVector
  <2>5. Contribution(i, it, factor, c) = h[j] * factor
    BY <1>4 DEF Contribution
  <2>6. it.hess[i][c] \in Int
    BY <1>3, <1>4, Iterates
  <2> HIDE DEF h, j, v
  <2> QED
    BY <1>2, <1>4, <2>3, <2>4, <2>5, <2>6
<1>5. CASE c \notin S
  <2>1. Contribution(i, it, factor, c) = 0
    BY <1>5 DEF Contribution
  <2> QED
    BY <1>2, <1>5, <2>1
<1> QED
  BY <1>4, <1>5

(* The merged hessian is that of the Lagrangian, and it is zero where no   *)
(* function has a cell.                                                    *)
LEMMA MergedIs ==
  ASSUME prob \in Problem, NEW it \in Iterate, NEW c \in Int \X Int
  PROVE  /\ MergedHessian(it, c) = Lagrangian(it, Moved(c, 1, 1))
         /\ MergedHessian(it, c) \in Int
         /\ c \notin MergedPattern(prob) => MergedHessian(it, c) = 0
<1> DEFINE e == Moved(c, 1, 1)
           parts == [i \in 1..NCon |-> Contribution(i, it, it.mu[i], c)]
           terms == [i \in 1..NCon |-> Second(it, i, e) * it.mu[i]]
<1>0. NCon \in Nat /\ 0 \in 0..NCon /\ 1..NCon \subseteq 0..NCon
  BY Patterns
<1>1. /\ it.scale \in Int /\ \A i \in 1..NCon : it.mu[i] \in Int
  BY Iterates
<1>2. /\ Contribution(0, it, it.scale, c) = Second(it, 0, e) * it.scale
      /\ Second(it, 0, e) \in Int
      /\ c \notin HessianPattern(prob, 0) => Second(it, 0, e) = 0
  BY <1>0, <1>1, ContributionIs
<1>3. \A i \in 1..NCon :
        /\ Contribution(i, it, it.mu[i], c) = Second(it, i, e) * it.mu[i]
        /\ Second(it, i, e) \in Int
        /\ c \notin HessianPattern(prob, i) => Second(it, i, e) = 0
  BY <1>0, <1>1, ContributionIs
<1>4. parts = terms
  BY <1>3
<1>5. terms \in [1..NCon -> Int]
  BY <1>1, <1>3
<1>6. MergedHessian(it, c) = Contribution(0, it, it.scale, c) + Total(parts)
  BY DEF MergedHessian
<1>7. Lagrangian(it, e) = Second(it, 0, e) * it.scale + Total(terms)
  BY DEF Lagrangian
<1>8. Total(terms) \in Int /\ ((\A i \in 1..NCon : terms[i] = 0) => Total(terms) = 0)
  <2> HIDE DEF terms
  <2> QED
    BY <1>5, TotalFacts
<1>9. ASSUME c \notin MergedPattern(prob)
      PROVE  MergedHessian(it, c) = 0
  <2>1. \A i \in 0..NCon : c \notin HessianPattern(prob, i)
    BY <1>9, Patterns
  <2>2. \A i \in 1..NCon : Second(it, i, e) = 0
    BY <1>0, <1>3, <2>1
  <2>3. Second(it, 0, e) = 0
    BY <1>0, <1>2, <2>1
  <2>4. \A i \in 1..NCon : terms[i] = 0
    BY <1>1, <2>2
  <2>5. Total(terms) = 0
    BY <1>8, <2>4
  <2>6. Contribution(0, it, it.scale, c) = 0
    BY <1>1, <1>2, <2>3
  <2> HIDE DEF parts, terms
  <2> QED
    BY <1>4, <1>6, <2>5, <2>6
<1>10. Second(it, 0, e) * it.scale \in Int
  BY <1>1, <1>2
<1> HIDE DEF parts, terms, e
<1>11. MergedHessian(it, c) = Lagrangian(it, e) /\ MergedHessian(it, c) \in Int
  BY <1>2, <1>4, <1>6, <1>7, <1>8, <1>10
<1> QED
  BY <1>9, <1>11 DEF e

-------------------------------------------------------------------------------
(* The properties                                                          *)

(* What a matrix holds once its structure is there.                        *)
LEMMA MapsReady ==
  ASSUME IInv, phase = "ready"
  PROVE  /\ prob \in Problem
         /\ gs_idx_map = GradientOrder(gs)
         /\ merged_hs = Vector(MergedPattern(prob))
         /\ hs_idx_map = HessianOrder(merged_hs)
         /\ df.nnz = Len(fs) /\ dg.nnz = Len(gs) /\ hm.nnz = Len(hs_idx_map) + Dim
         /\ \A k \in 1..df.nnz : Cell(df, k) = <<DFRow(k), 1>>
         /\ \A k \in 1..dg.nnz : Cell(dg, k) = <<DGCell(k)[1], DGCell(k)[2]>>
         /\ \A k \in 1..hm.nnz : Cell(hm, k) = <<HMCell(k)[1], HMCell(k)[2]>>
<1>1. /\ prob \in Problem
      /\ gs_idx_map = GradientOrder(gs)
      /\ merged_hs = Vector(MergedPattern(prob))
      /\ hs_idx_map = HessianOrder(merged_hs)
      /\ df.nnz = Len(fs) /\ dg.nnz = Len(gs) /\ hm.nnz = Len(hs_idx_map) + Dim
  BY DEF IInv, MapsOK, SizesOK
<1>2. /\ df.row = [k \in 1..df.nnz |-> DFRow(k)] /\ df.col = [k \in 1..df.nnz |-> 1]
      /\ dg.row = [k \in 1..dg.nnz |-> DGCell(k)[1]]
      /\ dg.col = [k \in 1..dg.nnz |-> DGCell(k)[2]]
      /\ hm.row = [k \in 1..hm.nnz |-> HMCell(k)[1]]
      /\ hm.col = [k \in 1..hm.nnz |-> HMCell(k)[2]]
  BY DEF IInv, StructureOK, HasStructure
<1> QED
  BY <1>1, <1>2 DEF Cell

(* Values are there only once everything is.                               *)
LEMMA ValuesReady ==
  ASSUME IInv
  PROVE  /\ df.at # NoIterate => phase = "ready" /\ df.at \in Iterate /\ df.val = DFValues
         /\ dg.at # NoIterate => phase = "ready" /\ dg.at \in Iterate /\ dg.val = DGValues
         /\ hm.at # NoIterate => phase = "ready" /\ hm.at \in Iterate /\ hm.val = HMValues
  BY DEF IInv, ValuesOK, HasValues

(* The invariant makes DF the gradient of the objective.                   *)
LEMMA GradientRightHolds == IInv => GradientRight
<1> SUFFICES ASSUME IInv, df.at # NoIterate
             PROVE  Represents(df, (1..Dim) \X {1}, LAMBDA c : Derivative(df.at, 0, c[1]))
  BY DEF GradientRight
<1> DEFINE it == df.at
           n == Len(fs)
           Entry(c) == Derivative(df.at, 0, c[1])
<1>1. phase = "ready" /\ it \in Iterate /\ df.val = DFValues
  BY ValuesReady
<1>2. prob \in Problem /\ df.nnz = n /\ \A k \in 1..n : Cell(df, k) = <<DFRow(k), 1>>
  BY <1>1, MapsReady
<1>3. /\ n \in Nat
      /\ \A k \in 1..n : fs[k] = <<0, DFRow(k) - 1>> /\ DFRow(k) \in 1..Dim
      /\ \A k, l \in 1..n : DFRow(k) = DFRow(l) => k = l
      /\ \A k \in 1..n : fs[k] \in prob.grad
      /\ \A c \in prob.grad : c[1] = 0 => \E k \in 1..n : fs[k] = c
  BY <1>2, ObjectiveRows
<1>4. \A k \in 1..n : df.val[k] = it.jac[fs[k]]
  BY <1>1, <1>2, GradientValues DEF DFValues
<1>5. ASSUME NEW k \in 1..n
      PROVE  Cell(df, k) \in (1..Dim) \X {1} /\ df.val[k] = Entry(Cell(df, k))
  <2>1. Cell(df, k) = <<DFRow(k), 1>> /\ DFRow(k) \in 1..Dim
    BY <1>2, <1>3
  <2>2. Entry(Cell(df, k)) = Derivative(it, 0, DFRow(k))
    BY <2>1
  <2>3. Derivative(it, 0, DFRow(k)) = it.jac[fs[k]]
    BY <1>3 DEF Derivative
  <2> QED
    BY <1>4, <2>1, <2>2, <2>3
<1>6. ASSUME NEW k \in 1..n, NEW l \in 1..n, Cell(df, k) = Cell(df, l)
      PROVE  k = l
  <2>1. <<DFRow(k), 1>> = <<DFRow(l), 1>>
    BY <1>2, <1>6
  <2>2. DFRow(k) = DFRow(l)
    BY <2>1
  <2> QED
    BY <1>3, <2>2
<1>7. ASSUME NEW c \in (1..Dim) \X {1}, Entry(c) # 0
      PROVE  \E k \in 1..n : Cell(df, k) = c
  <2>1. c = <<c[1], 1>> /\ c[1] \in 1..Dim /\ Dim \in Nat
    BY <1>2, Patterns
  <2>2. <<0, c[1] - 1>> \in prob.grad
    BY <1>7 DEF Derivative
  <2>3. PICK k \in 1..n : fs[k] = <<0, c[1] - 1>>
    BY <1>3, <2>2
  <2>4. DFRow(k) - 1 = c[1] - 1 /\ DFRow(k) \in 1..Dim
    BY <1>3, <2>3
  <2>5. DFRow(k) = c[1]
    BY <2>1, <2>4
  <2> QED
    BY <1>2, <2>1, <2>5
<1> QED
  BY <1>2, <1>5, <1>6, <1>7 DEF Represents

(* The invariant makes DG the jacobian of the constraints.                 *)
LEMMA JacobianRightHolds == IInv => JacobianRight
<1> SUFFICES ASSUME IInv, dg.at # NoIterate
             PROVE  Represents(dg, (1..NCon) \X (1..Dim),
                               LAMBDA c : Derivative(dg.at, c[1], c[2]))
  BY DEF JacobianRight
<1> DEFINE it == dg.at
           n == Len(gs)
           T == JacobianTarget
           w == [k \in 1..n |-> DGCell(k)]
           Entry(c) == Derivative(dg.at, c[1], c[2])
<1>1. phase = "ready" /\ it \in Iterate /\ dg.val = DGValues
  BY ValuesReady
<1>2. /\ prob \in Problem /\ dg.nnz = n /\ df.nnz = Len(fs)
      /\ gs_idx_map = GradientOrder(gs)
      /\ \A k \in 1..n : Cell(dg, k) = <<DGCell(k)[1], DGCell(k)[2]>>
  BY <1>1, MapsReady
<1>3. /\ n \in Nat /\ gs \in [1..n -> ConstraintCells(prob)]
      /\ gs_idx_map \in [1..n -> 1..n]
      /\ T \in SUBSET ((1..NCon) \X (1..Dim))
      /\ Enumerates(w, T, ColumnBelow(T))
  BY <1>2, JacobianCells
<1>4. /\ \A k \in 1..n : w[k] \in T
      /\ \A k, l \in 1..n : w[k] = w[l] => k = l
      /\ \A c \in T : \E k \in 1..n : w[k] = c
  <2>1. Len(w) = n
    BY <1>3
  <2> HIDE DEF w, T
  <2> QED
    BY <1>3, <2>1 DEF Enumerates
<1>5. \A k \in 1..n : w[k] = DGCell(k) /\ Cell(dg, k) = w[k]
  <2>1. \A k \in 1..n : DGCell(k) = <<DGCell(k)[1], DGCell(k)[2]>>
    BY DEF DGCell
  <2> QED
    BY <1>2, <2>1
<1>6. ASSUME NEW k \in 1..n
      PROVE  dg.val[k] = it.jac[gs[gs_idx_map[k]]]
  <2>1. dg.val[k] = GradientVector(prob, it)[Len(fs) + gs_idx_map[k]]
    BY <1>1, <1>2 DEF DGValues
  <2>2. gs_idx_map[k] \in 1..n
    BY <1>3
  <2> QED
    BY <1>1, <1>2, <2>1, <2>2, GradientValues
<1>7. /\ ConstraintCells(prob) = {c \in prob.grad : c[1] \in 1..NCon}
      /\ prob.grad \in SUBSET (Int \X Int) /\ Dim \in Nat /\ NCon \in Nat
  BY <1>2, Patterns
<1>8. ASSUME NEW k \in 1..n
      PROVE  Cell(dg, k) \in (1..NCon) \X (1..Dim) /\ dg.val[k] = Entry(Cell(dg, k))
  <2> DEFINE d == gs[gs_idx_map[k]]
  <2>1. d \in prob.grad /\ d \in Int \X Int
    BY <1>3, <1>7
  <2>2. DGCell(k) = <<d[1], d[2] + 1>>
    BY DEF DGCell
  <2>3. d[1] \in Int /\ d[2] \in Int /\ d = <<d[1], d[2]>> /\ d[2] + 1 - 1 = d[2]
    BY <2>1
  <2>4. Entry(DGCell(k)) = Derivative(it, d[1], d[2] + 1)
    BY <2>2
  <2>5. <<d[1], d[2] + 1 - 1>> = d
    BY <2>3
  <2>6. Derivative(it, d[1], d[2] + 1) = it.jac[d]
    BY <2>1, <2>5 DEF Derivative
  <2>7. dg.val[k] = it.jac[d]
    BY <1>6
  <2>8. Cell(dg, k) = DGCell(k) /\ DGCell(k) \in T
    BY <1>4, <1>5
  <2> HIDE DEF d
  <2> QED
    BY <1>3, <2>4, <2>6, <2>7, <2>8
<1>9. \A k, l \in 1..n : Cell(dg, k) = Cell(dg, l) => k = l
  BY <1>4, <1>5
<1>10. ASSUME NEW c \in (1..NCon) \X (1..Dim), Entry(c) # 0
       PROVE  \E k \in 1..n : Cell(dg, k) = c
  <2>1. c = <<c[1], c[2]>> /\ c[1] \in 1..NCon /\ c[2] \in 1..Dim
    OBVIOUS
  <2>2. <<c[1], c[2] - 1>> \in prob.grad
    BY <1>10 DEF Derivative
  <2>3. <<c[1], c[2] - 1>> \in ConstraintCells(prob)
    BY <1>7, <2>1, <2>2
  <2>4. Moved(<<c[1], c[2] - 1>>, 0, 1) = c
    <3>1. c[1] + 0 = c[1] /\ c[2] - 1 + 1 = c[2]
      BY <1>7, <2>1
    <3>2. Moved(<<c[1], c[2] - 1>>, 0, 1) = <<c[1] + 0, c[2] - 1 + 1>>
      BY DEF Moved
    <3> QED
      BY <2>1, <3>1, <3>2
  <2>5. c \in T
    BY <2>3, <2>4 DEF JacobianTarget
  <2> QED
    BY <1>4, <1>5, <2>5
<1> QED
  BY <1>2, <1>8, <1>9, <1>10 DEF Represents

(* HM is the strict part, then the diagonal; each value is that of the     *)
(* Lagrangian at its cell.                                                 *)
LEMMA HMCells ==
  ASSUME IInv, phase = "ready"
  PROVE  /\ Len(hs_idx_map) \in Nat /\ Dim \in Nat /\ prob \in Problem
         /\ hm.nnz = Len(hs_idx_map) + Dim
         /\ \A k \in 1..hm.nnz : Cell(hm, k) = HMCell(k)
         /\ Enumerates([k \in 1..Len(hs_idx_map) |-> HMCell(k)],
                       HessianTarget, ColumnBelow(HessianTarget))
         /\ \A k \in 1..Len(hs_idx_map) : HMCell(k) \in HessianTarget
         /\ HessianTarget \in SUBSET StrictTriangle
         /\ \A k \in 1..Dim : /\ Len(hs_idx_map) + k \in 1..hm.nnz
                               /\ HMCell(Len(hs_idx_map) + k) = <<k, k>>
         /\ \A k \in 1..hm.nnz : /\ HMSource(k) \in Int \X Int
                                  /\ HMCell(k) = Moved(HMSource(k), 1, 1)
<1> DEFINE n == Len(hs_idx_map)
           T == HessianTarget
           w == [k \in 1..n |-> HMCell(k)]
<1>1. /\ prob \in Problem
      /\ merged_hs = Vector(MergedPattern(prob))
      /\ hs_idx_map = HessianOrder(merged_hs)
      /\ hm.nnz = n + Dim
      /\ \A k \in 1..hm.nnz : Cell(hm, k) = <<HMCell(k)[1], HMCell(k)[2]>>
  BY MapsReady
<1>2. /\ n \in Nat
      /\ \A k \in 1..n : merged_hs[hs_idx_map[k]] \in StrictCells
      /\ \A k \in 1..n : HMCell(k) = Moved(merged_hs[hs_idx_map[k]], 1, 1)
      /\ T \in SUBSET StrictTriangle
      /\ Enumerates(w, T, ColumnBelow(T))
  BY <1>1, HessianCells
<1>3. Dim \in Nat /\ StrictCells \in SUBSET (Int \X Int)
  BY <1>1, Patterns DEF StrictCells
<1>4. \A k \in 1..hm.nnz : Cell(hm, k) = HMCell(k)
  <2>1. \A k : HMCell(k) = <<HMCell(k)[1], HMCell(k)[2]>>
    BY DEF HMCell
  <2> QED
    BY <1>1, <2>1
<1>5. \A k \in 1..n : HMCell(k) \in T
  BY <1>2 DEF HessianTarget
<1>6. \A k \in 1..Dim : n + k \in 1..hm.nnz /\ HMCell(n + k) = <<k, k>>
  <2>1. \A k \in 1..Dim : /\ n + k \in 1..(n + Dim)
                          /\ ~(n + k <= n) /\ n + k - n = k
    BY <1>2, <1>3
  <2>2. \A k \in 1..Dim : HMCell(n + k) = <<n + k - n, n + k - n>>
    BY <2>1 DEF HMCell
  <2> QED
    BY <1>1, <2>1, <2>2
<1>7. ASSUME NEW k \in 1..hm.nnz
      PROVE  HMSource(k) \in Int \X Int /\ HMCell(k) = Moved(HMSource(k), 1, 1)
  <2>1. CASE k <= n
    <3>1. k \in 1..n /\ HMSource(k) = merged_hs[hs_idx_map[k]]
      BY <1>1, <1>2, <1>3, <2>1 DEF HMSource
    <3> QED
      BY <1>2, <1>3, <3>1
  <2>2. CASE ~(k <= n)
    <3>1. HMSource(k) = <<k - n - 1, k - n - 1>> /\ HMCell(k) = <<k - n, k - n>>
      BY <2>2 DEF HMSource, HMCell
    <3>2. k - n - 1 \in Int /\ k - n - 1 + 1 = k - n
      BY <1>1, <1>2, <1>3
    <3>3. Moved(<<k - n - 1, k - n - 1>>, 1, 1) = <<k - n - 1 + 1, k - n - 1 + 1>>
      BY DEF Moved
    <3> QED
      BY <3>1, <3>2, <3>3
  <2> QED
    BY <2>1, <2>2
<1> QED
  BY <1>1, <1>2, <1>3, <1>4, <1>5, <1>6, <1>7

(* The invariant makes HM the hessian of the Lagrangian.                   *)
LEMMA HessianRightHolds == IInv => HessianRight
<1> DEFINE it == hm.at
           n == Len(hs_idx_map)
           T == HessianTarget
           lower == {c \in (1..Dim) \X (1..Dim) : c[1] >= c[2]}
           w == [k \in 1..n |-> HMCell(k)]
           Entry(c) == Lagrangian(hm.at, c)
<1> SUFFICES ASSUME IInv, hm.at # NoIterate
             PROVE  Represents(hm, lower, LAMBDA c : Lagrangian(hm.at, c))
  BY DEF HessianRight
<1>1. phase = "ready" /\ it \in Iterate /\ hm.val = HMValues
  BY ValuesReady
<1>2. /\ n \in Nat /\ Dim \in Nat /\ prob \in Problem /\ hm.nnz = n + Dim
      /\ \A k \in 1..hm.nnz : Cell(hm, k) = HMCell(k)
      /\ Enumerates(w, T, ColumnBelow(T))
      /\ \A k \in 1..n : HMCell(k) \in T
      /\ T \in SUBSET StrictTriangle
      /\ \A k \in 1..Dim : n + k \in 1..hm.nnz /\ HMCell(n + k) = <<k, k>>
      /\ \A k \in 1..hm.nnz : /\ HMSource(k) \in Int \X Int
                               /\ HMCell(k) = Moved(HMSource(k), 1, 1)
  BY <1>1, HMCells
<1>3. /\ \A k, l \in 1..n : HMCell(k) = HMCell(l) => k = l
      /\ \A c \in T : \E k \in 1..n : HMCell(k) = c
  <2>1. Len(w) = n /\ \A k \in 1..n : w[k] = HMCell(k)
    BY <1>2
  <2>2. /\ \A k, l \in 1..n : w[k] = w[l] => k = l
        /\ \A c \in T : \E k \in 1..n : w[k] = c
    <3> HIDE DEF w, T
    <3> QED
      BY <1>2, <2>1 DEF Enumerates
  <2> HIDE DEF w
  <2> QED
    BY <2>1, <2>2
<1>4. \A k \in 1..hm.nnz : \/ k \in 1..n /\ HMCell(k) \in StrictTriangle
                           \/ k - n \in 1..Dim /\ HMCell(k) = <<k - n, k - n>>
  <2>1. ASSUME NEW k \in 1..hm.nnz, k \notin 1..n
        PROVE  k - n \in 1..Dim /\ HMCell(k) = <<k - n, k - n>>
    <3>1. k - n \in 1..Dim /\ n + (k - n) = k
      BY <1>2, <2>1
    <3> QED
      BY <1>2, <3>1
  <2> QED
    BY <1>2, <2>1
<1>5. ASSUME NEW k \in 1..hm.nnz
      PROVE  Cell(hm, k) \in lower /\ hm.val[k] = Entry(Cell(hm, k))
  <2>1. HMCell(k) \in lower
    BY <1>2, <1>4 DEF StrictTriangle
  <2>2. hm.val[k] = MergedHessian(it, HMSource(k))
    BY <1>1 DEF HMValues
  <2>3. MergedHessian(it, HMSource(k)) = Lagrangian(it, Moved(HMSource(k), 1, 1))
    BY <1>1, <1>2, MergedIs
  <2> QED
    BY <1>2, <2>1, <2>2, <2>3
<1>6. ASSUME NEW k \in 1..hm.nnz, NEW l \in 1..hm.nnz, Cell(hm, k) = Cell(hm, l)
      PROVE  k = l
  <2>1. HMCell(k) = HMCell(l)
    BY <1>2, <1>6
  <2>2. CASE k \in 1..n /\ l \in 1..n
    BY <1>3, <2>1, <2>2
  <2>3. CASE k \notin 1..n /\ l \notin 1..n
    <3>1. <<k - n, k - n>> = <<l - n, l - n>>
      BY <1>4, <2>1, <2>3
    <3>2. k - n = l - n
      BY <3>1
    <3> QED
      BY <1>2, <3>2
  <2>4. \A c \in StrictTriangle : c[1] > c[2] /\ c[1] \in 1..Dim /\ c[2] \in 1..Dim
    BY DEF StrictTriangle
  <2>5. \A j \in 1..Dim : <<j, j>> \notin StrictTriangle
    <3>1. \A j \in 1..Dim : ~(j > j)
      BY <1>2
    <3> QED
      BY <2>4, <3>1
  <2>6. ~(k \in 1..n /\ l \notin 1..n) /\ ~(k \notin 1..n /\ l \in 1..n)
    BY <1>4, <2>1, <2>5
  <2> QED
    BY <2>2, <2>3, <2>6
<1>7. ASSUME NEW c \in lower, Entry(c) # 0
      PROVE  \E k \in 1..hm.nnz : Cell(hm, k) = c
  <2>1. c = <<c[1], c[2]>> /\ c[1] \in 1..Dim /\ c[2] \in 1..Dim /\ c[1] >= c[2]
    OBVIOUS
  <2>2. CASE c[1] = c[2]
    BY <1>2, <2>1, <2>2
  <2>3. CASE c[1] # c[2]
    <3> DEFINE d == <<c[1] - 1, c[2] - 1>>
    <3>1. d \in Int \X Int /\ d[1] = c[1] - 1 /\ d[2] = c[2] - 1
      BY <2>1
    <3>2. Moved(d, 1, 1) = c
      <4>1. c[1] - 1 + 1 = c[1] /\ c[2] - 1 + 1 = c[2]
        BY <2>1
      <4>2. Moved(d, 1, 1) = <<c[1] - 1 + 1, c[2] - 1 + 1>>
        BY DEF Moved
      <4> QED
        BY <2>1, <4>1, <4>2
    <3> HIDE DEF d
    <3>3. MergedHessian(it, d) # 0
      <4>1. MergedHessian(it, d) = Lagrangian(it, Moved(d, 1, 1))
        BY <1>1, <1>2, <3>1, MergedIs
      <4> QED
        BY <1>7, <3>2, <4>1
    <3>4. d \in MergedPattern(prob)
      BY <1>1, <1>2, <3>1, <3>3, MergedIs
    <3>5. d[1] # d[2]
      BY <2>1, <2>3, <3>1
    <3>6. c \in T
      BY <3>2, <3>4, <3>5 DEF HessianTarget, StrictCells
    <3>7. PICK k \in 1..n : HMCell(k) = c
      BY <1>3, <3>6
    <3>8. k \in 1..hm.nnz
      BY <1>2
    <3> QED
      BY <1>2, <3>7, <3>8
  <2> QED
    BY <2>2, <2>3
<1> QED
  BY <1>5, <1>6, <1>7 DEF Represents

(* The invariant gives HM its format.                                      *)
LEMMA HessianFormatHolds == IInv => HessianFormat
<1> DEFINE n == Len(hs_idx_map)
           T == HessianTarget
           w == [k \in 1..n |-> HMCell(k)]
<1> SUFFICES ASSUME IInv, phase = "ready"
             PROVE  /\ \A k \in 1..(hm.nnz - Dim) : hm.row[k] > hm.col[k]
                    /\ \A k, l \in 1..(hm.nnz - Dim) :
                         k < l => ColumnFirst(Cell(hm, k), Cell(hm, l))
                    /\ \A k \in 1..Dim : Cell(hm, hm.nnz - Dim + k) = <<k, k>>
  BY DEF HessianFormat
<1>1. /\ n \in Nat /\ Dim \in Nat /\ hm.nnz = n + Dim
      /\ \A k \in 1..hm.nnz : Cell(hm, k) = HMCell(k)
      /\ Enumerates(w, T, ColumnBelow(T))
      /\ \A k \in 1..n : HMCell(k) \in T
      /\ T \in SUBSET StrictTriangle
      /\ \A k \in 1..Dim : n + k \in 1..hm.nnz /\ HMCell(n + k) = <<k, k>>
  BY HMCells
<1>2. hm.nnz - Dim = n /\ \A k \in 1..n : k \in 1..hm.nnz
  BY <1>1
<1>3. ASSUME NEW k \in 1..n
      PROVE  hm.row[k] > hm.col[k]
  <2>1. Cell(hm, k) \in StrictTriangle
    BY <1>1, <1>2
  <2>2. Cell(hm, k)[1] > Cell(hm, k)[2]
    BY <2>1 DEF StrictTriangle
  <2> QED
    BY <2>2 DEF Cell
<1>4. ASSUME NEW k \in 1..n, NEW l \in 1..n, k < l
      PROVE  ColumnFirst(Cell(hm, k), Cell(hm, l))
  <2>1. Len(w) = n /\ w[k] = HMCell(k) /\ w[l] = HMCell(l)
    BY <1>1
  <2>2. w[k] \in ColumnBelow(T)[w[l]]
    <3> HIDE DEF w, T
    <3> QED
      BY <1>1, <1>4, <2>1 DEF Enumerates
  <2>3. ColumnFirst(HMCell(k), HMCell(l))
    <3>1. HMCell(l) \in T /\ HMCell(k) \in ColumnBelow(T)[HMCell(l)]
      BY <1>1, <2>1, <2>2
    <3> HIDE DEF T
    <3> QED
      BY <3>1 DEF ColumnBelow
  <2> QED
    BY <1>1, <1>2, <2>3
<1>5. \A k \in 1..Dim : Cell(hm, n + k) = <<k, k>>
  BY <1>1
<1> QED
  BY <1>2, <1>3, <1>4, <1>5

(* A matrix is well formed at each phase if its structure and its values   *)
(* are, once they are there.                                               *)
LEMMA MatrixType ==
  ASSUME NEW m, NEW rows, NEW cols, NEW row, NEW col, NEW val,
         m.nnz \in Nat, HasValues(m, val), NEW dense, HasStructure(m, dense, row, col),
         phase \in {"allocated", "ready"} =>
           row \in [1..m.nnz -> rows] /\ col \in [1..m.nnz -> cols],
         m.at # NoIterate => val \in [1..m.nnz -> Int]
  PROVE  /\ m \in Matrix(rows, cols)
         /\ phase = "ready" => Len(m.row) = m.nnz /\ Len(m.col) = m.nnz
         /\ m.at # NoIterate => Len(m.val) = m.nnz
<1> DEFINE n == m.nnz
<1>b. n \in Nat
  OBVIOUS
<1>a. ASSUME NEW t, NEW S, t \in [1..n -> S]
      PROVE  t \in Seq(S) /\ Len(t) = n
  <2> HIDE DEF n
  <2> QED
    BY <1>a, <1>b
<1>1. \/ m.row = <<>> /\ m.col = <<>> /\ phase # "ready"
      \/ m.row \in [1..n -> rows] /\ m.col \in [1..n -> cols]
  BY DEF HasStructure
<1>2. /\ m.row \in Seq(rows) /\ m.col \in Seq(cols)
      /\ phase = "ready" => Len(m.row) = n /\ Len(m.col) = n
  <2>1. <<>> \in Seq(rows) /\ <<>> \in Seq(cols)
    OBVIOUS
  <2>2. CASE m.row = <<>> /\ m.col = <<>> /\ phase # "ready"
    BY <2>1, <2>2
  <2>3. CASE m.row \in [1..n -> rows] /\ m.col \in [1..n -> cols]
    BY <1>a, <2>3
  <2> QED
    BY <1>1, <2>2, <2>3
<1>3. m.val \in Seq(Int) /\ (m.at # NoIterate => Len(m.val) = n)
  <2>1. CASE m.at = NoIterate
    BY <2>1 DEF HasValues
  <2>2. CASE m.at # NoIterate
    BY <1>a, <2>2 DEF HasValues
  <2> QED
    BY <2>1, <2>2
<1>4. /\ m = [nnz |-> n, row |-> m.row, col |-> m.col, val |-> m.val, at |-> m.at]
      /\ m.at \in Iterate \cup {NoIterate}
  BY DEF HasValues
<1>5. m \in Matrix(rows, cols)
  BY <1>b, <1>2, <1>3, <1>4 DEF Matrix
<1> QED
  BY <1>2, <1>3, <1>5

(* The invariant gives the types.                                          *)
LEMMA TypeHolds == IInv => TypeOK
<1> SUFFICES ASSUME IInv PROVE TypeOK
  OBVIOUS
<1>0. MapsOK /\ SizesOK /\ StructureOK /\ ValuesOK
  BY DEF IInv
<1>1. prob \in Problem /\ phase \in {"start", "mapped", "allocated", "ready"}
  BY <1>0 DEF MapsOK
<1>2. phase = "start" => gs_idx_map = <<>> /\ merged_hs = <<>> /\ hs_idx_map = <<>>
  BY <1>0 DEF MapsOK
<1>3. phase # "start" => /\ gs_idx_map = GradientOrder(gs)
                        /\ merged_hs = Vector(MergedPattern(prob))
                        /\ hs_idx_map = HessianOrder(merged_hs)
                        /\ df.nnz = Len(fs) /\ dg.nnz = Len(gs)
                        /\ hm.nnz = Len(hs_idx_map) + Dim
  BY <1>0 DEF MapsOK, SizesOK
<1>4. Dim \in Nat /\ NCon \in Nat /\ Len(fs) \in Nat
  BY <1>1, Patterns, ObjectiveRows
<1>5. /\ gs_idx_map \in Seq(DOMAIN gs) /\ merged_hs \in Seq(LowerTriangle)
      /\ hs_idx_map \in Seq(DOMAIN merged_hs)
  <2>1. CASE phase = "start"
    <3>1. \A S : <<>> \in Seq(S)
      OBVIOUS
    <3> QED
      BY <1>2, <2>1, <3>1
  <2>2. CASE phase # "start"
    <3>1. gs_idx_map \in Seq(DOMAIN gs)
      BY <1>1, <1>3, <2>2, JacobianCells
    <3>2. merged_hs \in Seq(LowerTriangle) /\ hs_idx_map \in Seq(DOMAIN merged_hs)
      BY <1>1, <1>3, <2>2, HessianCells
    <3> QED
      BY <3>1, <3>2
  <2> QED
    BY <2>1, <2>2
<1>6. df.nnz \in Nat /\ dg.nnz \in Nat /\ hm.nnz \in Nat
  <2>1. CASE phase = "start"
    BY <1>0, <2>1 DEF SizesOK
  <2>2. CASE phase # "start"
    <3>1. Len(gs) \in Nat
      BY <1>1, <1>3, <2>2, JacobianCells
    <3>2. Len(hs_idx_map) \in Nat
      BY <1>1, <1>3, <2>2, HessianCells
    <3> QED
      BY <1>3, <1>4, <2>2, <3>1, <3>2
  <2> QED
    BY <2>1, <2>2
<1>7. /\ df \in Matrix(1..Dim, {1})
      /\ phase = "ready" => Len(df.row) = df.nnz /\ Len(df.col) = df.nnz
      /\ df.at # NoIterate => Len(df.val) = df.nnz
  <2> DEFINE row == [k \in 1..df.nnz |-> DFRow(k)]
             col == [k \in 1..df.nnz |-> 1]
             val == DFValues
  <2>1. phase # "start" => row \in [1..df.nnz -> 1..Dim] /\ col \in [1..df.nnz -> {1}]
    BY <1>1, <1>3, ObjectiveRows
  <2>2. ASSUME df.at # NoIterate
        PROVE  val \in [1..df.nnz -> Int]
    <3>1. df.at \in Iterate /\ df.nnz = Len(fs)
      BY <1>3, <2>2, ValuesReady
    <3>2. \A k \in 1..df.nnz : fs[k] \in GradientCells
      BY <1>1, <3>1, ObjectiveRows, Patterns
    <3>3. \A k \in 1..df.nnz : GradientVector(prob, df.at)[k] \in Int
      BY <1>1, <3>1, <3>2, GradientValues, Iterates
    <3> QED
      BY <3>3 DEF DFValues
  <2>3. HasStructure(df, DenseDF, row, col) /\ HasValues(df, val)
    BY <1>0 DEF StructureOK, ValuesOK
  <2> HIDE DEF row, col, val
  <2> QED
    BY <1>6, <2>1, <2>2, <2>3, MatrixType
<1>8. /\ dg \in Matrix(1..NCon, 1..Dim)
      /\ phase = "ready" => Len(dg.row) = dg.nnz /\ Len(dg.col) = dg.nnz
      /\ dg.at # NoIterate => Len(dg.val) = dg.nnz
  <2> DEFINE row == [k \in 1..dg.nnz |-> DGCell(k)[1]]
             col == [k \in 1..dg.nnz |-> DGCell(k)[2]]
             val == DGValues
  <2>1. ASSUME phase # "start"
        PROVE  row \in [1..dg.nnz -> 1..NCon] /\ col \in [1..dg.nnz -> 1..Dim]
    <3> DEFINE T == JacobianTarget
               w == [k \in 1..Len(gs) |-> DGCell(k)]
    <3>1. /\ Lists(w, T, ColumnBelow(T)) /\ Len(gs) = Cardinality(T)
          /\ T \in SUBSET ((1..NCon) \X (1..Dim))
      BY <1>1, <1>3, <2>1, JacobianCells
    <3>2. \A k \in 1..Len(gs) : w[k] \in T
      <4> HIDE DEF w, T
      <4> QED
        BY <3>1 DEF Lists
    <3>3. \A k \in 1..Len(gs) : DGCell(k) \in (1..NCon) \X (1..Dim)
      BY <3>1, <3>2
    <3>4. \A k \in 1..Len(gs) : DGCell(k)[1] \in 1..NCon /\ DGCell(k)[2] \in 1..Dim
      BY <3>3
    <3> QED
      BY <1>3, <2>1, <3>4
  <2>2. ASSUME dg.at # NoIterate
        PROVE  val \in [1..dg.nnz -> Int]
    <3>1. /\ dg.at \in Iterate /\ dg.nnz = Len(gs) /\ df.nnz = Len(fs)
          /\ gs_idx_map = GradientOrder(gs)
      BY <1>3, <2>2, ValuesReady
    <3>2. /\ gs \in [1..Len(gs) -> ConstraintCells(prob)]
          /\ gs_idx_map \in [1..Len(gs) -> 1..Len(gs)]
      BY <1>1, <3>1, JacobianCells
    <3>3. ConstraintCells(prob) \subseteq GradientCells
      BY <1>1, Patterns
    <3>4. \A k \in 1..Len(gs) : GradientVector(prob, dg.at)[Len(fs) + k] \in Int
      BY <1>1, <3>1, <3>2, <3>3, GradientValues, Iterates
    <3>5. \A k \in 1..dg.nnz :
            GradientVector(prob, dg.at)[df.nnz + gs_idx_map[k]] \in Int
      BY <3>1, <3>2, <3>4
    <3> QED
      BY <3>5 DEF DGValues
  <2>3. HasStructure(dg, DenseDG, row, col) /\ HasValues(dg, val)
    BY <1>0 DEF StructureOK, ValuesOK
  <2> HIDE DEF row, col, val
  <2> QED
    BY <1>6, <2>1, <2>2, <2>3, MatrixType
<1>9. /\ hm \in Matrix(1..Dim, 1..Dim)
      /\ phase = "ready" => Len(hm.row) = hm.nnz /\ Len(hm.col) = hm.nnz
      /\ hm.at # NoIterate => Len(hm.val) = hm.nnz
  <2> DEFINE n == Len(hs_idx_map)
             row == [k \in 1..hm.nnz |-> HMCell(k)[1]]
             col == [k \in 1..hm.nnz |-> HMCell(k)[2]]
             val == HMValues
  <2>1. ASSUME phase # "start"
        PROVE  row \in [1..hm.nnz -> 1..Dim] /\ col \in [1..hm.nnz -> 1..Dim]
    <3>1. /\ n \in Nat
          /\ \A k \in 1..n : merged_hs[hs_idx_map[k]] \in StrictCells
          /\ \A k \in 1..n : HMCell(k) = Moved(merged_hs[hs_idx_map[k]], 1, 1)
          /\ HessianTarget \in SUBSET StrictTriangle
      BY <1>1, <1>3, <2>1, HessianCells
    <3>2. \A k \in 1..n : HMCell(k) \in StrictTriangle
      BY <3>1 DEF HessianTarget
    <3>3. \A k \in 1..n : HMCell(k)[1] \in 1..Dim /\ HMCell(k)[2] \in 1..Dim
      BY <3>2 DEF StrictTriangle
    <3>4. ASSUME NEW k \in 1..hm.nnz, k \notin 1..n
          PROVE  HMCell(k)[1] \in 1..Dim /\ HMCell(k)[2] \in 1..Dim
      <4>1. k - n \in 1..Dim /\ ~(k <= n)
        BY <1>3, <1>4, <2>1, <3>1, <3>4
      <4>2. HMCell(k) = <<k - n, k - n>>
        BY <4>1 DEF HMCell
      <4> QED
        BY <4>1, <4>2
    <3> QED
      BY <3>3, <3>4
  <2>2. ASSUME hm.at # NoIterate
        PROVE  val \in [1..hm.nnz -> Int]
    <3>1. phase = "ready" /\ hm.at \in Iterate
      BY <2>2, ValuesReady
    <3>2. \A k \in 1..hm.nnz : HMSource(k) \in Int \X Int
      BY <3>1, HMCells
    <3>3. \A k \in 1..hm.nnz : MergedHessian(hm.at, HMSource(k)) \in Int
      BY <1>1, <3>1, <3>2, MergedIs
    <3> QED
      BY <3>3 DEF HMValues
  <2>3. HasStructure(hm, DenseHM, row, col) /\ HasValues(hm, val)
    BY <1>0 DEF StructureOK, ValuesOK
  <2> HIDE DEF row, col, val
  <2> QED
    BY <1>6, <2>1, <2>2, <2>3, MatrixType
<1> QED
  BY <1>1, <1>5, <1>7, <1>8, <1>9 DEF TypeOK

(* The index maps are positions, the rows and the columns lie in their     *)
(* matrices and the arrays have their declared length, for every pattern.  *)
THEOREM TypeCorrect == Spec => []TypeOK
  BY Inductive, TypeHolds, PTL

(* DF is the gradient of the objective: the split of pagmo's gradient, the *)
(* size, the structure (the library's if DF is dense, or evolve()'s) and   *)
(* the values of UserDF agree, for every pattern.                          *)
THEOREM GradientIsRight == Spec => []GradientRight
  BY Inductive, GradientRightHolds, PTL

(* DG is the jacobian of the constraints: the order by columns of the      *)
(* index map is the one the structure has, dense or not, for every pattern.*)
THEOREM JacobianIsRight == Spec => []JacobianRight
  BY Inductive, JacobianRightHolds, PTL

(* HM is the hessian of the Lagrangian, for every number of constraints    *)
(* and all patterns of their hessians, overlapping or not.                 *)
THEOREM HessianIsRight == Spec => []HessianRight
  BY Inductive, HessianRightHolds, PTL

(* HM has the strict lower triangle by columns, then the whole diagonal.   *)
THEOREM HessianHasFormat == Spec => []HessianFormat
  BY Inductive, HessianFormatHolds, PTL
===============================================================================
