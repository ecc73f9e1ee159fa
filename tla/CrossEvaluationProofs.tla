----------------------- MODULE CrossEvaluationProofs -----------------------
(***************************************************************************)
(* The packed index of CrossEvaluation, for every capacity and every       *)
(* fleet: the tree over a scenario's boxes answers each query exactly, in  *)
(* whatever state the frames before have left its arrays (QueryExact).     *)
(*                                                                         *)
(* Sorting is permuting: the k-th member of an order is a one-to-one       *)
(* numbering (NthFact), so every entry is the leaf of one slot.            *)
(* A parent's box covers its leaves and a root's its parents, so a leaf    *)
(* that meets a query is found through both (FoundExactly).                *)
(***************************************************************************)
EXTENDS CrossEvaluation, DataLemmas

(* A strict order of all members of S.                                     *)
Orders(before, S) ==
  /\ before \in SUBSET (S \X S)
  /\ \A i \in S : <<i, i>> \notin before
  /\ \A i, j, k \in S : <<i, j>> \in before /\ <<j, k>> \in before => <<i, k>> \in before
  /\ \A i, j \in S : i # j => <<i, j>> \in before \/ <<j, i>> \in before

(* f numbers the members of S, each once.                                  *)
Numbers(f, S) ==
  /\ f \in [1..Cardinality(S) -> S]
  /\ \A j, k \in 1..Cardinality(S) : f[j] = f[k] => j = k
  /\ \A x \in S : \E k \in 1..Cardinality(S) : f[k] = x

(* The k-th members of an order number its set.                            *)
LEMMA NthFact ==
  ASSUME NEW S, IsFiniteSet(S), NEW before, Orders(before, S)
  PROVE  Numbers([k \in 1..Cardinality(S) |-> Nth(S, before, k)], S)
<1> DEFINE n == Cardinality(S)
           ahead(i) == {j \in S : <<j, i>> \in before}
           place == [i \in S |-> 1 + Cardinality(ahead(i))]
           f == [k \in 1..n |-> Nth(S, before, k)]
<1>1. n \in Nat
  BY FS_CardinalityType
<1>2. \A i \in S : IsFiniteSet(ahead(i)) /\ Cardinality(ahead(i)) \in Nat
  <2> SUFFICES ASSUME NEW i \in S PROVE IsFiniteSet(ahead(i)) /\ Cardinality(ahead(i)) \in Nat
    OBVIOUS
  <2>1. ahead(i) \subseteq S
    OBVIOUS
  <2> QED BY <2>1, FS_Subset, FS_CardinalityType
<1>3. place \in [S -> 1..n]
  <2> SUFFICES ASSUME NEW i \in S PROVE 1 + Cardinality(ahead(i)) \in 1..n
    OBVIOUS
  <2>1. ahead(i) \subseteq S /\ ahead(i) # S
    BY DEF Orders
  <2>2. Cardinality(ahead(i)) < n
    <3>1. Cardinality(ahead(i)) <= n /\ (Cardinality(ahead(i)) = n => ahead(i) = S)
      <4> HIDE DEF ahead
      <4> QED BY <2>1, FS_Subset
    <3> HIDE DEF ahead, n
    <3> QED BY <1>1, <1>2, <2>1, <3>1
  <2> HIDE DEF ahead, n
  <2> QED BY <1>1, <1>2, <2>2
<1>4. ASSUME NEW i \in S, NEW j \in S, <<i, j>> \in before
      PROVE  place[i] < place[j]
  <2>1. ahead(i) \subseteq ahead(j) /\ i \in ahead(j) /\ i \notin ahead(i)
    BY <1>4 DEF Orders
  <2>2. place[i] = 1 + Cardinality(ahead(i)) /\ place[j] = 1 + Cardinality(ahead(j))
    OBVIOUS
  <2> HIDE DEF ahead, place
  <2>3. Cardinality(ahead(i)) < Cardinality(ahead(j))
    <3>1. /\ Cardinality(ahead(i)) <= Cardinality(ahead(j))
          /\ Cardinality(ahead(i)) = Cardinality(ahead(j)) => ahead(i) = ahead(j)
      BY <1>2, <2>1, FS_Subset
    <3> QED BY <1>2, <2>1, <3>1
  <2> QED BY <1>2, <2>2, <2>3
<1>5. \A i, j \in S : place[i] = place[j] => i = j
  <2> SUFFICES ASSUME NEW i \in S, NEW j \in S, place[i] = place[j], i # j PROVE FALSE
    OBVIOUS
  <2>1. <<i, j>> \in before \/ <<j, i>> \in before
    BY DEF Orders
  <2>2. place[i] < place[j] \/ place[j] < place[i]
    <3> HIDE DEF place
    <3> QED BY <1>4, <2>1
  <2>3. place[i] \in Int
    <3> HIDE DEF place, n
    <3> QED BY <1>1, <1>3
  <2> HIDE DEF place
  <2> QED BY <2>2, <2>3
<1>6. \A k \in 1..n : \E i \in S : place[i] = k
  <2> HIDE DEF place
  <2> QED BY <1>3, <1>5, OneToOneIsOnto
<1>7. \A k \in 1..n : f[k] \in S /\ place[f[k]] = k
  <2> SUFFICES ASSUME NEW k \in 1..n PROVE f[k] \in S /\ place[f[k]] = k
    OBVIOUS
  <2>1. \E i \in S : Cardinality(ahead(i)) = k - 1
    <3>1. PICK i \in S : place[i] = k
      BY <1>6
    <3>2. place[i] = 1 + Cardinality(ahead(i)) /\ Cardinality(ahead(i)) \in Nat
      BY <1>2
    <3> HIDE DEF place, ahead
    <3> QED BY <3>1, <3>2
  <2>2. f[k] = CHOOSE i \in S : Cardinality(ahead(i)) = k - 1
    BY DEF Nth
  <2>3. f[k] \in S /\ Cardinality(ahead(f[k])) = k - 1
    <3> HIDE DEF f, ahead
    <3> QED BY <2>1, <2>2
  <2>4. place[f[k]] = 1 + Cardinality(ahead(f[k])) /\ k \in Int
    <3> HIDE DEF f, ahead, n
    <3> QED BY <1>1, <2>3
  <2> HIDE DEF f, place, ahead
  <2> QED BY <2>3, <2>4
<1>8. f = [k \in 1..n |-> f[k]]
  OBVIOUS
<1>9. f \in [1..n -> S]
  BY <1>7
<1>10. \A j, k \in 1..n : f[j] = f[k] => j = k
  <2> HIDE DEF f, place
  <2> QED BY <1>7
<1>11. \A x \in S : \E k \in 1..n : f[k] = x
  <2> SUFFICES ASSUME NEW x \in S PROVE \E k \in 1..n : f[k] = x
    OBVIOUS
  <2>1. place[x] \in 1..n
    <3> HIDE DEF place
    <3> QED BY <1>3
  <2>2. f[place[x]] = x
    <3> HIDE DEF f, place
    <3> QED BY <1>5, <1>7, <2>1
  <2> HIDE DEF f, place
  <2> QED BY <2>1, <2>2
<1> HIDE DEF f
<1> QED BY <1>9, <1>10, <1>11 DEF Numbers, f

(* f permutes the numbers up to n.                                         *)
Permutes(f, n) ==
  /\ f \in [1..n -> 1..n]
  /\ \A j, k \in 1..n : f[j] = f[k] => j = k
  /\ \A x \in 1..n : \E k \in 1..n : f[k] = x

(* Sorting by two keys permutes.                                           *)
LEMMA OrderPermutes ==
  ASSUME NEW n \in Nat, NEW major, NEW minor,
         \A k \in 1..n : major[k] \in Int /\ minor[k] \in Int
  PROVE  Permutes(Order(n, major, minor), n)
<1> DEFINE S == 1..n
           before == {p \in S \X S :
                        \/ major[p[1]] < major[p[2]]
                        \/ /\ major[p[1]] = major[p[2]]
                           /\ minor[p[1]] < minor[p[2]] \/ (minor[p[1]] = minor[p[2]] /\ p[1] < p[2])}
           lower(i, j) == \/ major[i] < major[j]
                          \/ /\ major[i] = major[j]
                             /\ minor[i] < minor[j] \/ (minor[i] = minor[j] /\ i < j)
<1>1. IsFiniteSet(S) /\ Cardinality(S) = n
  BY FS_Interval
<1>2. \A i, j \in S : <<i, j>> \in before <=> lower(i, j)
  OBVIOUS
<1>3. \A i \in S : ~lower(i, i)
  OBVIOUS
<1>4. \A i, j, k \in S : lower(i, j) /\ lower(j, k) => lower(i, k)
  OBVIOUS
<1>5. \A i, j \in S : i # j => lower(i, j) \/ lower(j, i)
  OBVIOUS
<1>6. before \in SUBSET (S \X S)
  OBVIOUS
<1>7. Order(n, major, minor) = [k \in 1..Cardinality(S) |-> Nth(S, before, k)]
  BY <1>1 DEF Order
<1>8. Orders(before, S)
  <2> HIDE DEF before, lower, S
  <2> QED BY <1>2, <1>3, <1>4, <1>5, <1>6 DEF Orders
<1>9. Numbers(Order(n, major, minor), S)
  <2> HIDE DEF before, S
  <2> QED BY <1>1, <1>7, <1>8, NthFact
<1> QED BY <1>1, <1>9 DEF Numbers, Permutes

(* A finite set of numbers is counted off in ascending order.              *)
LEMMA AscendingNumbers ==
  ASSUME NEW S \in SUBSET Int, IsFiniteSet(S)
  PROVE  Numbers(Ascending(S), S)
<1> DEFINE before == {p \in S \X S : p[1] < p[2]}
<1>1. \A i, j \in S : <<i, j>> \in before <=> i < j
  OBVIOUS
<1>2. before \in SUBSET (S \X S)
  OBVIOUS
<1>3. Orders(before, S)
  <2> HIDE DEF before
  <2>1. \A i, j, k \in S : ~(i < i) /\ (i < j /\ j < k => i < k) /\ (i # j => i < j \/ j < i)
    OBVIOUS
  <2> QED BY <1>1, <1>2, <2>1 DEF Orders
<1> HIDE DEF before
<1>4. Numbers([k \in 1..Cardinality(S) |-> Nth(S, before, k)], S)
  BY <1>3, NthFact
<1> QED BY <1>4 DEF Ascending, before

(* There is a least number of slices, and it is not zero.                  *)
LEMMA SliceCount ==
  ASSUME NEW n \in Nat \ {0}, NEW d \in Nat \ {0}
  PROVE  CeilSqrt(n, d) \in 1..n
<1> DEFINE T == {k \in Nat : k * k * d >= n}
           Fits(k) == k * k * d >= n /\ \A j \in 0..k - 1 : j * j * d < n
<1>1. n \in T
  <2>1. n * d >= n /\ n * d \in Nat
    OBVIOUS
  <2>2. n * n * d = n * (n * d) /\ n * (n * d) >= n * d
    <3>1. \A m \in Nat : n * m >= m
      OBVIOUS
    <3> QED BY <2>1, <3>1
  <2> QED BY <2>1, <2>2
<1>2. PICK k \in T : \A m \in T : k <= m
  <2>1. T \in SUBSET Nat /\ T # {}
    BY <1>1
  <2> QED BY <2>1, LeastNat
<1>3. k \in 0..n /\ Fits(k)
  <2>1. k \in Nat /\ k <= n /\ k * k * d >= n
    BY <1>1, <1>2
  <2>2. ASSUME NEW j \in 0..k - 1 PROVE j * j * d < n
    <3>1. j \notin T /\ j \in Nat
      BY <1>2, <2>1
    <3>2. j * j * d \in Nat
      BY <3>1
    <3> QED BY <3>1, <3>2
  <2> QED BY <2>1, <2>2
<1>4. CeilSqrt(n, d) = CHOOSE m \in 0..n : Fits(m)
  BY DEF CeilSqrt
<1>5. CeilSqrt(n, d) \in 0..n /\ Fits(CeilSqrt(n, d))
  <2> HIDE DEF Fits
  <2> QED BY <1>3, <1>4
<1>6. CeilSqrt(n, d) # 0
  BY <1>5
<1> QED BY <1>5, <1>6

(* Division that rounds up.                                                *)
LEMMA Ceilings ==
  ASSUME NEW n \in Nat, NEW d \in Nat \ {0}
  PROVE  /\ Ceil(n, d) \in Nat
         /\ n <= Ceil(n, d) * d /\ Ceil(n, d) * d < n + d
         /\ n >= 1 => Ceil(n, d) >= 1
<1> DEFINE q == (n + d - 1) \div d
<1>1. q \in Nat /\ q * d <= n + d - 1 /\ n + d - 1 < q * d + d
  <2>1. n + d - 1 \in Nat
    OBVIOUS
  <2> QED BY <2>1, Floors
<1>2. n >= 1 => q >= 1
  <2> SUFFICES ASSUME n >= 1, q = 0 PROVE FALSE
    BY <1>1
  <2>1. q * d = 0
    OBVIOUS
  <2> HIDE DEF q
  <2> QED BY <1>1, <2>1
<1>3. q * d \in Nat
  BY <1>1
<1> HIDE DEF q
<1> QED BY <1>1, <1>2, <1>3 DEF Ceil, q

(* Sorting by x and, slice by slice, by y permutes the entries.            *)
LEMMA SortPermutes ==
  ASSUME NEW tree, tree.leaf_count \in Nat \ {0},
         \A i \in 0..tree.leaf_count - 1 : tree.tmp[i].at[1] \in Int /\ tree.tmp[i].at[2] \in Int
  PROVE  Permutes(tmp_sort_indices(tree), tree.leaf_count)
<1> DEFINE n == tree.leaf_count
           x == Center(tree, 1)
           y == Center(tree, 2)
           byX == Order(n, x, Unkeyed(n))
           slice == Ceil(n, CeilSqrt(n, Cap))
           majors == [k \in 1..n |-> (k - 1) \div slice]
           minors == [k \in 1..n |-> y[byX[k]]]
           within == Order(n, majors, minors)
<1>1. n \in Nat \ {0}
  OBVIOUS
<1>2. \A k \in 1..n : x[k] \in Int /\ y[k] \in Int
  <2> SUFFICES ASSUME NEW k \in 1..n PROVE x[k] \in Int /\ y[k] \in Int
    OBVIOUS
  <2>1. k - 1 \in 0..n - 1
    BY <1>1
  <2>2. x[k] = tree.tmp[k - 1].at[1] /\ y[k] = tree.tmp[k - 1].at[2]
    BY DEF Center
  <2> HIDE DEF x, y
  <2> QED BY <2>1, <2>2
<1>3. \A k \in 1..n : Unkeyed(n)[k] \in Int
  BY DEF Unkeyed
<1>4. slice \in Nat \ {0}
  <2>1. CeilSqrt(n, Cap) \in 1..n
    BY <1>1, IndexAssumption, SliceCount
  <2> DEFINE c == CeilSqrt(n, Cap)
  <2>2. c \in Nat \ {0} /\ n >= 1 /\ n \in Nat
    BY <1>1, <2>1
  <2> HIDE DEF n, c
  <2>3. Ceil(n, c) \in Nat /\ Ceil(n, c) >= 1
    BY <2>2, Ceilings
  <2> QED BY <2>3 DEF c
<1>5. tmp_sort_indices(tree) = [k \in 1..n |-> byX[within[k]]]
  BY DEF tmp_sort_indices, InSlices
<1> HIDE DEF n, x, y, slice
<1>6. Permutes(byX, n)
  BY <1>1, <1>2, <1>3, OrderPermutes
<1> HIDE DEF byX
<1>7. \A k \in 1..n : majors[k] \in Int /\ minors[k] \in Int
  <2> SUFFICES ASSUME NEW k \in 1..n PROVE majors[k] \in Int /\ minors[k] \in Int
    OBVIOUS
  <2>1. (k - 1) \div slice \in Int
    <3>1. k - 1 \in Nat
      BY <1>1
    <3> QED BY <1>4, <3>1
  <2>2. y[byX[k]] \in Int
    BY <1>2, <1>6 DEF Permutes
  <2> QED BY <2>1, <2>2
<1> HIDE DEF majors, minors
<1>8. Permutes(within, n)
  BY <1>1, <1>7, OrderPermutes
<1> HIDE DEF within
<1>9. Permutes([k \in 1..n |-> byX[within[k]]], n)
  <2> DEFINE f == [k \in 1..n |-> byX[within[k]]]
  <2>1. f \in [1..n -> 1..n]
    BY <1>6, <1>8 DEF Permutes
  <2>2. \A k \in 1..n : f[k] = byX[within[k]]
    OBVIOUS
  <2> HIDE DEF f
  <2>3. \A j, k \in 1..n : f[j] = f[k] => j = k
    <3> SUFFICES ASSUME NEW j \in 1..n, NEW k \in 1..n, f[j] = f[k] PROVE j = k
      OBVIOUS
    <3>1. within[j] \in 1..n /\ within[k] \in 1..n
      BY <1>8 DEF Permutes
    <3>2. byX[within[j]] = byX[within[k]]
      BY <2>2
    <3>3. within[j] = within[k]
      BY <1>6, <3>1, <3>2 DEF Permutes
    <3> QED BY <1>8, <3>3 DEF Permutes
  <2>4. \A i \in 1..n : \E k \in 1..n : f[k] = i
    <3> SUFFICES ASSUME NEW i \in 1..n PROVE \E k \in 1..n : f[k] = i
      OBVIOUS
    <3>1. PICK j \in 1..n : byX[j] = i
      BY <1>6 DEF Permutes
    <3>2. PICK k \in 1..n : within[k] = j
      BY <1>8 DEF Permutes
    <3> QED BY <2>2, <3>1, <3>2
  <2>5. Permutes(f, n)
    BY <2>1, <2>3, <2>4 DEF Permutes
  <2> QED BY <2>5 DEF f
<1> QED BY <1>5, <1>9 DEF n

-----------------------------------------------------------------------------
(* A finite set of numbers has bounds.                                     *)
LEMMA FiniteBounds ==
  ASSUME NEW S \in SUBSET Int, IsFiniteSet(S)
  PROVE  \E lo, hi \in Int : \A x \in S : lo <= x /\ x <= hi
<1> DEFINE Bounded(R) == \E lo, hi \in Int : \A x \in R : lo <= x /\ x <= hi
           T == {n \in Nat : \A R \in SUBSET Int : IsFiniteSet(R) /\ Cardinality(R) = n => Bounded(R)}
<1>1. 0 \in T
  <2> SUFFICES ASSUME NEW R \in SUBSET Int, IsFiniteSet(R), Cardinality(R) = 0 PROVE Bounded(R)
    OBVIOUS
  <2>1. R = {}
    BY FS_EmptySet
  <2> QED BY <2>1
<1>2. ASSUME NEW n \in Nat, n \in T PROVE n + 1 \in T
  <2> SUFFICES ASSUME NEW R \in SUBSET Int, IsFiniteSet(R), Cardinality(R) = n + 1 PROVE Bounded(R)
    OBVIOUS
  <2>1. R # {}
    BY FS_EmptySet
  <2> DEFINE y == AnyOf(R)
             rest == R \ {y}
  <2>2. y \in R /\ IsFiniteSet(rest) /\ Cardinality(rest) = (n + 1) - 1
    BY <2>1, AnyOfFact
  <2> HIDE DEF y
  <2>3. Bounded(rest)
    <3>1. rest \in SUBSET Int /\ IsFiniteSet(rest) /\ Cardinality(rest) = n
      BY <2>2
    <3> HIDE DEF rest
    <3> QED BY <1>2, <3>1
  <2>4. PICK lo \in Int, hi \in Int : \A x \in rest : lo <= x /\ x <= hi
    BY <2>3
  <2> DEFINE low  == IF lo <= y THEN lo ELSE y
             high == IF hi >= y THEN hi ELSE y
  <2>5. low \in Int /\ high \in Int /\ low <= y /\ low <= lo /\ y <= high /\ hi <= high
    BY <2>2
  <2> HIDE DEF low, high
  <2>6. \A x \in R : low <= x /\ x <= high
    <3> SUFFICES ASSUME NEW x \in R PROVE low <= x /\ x <= high
      OBVIOUS
    <3>1. CASE x = y
      BY <2>5, <3>1
    <3>2. CASE x # y
      <4>1. lo <= x /\ x <= hi /\ x \in Int
        BY <2>4, <3>2
      <4> QED BY <2>4, <2>5, <4>1
    <3> QED BY <3>1, <3>2
  <2> QED BY <2>5, <2>6
<1> HIDE DEF T
<1>3. \A n \in Nat : n \in T
  BY <1>1, <1>2, SetInduction
<1>4. Cardinality(S) \in T
  BY <1>3, FS_CardinalityType
<1> QED BY <1>4 DEF T

(* A box with integer sides, and one that contains another.                *)
Sided(b) == \A k \in 1..2 : b.lo[k] \in Int /\ b.hi[k] \in Int

Covers(a, b) == \A k \in 1..2 : a.lo[k] <= b.lo[k] /\ b.hi[k] <= a.hi[k]

(* What meets a box meets the boxes around it.                             *)
LEMMA CoversMeets ==
  ASSUME NEW a, NEW b, NEW q, Sided(a), Sided(b), Sided(q), Covers(a, b), intersects(q, b)
  PROVE  intersects(q, a)
<1> SUFFICES ASSUME NEW k \in 1..2 PROVE q.lo[k] <= a.hi[k] /\ a.lo[k] <= q.hi[k]
  BY DEF intersects
<1>1. /\ a.lo[k] \in Int /\ a.hi[k] \in Int /\ b.lo[k] \in Int /\ b.hi[k] \in Int
      /\ q.lo[k] \in Int /\ q.hi[k] \in Int
  BY DEF Sided
<1>2. a.lo[k] <= b.lo[k] /\ b.hi[k] <= a.hi[k]
  BY DEF Covers
<1>3. q.lo[k] <= b.hi[k] /\ b.lo[k] <= q.hi[k]
  BY DEF intersects
<1> QED BY <1>1, <1>2, <1>3

(* The least and the greatest value of a column.                           *)
LEMMA ColumnBounds ==
  ASSUME NEW S, IsFiniteSet(S), S # {}, NEW f, \A b \in S : f[b] \in Int
  PROVE  /\ Min({f[b] : b \in S}) \in Int /\ Max({f[b] : b \in S}) \in Int
         /\ \A b \in S : Min({f[c] : c \in S}) <= f[b] /\ f[b] <= Max({f[c] : c \in S})
<1> DEFINE T == {f[b] : b \in S}
           g == [b \in S |-> f[b]]
<1>1. T \in SUBSET Int /\ T # {}
  OBVIOUS
<1>2. IsFiniteSet(T)
  <2>1. g \in Surjection(S, T)
    BY DEF Surjection
  <2> HIDE DEF g, T
  <2> QED BY <2>1, FS_Surjection
<1>3. \A b \in S : f[b] \in T
  OBVIOUS
<1> HIDE DEF T
<1>4. PICK lo \in Int, hi \in Int : \A x \in T : lo <= x /\ x <= hi
  BY <1>1, <1>2, FiniteBounds
<1>5. Min(T) \in T /\ \A x \in T : Min(T) <= x
  BY <1>1, <1>4, MinFact
<1>6. Max(T) \in T /\ \A x \in T : Max(T) >= x
  BY <1>1, <1>4, MaxFact
<1>7. /\ Min(T) \in Int /\ Max(T) \in Int
      /\ \A b \in S : Min(T) <= f[b] /\ f[b] <= Max(T)
  <2>1. Min(T) \in Int /\ Max(T) \in Int
    BY <1>1, <1>5, <1>6
  <2> SUFFICES ASSUME NEW b \in S PROVE Min(T) <= f[b] /\ f[b] <= Max(T)
    BY <2>1
  <2>2. f[b] \in T /\ f[b] \in Int
    BY <1>1, <1>3
  <2>3. Min(T) <= f[b] /\ Max(T) >= f[b]
    BY <1>5, <1>6, <2>2
  <2> QED BY <2>1, <2>2, <2>3
<1> QED BY <1>7 DEF T

(* A hull covers the boxes it was made of (STRtree::build: hmin, hmax).    *)
LEMMA HullCovers ==
  ASSUME NEW S, IsFiniteSet(S), S # {}, \A b \in S : Sided(b)
  PROVE  Sided(Hull(S)) /\ \A b \in S : Covers(Hull(S), b)
<1> DEFINE lo(k) == [b \in S |-> b.lo[k]]
           hi(k) == [b \in S |-> b.hi[k]]
<1>1. \A k \in 1..2 : /\ Hull(S).lo[k] = Min({b.lo[k] : b \in S})
                      /\ Hull(S).hi[k] = Max({b.hi[k] : b \in S})
  <2>1. /\ Hull(S).lo = <<Min({b.lo[1] : b \in S}), Min({b.lo[2] : b \in S})>>
        /\ Hull(S).hi = <<Max({b.hi[1] : b \in S}), Max({b.hi[2] : b \in S})>>
    BY DEF Hull
  <2> SUFFICES ASSUME NEW k \in 1..2
               PROVE  /\ Hull(S).lo[k] = Min({b.lo[k] : b \in S})
                      /\ Hull(S).hi[k] = Max({b.hi[k] : b \in S})
    OBVIOUS
  <2>2. CASE k = 1
    BY <2>1, <2>2
  <2>3. CASE k = 2
    BY <2>1, <2>3
  <2> QED BY <2>2, <2>3
<1>2. \A k \in 1..2 : \A b \in S : lo(k)[b] \in Int /\ hi(k)[b] \in Int
  BY DEF Sided
<1>3. \A k \in 1..2 : \A b \in S : lo(k)[b] = b.lo[k] /\ hi(k)[b] = b.hi[k]
  OBVIOUS
<1>4. ASSUME NEW k \in 1..2
      PROVE  /\ Hull(S).lo[k] \in Int /\ Hull(S).hi[k] \in Int
             /\ \A b \in S : Hull(S).lo[k] <= b.lo[k] /\ b.hi[k] <= Hull(S).hi[k]
  <2>1. {b.lo[k] : b \in S} = {lo(k)[b] : b \in S} /\ {b.hi[k] : b \in S} = {hi(k)[b] : b \in S}
    OBVIOUS
  <2> HIDE DEF lo, hi
  <2>2. /\ Min({lo(k)[b] : b \in S}) \in Int
        /\ \A b \in S : Min({lo(k)[c] : c \in S}) <= lo(k)[b]
    BY <1>2, ColumnBounds
  <2>3. /\ Max({hi(k)[b] : b \in S}) \in Int
        /\ \A b \in S : hi(k)[b] <= Max({hi(k)[c] : c \in S})
    BY <1>2, ColumnBounds
  <2>4. Hull(S).lo[k] = Min({lo(k)[b] : b \in S}) /\ Hull(S).hi[k] = Max({hi(k)[b] : b \in S})
    BY <1>1, <2>1
  <2> QED BY <1>3, <2>2, <2>3, <2>4
<1> QED BY <1>4 DEF Sided, Covers

-----------------------------------------------------------------------------
(* A tree whose arrays have the sizes they were given; what is in them is  *)
(* left open.                                                              *)
Reusable(tree) ==
  /\ tree = [tmp |-> tree.tmp, leaf_count |-> tree.leaf_count, dual |-> tree.dual,
             leaves |-> tree.leaves, parents |-> tree.parents, tests |-> tree.tests,
             polygon_idxs |-> tree.polygon_idxs, sub_root |-> tree.sub_root]
  /\ DOMAIN tree.tmp = 0..Entries - 1
  /\ DOMAIN tree.tests = 0..2 * SubTotal - 1
  /\ DOMAIN tree.polygon_idxs = 0..2 * SubLeaf - 1

(* The boxes of the agents of a frame, numbered from 0.                    *)
AreBoxes(boxes) ==
  /\ Len(boxes) \in Nat /\ DOMAIN boxes = 1..Len(boxes) /\ Len(boxes) <= Entries
  /\ \A i \in 1..Len(boxes) :
       /\ Sided(boxes[i]) /\ boxes[i].at[1] \in Int /\ boxes[i].at[2] \in Int
       /\ boxes[i].id = i - 1

(* The first k boxes have been inserted.                                   *)
Holding(tree, boxes, k) ==
  /\ Reusable(tree) /\ tree.leaf_count = k
  /\ \A i \in 0..k - 1 : tree.tmp[i] = boxes[i + 1]

(* Numbers of the layout.                                                  *)
LEMMA Sizes ==
  /\ Cap \in Nat \ {0} /\ Entries \in Nat
  /\ SubLeaf \in Nat /\ SubLeaf >= Cap /\ SubLeaf = Cap * Cap
  /\ SubTotal = Cap + SubLeaf /\ SubTotal \in Nat
  /\ Entries <= 2 * SubLeaf
<1>1. Cap \in Nat \ {0} /\ Entries \in Nat /\ Entries <= 2 * SubLeaf
  BY IndexAssumption
<1>2. Cap * Cap \in Nat /\ Cap * Cap >= Cap
  BY <1>1
<1> QED BY <1>1, <1>2 DEF SubLeaf, SubTotal

(* A batch goes behind what is there (insertBatch).                        *)
LEMMA InsertHolds ==
  ASSUME NEW tree, NEW boxes, NEW k \in Nat, AreBoxes(boxes), k < Len(boxes), Holding(tree, boxes, k),
         NEW batch,
         \A j \in 1..Cap : k + j <= Len(boxes) => batch[j] = boxes[k + j]
  PROVE  Holding(insertBatch(tree, batch, Min({Cap, Len(boxes) - k})), boxes,
                 IF k + Cap <= Len(boxes) THEN k + Cap ELSE Len(boxes))
<1> DEFINE n == Len(boxes)
           valid == Min({Cap, n - k})
           tmp == [i \in DOMAIN tree.tmp |->
                     IF i \in tree.leaf_count..tree.leaf_count + Cap - 1
                     THEN batch[i - tree.leaf_count + 1] ELSE tree.tmp[i]]
           new == insertBatch(tree, batch, valid)
           size == IF k + Cap <= n THEN k + Cap ELSE n
<1>1. n \in Nat /\ k < n /\ n <= Entries /\ Cap \in Nat \ {0} /\ Entries \in Nat
  BY Sizes DEF AreBoxes
<1>2. k + valid = size /\ size \in Nat /\ size <= n /\ size <= k + Cap
  <2>1. valid = IF Cap <= n - k THEN Cap ELSE n - k
    <3>1. Cap \in Int /\ n - k \in Int
      BY <1>1
    <3> HIDE DEF n
    <3> QED BY <3>1, MinOf
  <2> HIDE DEF valid, n
  <2> QED BY <1>1, <2>1
<1>3. new = [tree EXCEPT !.tmp = tmp, !.leaf_count = @ + valid]
  BY DEF insertBatch
<1> HIDE DEF tmp, new, valid
<1>4. /\ new = [tmp |-> tmp, leaf_count |-> tree.leaf_count + valid, dual |-> tree.dual,
                leaves |-> tree.leaves, parents |-> tree.parents, tests |-> tree.tests,
                polygon_idxs |-> tree.polygon_idxs, sub_root |-> tree.sub_root]
  BY <1>3 DEF Holding, Reusable
<1>5. DOMAIN tmp = 0..Entries - 1
  BY DEF Holding, Reusable, tmp
<1>6. Reusable(new)
  BY <1>4, <1>5 DEF Holding, Reusable
<1>7. new.leaf_count = size
  BY <1>2, <1>4 DEF Holding
<1>8. ASSUME NEW i \in 0..size - 1 PROVE new.tmp[i] = boxes[i + 1]
  <2>1. i \in 0..Entries - 1 /\ i \in Int /\ i < k + Cap /\ i + 1 <= n
    <3> HIDE DEF size, n
    <3> QED BY <1>1, <1>2, <1>8
  <2>2. new.tmp[i] = IF i \in k..k + Cap - 1 THEN batch[i - k + 1] ELSE tree.tmp[i]
    BY <1>4, <2>1 DEF tmp, Holding, Reusable
  <2>3. CASE i < k
    <3>1. i \in 0..k - 1 /\ i \notin k..k + Cap - 1
      BY <2>1, <2>3, <1>8
    <3> QED BY <2>2, <3>1 DEF Holding
  <2>4. CASE i >= k
    <3>1. i \in k..k + Cap - 1 /\ i - k + 1 \in 1..Cap /\ k + (i - k + 1) = i + 1
      BY <1>1, <2>1, <2>4
    <3> QED BY <2>1, <2>2, <3>1
  <2> QED BY <2>1, <2>3, <2>4
<1> QED BY <1>6, <1>7, <1>8 DEF Holding, new, valid

(* The batches of a frame leave its boxes, and no other, in the tree       *)
(* (buildSTRtreesFrenetBatch).                                             *)
LEMMA FillHolds ==
  ASSUME NEW tree, NEW boxes, Reusable(tree), AreBoxes(boxes)
  PROVE  \E full : /\ Holding(full, boxes, Len(boxes))
                   /\ buildSTRtreesFrenetBatch(tree, boxes) = build(full)
<1> DEFINE n == Len(boxes)
           K == Ceil(n, Cap)
           batch(k) == [j \in 1..Cap |-> IF k + j <= n THEN boxes[k + j] ELSE Junk]
           step(u, r) == insertBatch(u, batch((r - 1) * Cap), Min({Cap, n - (r - 1) * Cap}))
           Rec(g, k) == g = [r \in 0..k |-> IF r = 0 THEN clear(tree) ELSE step(g[r - 1], r)]
           e == CHOOSE g : Rec(g, K)
           upTo(r) == IF r * Cap <= n THEN r * Cap ELSE n
<1>1. buildSTRtreesFrenetBatch(tree, boxes) = build(e[K])
  BY DEF buildSTRtreesFrenetBatch
<1>2. n \in Nat /\ Cap \in Nat \ {0}
  BY Sizes DEF AreBoxes
<1>3. K \in Nat /\ n <= K * Cap /\ K * Cap < n + Cap
  BY <1>2, Ceilings
<1>4. Holding(clear(tree), boxes, 0)
  <2> DEFINE c == clear(tree)
  <2>1. c = [tree EXCEPT !.leaf_count = 0]
    BY DEF clear
  <2> HIDE DEF c
  <2>2. c = [tmp |-> tree.tmp, leaf_count |-> 0, dual |-> tree.dual,
             leaves |-> tree.leaves, parents |-> tree.parents, tests |-> tree.tests,
             polygon_idxs |-> tree.polygon_idxs, sub_root |-> tree.sub_root]
    BY <2>1 DEF Reusable
  <2>3. Reusable(c) /\ c.leaf_count = 0
    BY <2>2 DEF Reusable
  <2> QED BY <2>3 DEF Holding, c
<1>5. ASSUME NEW u, NEW r \in 1..K, Holding(u, boxes, upTo(r - 1))
      PROVE  Holding(step(u, r), boxes, upTo(r))
  <2> DEFINE k == (r - 1) * Cap
             bat == batch(k)
  <2>1. k \in Nat /\ k + Cap = r * Cap /\ k < n
    <3>1. r - 1 \in Nat /\ r \in Nat /\ r <= K
      BY <1>3
    <3>2. (r - 1) * Cap \in Nat /\ (r - 1) * Cap + Cap = r * Cap
      BY <1>2, <3>1
    <3>3. r * Cap <= K * Cap
      BY <1>2, <1>3, <3>1, Products
    <3>4. r * Cap \in Int /\ K * Cap \in Int
      BY <1>2, <1>3, <3>1
    <3> HIDE DEF n, K
    <3> QED BY <1>2, <1>3, <3>2, <3>3, <3>4
  <2>2. upTo(r - 1) = k
    BY <1>2, <2>1
  <2>3. \A j \in 1..Cap : k + j <= n => bat[j] = boxes[k + j]
    OBVIOUS
  <2>4. upTo(r) = IF k + Cap <= n THEN k + Cap ELSE n
    BY <2>1
  <2>5. step(u, r) = insertBatch(u, bat, Min({Cap, Len(boxes) - k}))
    OBVIOUS
  <2> HIDE DEF bat, k, step
  <2> QED BY <1>5, <2>1, <2>2, <2>3, <2>4, <2>5, InsertHolds
<1> HIDE DEF step, K
<1>6. \E g : Rec(g, K)
  <2> DEFINE T == {k \in Nat : \E g : Rec(g, k)}
  <2>1. 0 \in T
    <3> DEFINE g == [r \in 0..0 |-> clear(tree)]
    <3>1. Rec(g, 0)
      OBVIOUS
    <3> QED BY <3>1
  <2>2. ASSUME NEW k \in Nat, k \in T PROVE k + 1 \in T
    <3>1. PICK g : Rec(g, k)
      BY <2>2
    <3> DEFINE h == [r \in 0..k + 1 |-> IF r = k + 1 THEN step(g[k], k + 1) ELSE g[r]]
    <3>2. \A r \in 0..k : h[r] = g[r]
      OBVIOUS
    <3>3. ASSUME NEW r \in 0..k + 1
          PROVE  h[r] = IF r = 0 THEN clear(tree) ELSE step(h[r - 1], r)
      <4>1. CASE r = k + 1
        <5>1. h[r] = step(g[k], r) /\ h[r - 1] = g[k] /\ r # 0
          BY <4>1
        <5> HIDE DEF h
        <5> QED BY <5>1
      <4>2. CASE r # k + 1
        <5>1. r \in 0..k /\ (r # 0 => r - 1 \in 0..k)
          BY <4>2
        <5>2. g[r] = IF r = 0 THEN clear(tree) ELSE step(g[r - 1], r)
          BY <3>1, <5>1
        <5>3. h[r] = g[r] /\ (r # 0 => h[r - 1] = g[r - 1])
          BY <3>2, <5>1
        <5> HIDE DEF h
        <5> QED BY <5>2, <5>3
      <4> QED BY <4>1, <4>2
    <3>4. h = [r \in 0..k + 1 |-> h[r]]
      OBVIOUS
    <3> HIDE DEF h
    <3>5. Rec(h, k + 1)
      BY <3>3, <3>4
    <3> QED BY <3>5
  <2> HIDE DEF T
  <2>3. K \in T
    BY <1>3, <2>1, <2>2, SetInduction
  <2> QED BY <2>3 DEF T
<1>7. Rec(e, K)
  <2> HIDE DEF Rec
  <2> QED BY <1>6
<1> HIDE DEF e
<1>8. e[0] = clear(tree) /\ \A r \in 1..K : e[r] = step(e[r - 1], r)
  BY <1>3, <1>7
<1>9. \A r \in Nat : r <= K => Holding(e[r], boxes, upTo(r))
  <2> DEFINE T == {r \in Nat : r <= K => Holding(e[r], boxes, upTo(r))}
  <2>1. 0 \in T
    <3>1. upTo(0) = 0
      BY <1>2
    <3> HIDE DEF upTo
    <3> QED BY <1>4, <1>8, <3>1
  <2>2. ASSUME NEW r \in Nat, r \in T PROVE r + 1 \in T
    <3> SUFFICES ASSUME r + 1 <= K PROVE Holding(e[r + 1], boxes, upTo(r + 1))
      OBVIOUS
    <3>1. r + 1 \in 1..K /\ (r + 1) - 1 = r /\ r <= K
      BY <1>3
    <3> HIDE DEF upTo
    <3> QED BY <1>5, <1>8, <2>2, <3>1
  <2> HIDE DEF T
  <2>3. \A r \in Nat : r \in T
    BY <2>1, <2>2, SetInduction
  <2> QED BY <2>3 DEF T
<1>10. upTo(K) = n
  BY <1>2, <1>3
<1>11. Holding(e[K], boxes, n)
  <2> HIDE DEF upTo
  <2> QED BY <1>3, <1>9, <1>10
<1> QED BY <1>1, <1>11

-----------------------------------------------------------------------------
(* The values of finitely many arguments are finitely many.                *)
LEMMA FiniteValues ==
  ASSUME NEW S, IsFiniteSet(S), NEW f
  PROVE  IsFiniteSet({f[x] : x \in S})
<1> DEFINE T == {f[x] : x \in S}
           g == [x \in S |-> f[x]]
<1>1. g \in Surjection(S, T)
  BY DEF Surjection
<1> HIDE DEF g, T
<1>2. IsFiniteSet(T)
  BY <1>1, FS_Surjection
<1> QED BY <1>2 DEF T

(* Which parents have leaves, and which parent a leaf has.                 *)
LEMMA ParentOf ==
  ASSUME NEW c \in Nat, c <= SubLeaf
  PROVE  /\ Ceil(c, Cap) \in Nat /\ Ceil(c, Cap) <= Cap
         /\ \A p \in Nat : p < Ceil(c, Cap) <=> p * Cap < c
         /\ \A k \in 0..c - 1 : /\ k \div Cap \in 0..Ceil(c, Cap) - 1
                                /\ (k \div Cap) * Cap <= k /\ k < (k \div Cap) * Cap + Cap
<1> DEFINE K == Ceil(c, Cap)
<1>1. Cap \in Nat \ {0} /\ SubLeaf = Cap * Cap
  BY Sizes
<1>2. K \in Nat /\ c <= K * Cap /\ K * Cap < c + Cap
  BY <1>1, Ceilings
<1> HIDE DEF K
<1>3. K <= Cap
  <2> SUFFICES ASSUME Cap < K PROVE FALSE
    BY <1>1, <1>2
  <2>1. Cap * Cap + Cap <= K * Cap /\ Cap * Cap \in Nat /\ K * Cap \in Nat
    BY <1>1, <1>2, Products
  <2> QED BY <1>1, <1>2, <2>1
<1>4. ASSUME NEW p \in Nat PROVE p < K <=> p * Cap < c
  <2>1. p * Cap \in Nat /\ K * Cap \in Nat
    BY <1>1, <1>2
  <2>2. p < K => p * Cap + Cap <= K * Cap
    BY <1>1, <1>2, Products
  <2>3. K <= p => K * Cap <= p * Cap
    BY <1>1, <1>2, Products
  <2> QED BY <1>1, <1>2, <2>1, <2>2, <2>3
<1>5. ASSUME NEW k \in 0..c - 1
      PROVE  /\ k \div Cap \in 0..K - 1
             /\ (k \div Cap) * Cap <= k /\ k < (k \div Cap) * Cap + Cap
  <2> DEFINE p == k \div Cap
  <2>1. p \in Nat /\ p * Cap <= k /\ k < p * Cap + Cap
    <3>1. k \in Nat
      OBVIOUS
    <3> QED BY <1>1, <3>1, Floors
  <2>2. p * Cap < c
    <3>1. p * Cap \in Nat /\ k < c /\ k \in Nat
      BY <1>1, <2>1
    <3> HIDE DEF p
    <3> QED BY <2>1, <3>1
  <2> HIDE DEF p
  <2>3. p \in 0..K - 1
    BY <1>2, <1>4, <2>1, <2>2
  <2> QED BY <2>1, <2>3 DEF p
<1> QED BY <1>2, <1>3, <1>4, <1>5 DEF K

(* The slots that hold no parent of the subtree that starts at offset.     *)
Outside(offset) == (0..2 * SubTotal - 1) \ (offset..offset + Cap - 1)

(* Nothing but the parents was written, and they cover their leaves.       *)
Parented(new, tests, offset, c) ==
  /\ DOMAIN new = 0..2 * SubTotal - 1
  /\ \A i \in Outside(offset) : new[i] = tests[i]
  /\ \A p \in 0..Ceil(c, Cap) - 1 : Sided(new[offset + p])
  /\ \A k \in 0..c - 1 : Covers(new[offset + (k \div Cap)], tests[offset + Cap + k])

(* The boxes of the parents of a subtree (compute_parent_aabb).            *)
LEMMA ParentsCover ==
  ASSUME NEW tests, NEW offset \in Nat, NEW c \in Nat, c <= SubLeaf,
         DOMAIN tests = 0..2 * SubTotal - 1, offset + SubTotal <= 2 * SubTotal,
         \A k \in 0..c - 1 : Sided(tests[offset + Cap + k])
  PROVE  Parented(compute_parent_aabb(tests, offset, c), tests, offset, c)
<1> DEFINE new == compute_parent_aabb(tests, offset, c)
           K == Ceil(c, Cap)
           leaves(p) == (p * Cap)..Min({p * Cap + Cap, c}) - 1
           under(p) == {tests[offset + Cap + j] : j \in leaves(p)}
<1>1. Cap \in Nat \ {0} /\ SubTotal \in Nat /\ SubTotal >= Cap
  BY Sizes
<1>2. /\ K \in Nat /\ K <= Cap /\ \A p \in Nat : p < K <=> p * Cap < c
      /\ \A k \in 0..c - 1 : /\ k \div Cap \in 0..K - 1
                             /\ (k \div Cap) * Cap <= k /\ k < (k \div Cap) * Cap + Cap
  BY ParentOf
<1>3. new = [i \in 0..2 * SubTotal - 1 |->
               IF i \in offset..offset + K - 1 THEN Hull(under(i - offset)) ELSE tests[i]]
  BY DEF compute_parent_aabb
<1> HIDE DEF K, new
<1>4. DOMAIN new = 0..2 * SubTotal - 1
  BY <1>3
<1>5. ASSUME NEW i \in Outside(offset)
      PROVE  new[i] = tests[i]
  <2>1. i \in 0..2 * SubTotal - 1 /\ i \notin offset..offset + K - 1
    BY <1>1, <1>2 DEF Outside
  <2> HIDE DEF under
  <2> QED BY <1>3, <2>1
<1>6. ASSUME NEW p \in 0..K - 1 PROVE new[offset + p] = Hull(under(p))
  <2>1. /\ offset + p \in 0..2 * SubTotal - 1 /\ offset + p \in offset..offset + K - 1
        /\ (offset + p) - offset = p
    BY <1>1, <1>2
  <2> HIDE DEF under
  <2> QED BY <1>3, <2>1
<1>7. ASSUME NEW p \in 0..K - 1
      PROVE  /\ p * Cap \in Nat /\ p * Cap < c
             /\ leaves(p) = {k \in 0..c - 1 : p * Cap <= k /\ k < p * Cap + Cap}
  <2>1. p \in Nat /\ p < K
    BY <1>2
  <2>2. p * Cap \in Nat /\ p * Cap < c
    <3>1. p * Cap \in Nat
      BY <1>1, <2>1
    <3>2. p * Cap < c
      BY <1>2, <2>1, Zenon
    <3> QED BY <3>1, <3>2
  <2> DEFINE m == p * Cap
  <2>3. Min({m + Cap, c}) = IF m + Cap <= c THEN m + Cap ELSE c
    <3>1. m + Cap \in Int /\ c \in Int
      BY <1>1, <2>2
    <3> HIDE DEF m
    <3> QED BY <3>1, MinOf
  <2>4. leaves(p) = m..Min({m + Cap, c}) - 1
    OBVIOUS
  <2>5. leaves(p) = {k \in 0..c - 1 : m <= k /\ k < m + Cap}
    <3> HIDE DEF leaves, m
    <3> QED BY <1>1, <2>2, <2>3, <2>4 DEF m
  <2> QED BY <2>2, <2>5
<1>8. ASSUME NEW p \in 0..K - 1
      PROVE  Sided(Hull(under(p))) /\ \A k \in leaves(p) : Covers(Hull(under(p)), tests[offset + Cap + k])
  <2>1. IsFiniteSet(leaves(p))
    <3>1. leaves(p) \subseteq 0..c - 1
      BY <1>7
    <3>2. IsFiniteSet(0..c - 1)
      BY FS_Interval
    <3> HIDE DEF leaves
    <3> QED BY <3>1, <3>2, FS_Subset
  <2> DEFINE f == [k \in leaves(p) |-> tests[offset + Cap + k]]
  <2>2. under(p) = {f[k] : k \in leaves(p)}
    OBVIOUS
  <2>3. IsFiniteSet(under(p))
    <3> HIDE DEF f, leaves, under
    <3> QED BY <2>1, <2>2, FiniteValues
  <2>4. p * Cap \in leaves(p)
    <3>1. p * Cap \in 0..c - 1 /\ p * Cap < p * Cap + Cap
      <4> DEFINE m == p * Cap
      <4>1. m \in Nat /\ m < c
        BY <1>7
      <4> HIDE DEF m
      <4>2. m \in 0..c - 1 /\ m < m + Cap
        BY <1>1, <4>1
      <4> QED BY <4>2 DEF m
    <3> HIDE DEF leaves
    <3> QED BY <1>7, <3>1
  <2>5. under(p) # {}
    <3> HIDE DEF leaves
    <3> QED BY <2>4
  <2>6. \A k \in leaves(p) : k \in 0..c - 1
    <3> HIDE DEF leaves
    <3> QED BY <1>7
  <2>7. \A b \in under(p) : Sided(b)
    <3> HIDE DEF leaves
    <3> QED BY <2>6
  <2>8. \A k \in leaves(p) : tests[offset + Cap + k] \in under(p)
    <3> HIDE DEF leaves
    <3> QED OBVIOUS
  <2> HIDE DEF under
  <2> QED BY <2>3, <2>5, <2>7, <2>8, HullCovers
<1> HIDE DEF under
<1>9. ASSUME NEW p \in 0..K - 1 PROVE Sided(new[offset + p])
  <2> HIDE DEF leaves
  <2> QED BY <1>6, <1>8
<1>10. ASSUME NEW k \in 0..c - 1
       PROVE  Covers(new[offset + (k \div Cap)], tests[offset + Cap + k])
  <2> DEFINE p == k \div Cap
  <2>1. p \in 0..K - 1 /\ p * Cap <= k /\ k < p * Cap + Cap
    BY <1>2
  <2> HIDE DEF p, leaves
  <2>2. k \in leaves(p)
    BY <1>7, <2>1
  <2>3. Covers(new[offset + p], tests[offset + Cap + k])
    BY <1>6, <1>8, <2>1, <2>2
  <2> QED BY <2>3 DEF p
<1> QED BY <1>4, <1>5, <1>9, <1>10 DEF K, new, Parented

(* Leaves are stored apart from each other and from the parents.           *)
LEMMA LeafSlots ==
  /\ \A k \in 0..2 * SubLeaf - 1 :
       LeafSlot(k) \in Outside(0) /\ LeafSlot(k) \in Outside(SubTotal)
  /\ \A j, k \in 0..2 * SubLeaf - 1 : LeafSlot(j) = LeafSlot(k) => j = k
  /\ \A k \in 0..SubLeaf - 1 : /\ LeafSlot(k) = 0 + Cap + k
                               /\ LeafSlot(SubLeaf + k) = SubTotal + Cap + k
<1>1. Cap \in Nat \ {0} /\ SubLeaf \in Nat /\ SubLeaf >= Cap /\ SubTotal = Cap + SubLeaf
  BY Sizes
<1>2. \A k : LeafSlot(k) = IF k < SubLeaf THEN Cap + k ELSE SubTotal + Cap + (k - SubLeaf)
  BY DEF LeafSlot
<1>3. ASSUME NEW k \in 0..2 * SubLeaf - 1
      PROVE  LeafSlot(k) \in Outside(0) /\ LeafSlot(k) \in Outside(SubTotal)
  BY <1>1, <1>2 DEF Outside
<1>4. ASSUME NEW j \in 0..2 * SubLeaf - 1, NEW k \in 0..2 * SubLeaf - 1, LeafSlot(j) = LeafSlot(k)
      PROVE  j = k
  BY <1>1, <1>2, <1>4
<1>5. ASSUME NEW k \in 0..SubLeaf - 1
      PROVE  LeafSlot(k) = 0 + Cap + k /\ LeafSlot(SubLeaf + k) = SubTotal + Cap + k
  BY <1>1, <1>2
<1> QED BY <1>3, <1>4, <1>5

(* The root of a subtree covers its parents, and they their leaves.        *)
Rooted(tree, offset, c, root) ==
  /\ Sided(root)
  /\ \A p \in 0..Ceil(c, Cap) - 1 : Sided(tree.tests[offset + p]) /\ Covers(root, tree.tests[offset + p])
  /\ \A k \in 0..c - 1 : Covers(tree.tests[offset + (k \div Cap)], tree.tests[offset + Cap + k])

(* Every box is the leaf of one slot, and reached from a root.             *)
Leafed(tree, boxes, leaf) ==
  /\ Permutes(leaf, Len(boxes))
  /\ \A k \in 0..Len(boxes) - 1 : /\ tree.tests[LeafSlot(k)] = boxes[leaf[k + 1]]
                                  /\ tree.polygon_idxs[k] = leaf[k + 1] - 1

(* The tree is an index of these boxes.                                    *)
Indexed(tree, boxes) ==
  /\ Reusable(tree) /\ tree.leaf_count = Len(boxes)
  /\ Len(boxes) > 0 =>
       /\ tree.leaves = LeafCounts(tree) /\ tree.dual = (Len(boxes) > SubLeaf)
       /\ \E leaf : Leafed(tree, boxes, leaf)
       /\ Rooted(tree, 0, tree.leaves[1], tree.sub_root[1])
       /\ tree.dual => Rooted(tree, SubTotal, tree.leaves[2], tree.sub_root[2])

(* A root made of the parents it has covers them.                          *)
LEMMA RootCovers ==
  ASSUME NEW tests, NEW offset \in Nat, NEW c \in Nat \ {0},
         \A p \in 0..Ceil(c, Cap) - 1 : Sided(tests[offset + p])
  PROVE  /\ Sided(Hull({tests[offset + i] : i \in 0..Ceil(c, Cap) - 1}))
         /\ \A p \in 0..Ceil(c, Cap) - 1 :
              Covers(Hull({tests[offset + i] : i \in 0..Ceil(c, Cap) - 1}), tests[offset + p])
<1> DEFINE K == Ceil(c, Cap)
           f == [i \in 0..K - 1 |-> tests[offset + i]]
           S == {tests[offset + i] : i \in 0..K - 1}
<1>1. K \in Nat /\ K >= 1
  BY Sizes, Ceilings
<1> HIDE DEF K
<1>2. IsFiniteSet(0..K - 1) /\ 0 \in 0..K - 1
  BY <1>1, FS_Interval
<1>3. S = {f[i] : i \in 0..K - 1}
  OBVIOUS
<1>4. IsFiniteSet(S)
  <2> HIDE DEF S, f
  <2> QED BY <1>2, <1>3, FiniteValues
<1>5. S # {}
  BY <1>2
<1>6. \A b \in S : Sided(b)
  BY DEF K
<1>7. \A p \in 0..K - 1 : tests[offset + p] \in S
  OBVIOUS
<1> HIDE DEF S
<1>8. Sided(Hull(S)) /\ \A p \in 0..K - 1 : Covers(Hull(S), tests[offset + p])
  BY <1>4, <1>5, <1>6, <1>7, HullCovers
<1> QED BY <1>8 DEF K, S

(* The sorted entries of a filled tree are its boxes, each once.           *)
LEMMA SortedBoxes ==
  ASSUME NEW tree, NEW boxes, AreBoxes(boxes), Len(boxes) > 0, Holding(tree, boxes, Len(boxes))
  PROVE  /\ Permutes(tmp_sort_indices(tree), Len(boxes))
         /\ \A k \in 1..Len(boxes) :
              str_sort_and_group(tree)[k] = boxes[tmp_sort_indices(tree)[k]]
<1> DEFINE n == Len(boxes)
           order == tmp_sort_indices(tree)
<1>1. n \in Nat \ {0} /\ tree.leaf_count = n
  BY DEF AreBoxes, Holding
<1>2. \A i \in 0..n - 1 : tree.tmp[i] = boxes[i + 1] /\ i + 1 \in 1..n
  BY <1>1 DEF Holding
<1>3. \A i \in 0..n - 1 : tree.tmp[i].at[1] \in Int /\ tree.tmp[i].at[2] \in Int
  BY <1>2 DEF AreBoxes
<1> HIDE DEF n, order
<1>4. Permutes(order, n)
  BY <1>1, <1>3, SortPermutes DEF order
<1>5. ASSUME NEW k \in 1..n PROVE str_sort_and_group(tree)[k] = boxes[order[k]]
  <2>1. str_sort_and_group(tree)[k] = tree.tmp[order[k] - 1]
    BY <1>1 DEF str_sort_and_group, order
  <2>2. order[k] \in 1..n
    BY <1>4 DEF Permutes
  <2>3. order[k] - 1 \in 0..n - 1 /\ (order[k] - 1) + 1 = order[k]
    BY <1>1, <2>2
  <2> QED BY <1>2, <2>1, <2>3
<1> QED BY <1>4, <1>5 DEF n, order

(* Building a tree indexes what was inserted (STRtree::build).             *)
LEMMA BuildIndexes ==
  ASSUME NEW tree, NEW boxes, AreBoxes(boxes), Holding(tree, boxes, Len(boxes))
  PROVE  Indexed(build(tree), boxes)
<1> DEFINE n == Len(boxes)
<1>1. n \in Nat /\ tree.leaf_count = n /\ n <= 2 * SubLeaf /\ Reusable(tree)
  BY Sizes DEF AreBoxes, Holding
<1>2. CASE n = 0
  <2>1. build(tree) = tree
    BY <1>1, <1>2 DEF build
  <2> QED BY <1>1, <1>2, <2>1 DEF Indexed
<1>3. CASE n # 0
  <2> DEFINE sorted == str_sort_and_group(tree)
             order == tmp_sort_indices(tree)
             leaves == LeafCounts(tree)
             dual == n > SubLeaf
             filled == [i \in DOMAIN tree.tests |->
                          IF \E k \in 0..n - 1 : LeafSlot(k) = i
                          THEN sorted[1 + CHOOSE k \in 0..n - 1 : LeafSlot(k) = i]
                          ELSE tree.tests[i]]
             first == compute_parent_aabb(filled, 0, leaves[1])
             tests == IF dual THEN compute_parent_aabb(first, SubTotal, leaves[2]) ELSE first
             parents == [s \in 1..2 |-> Ceil(leaves[s], Cap)]
             root(s) == Hull({tests[(s - 1) * SubTotal + i] : i \in 0..parents[s] - 1})
             ids == [i \in DOMAIN tree.polygon_idxs |->
                       IF i < n THEN sorted[i + 1].id ELSE tree.polygon_idxs[i]]
             roots == <<root(1), IF dual THEN root(2) ELSE tree.sub_root[2]>>
             new == build(tree)
  <2>1. new = [tree EXCEPT !.dual = dual, !.leaves = leaves, !.parents = parents, !.tests = tests,
                           !.polygon_idxs = ids, !.sub_root = roots]
    BY <1>1, <1>3 DEF build
  <2>2. Permutes(order, n) /\ \A k \in 1..n : sorted[k] = boxes[order[k]]
    BY <1>1, <1>3, SortedBoxes
  <2>3. Cap \in Nat \ {0} /\ SubLeaf \in Nat /\ SubLeaf >= Cap /\ SubTotal = Cap + SubLeaf
    BY Sizes
  <2>4. /\ leaves = IF n > SubLeaf THEN <<SubLeaf, n - SubLeaf>> ELSE <<n, 0>>
        /\ leaves[1] \in Nat \ {0} /\ leaves[1] <= SubLeaf /\ leaves[1] <= n
        /\ dual => leaves[1] = SubLeaf /\ leaves[2] = n - SubLeaf
        /\ dual => leaves[2] \in Nat \ {0} /\ leaves[2] <= SubLeaf
        /\ ~dual => leaves[1] = n
    <3>1. leaves = IF n > SubLeaf THEN <<SubLeaf, n - SubLeaf>> ELSE <<n, 0>>
      BY <1>1 DEF LeafCounts
    <3> HIDE DEF leaves, n
    <3> QED BY <1>1, <1>3, <2>3, <3>1
  <2>5. DOMAIN filled = 0..2 * SubTotal - 1
    BY <1>1 DEF Reusable
  <2>6. ASSUME NEW k \in 0..n - 1 PROVE filled[LeafSlot(k)] = boxes[order[k + 1]]
    <3>1. LeafSlot(k) \in 0..2 * SubTotal - 1 /\ k \in 0..2 * SubLeaf - 1
      <4>1. k \in 0..2 * SubLeaf - 1
        BY <1>1, <2>3
      <4> QED BY <4>1, LeafSlots DEF Outside
    <3>2. \A j \in 0..n - 1 : LeafSlot(j) = LeafSlot(k) => j = k
      <4>1. \A j \in 0..n - 1 : j \in 0..2 * SubLeaf - 1
        BY <1>1, <2>3
      <4> QED BY <3>1, <4>1, LeafSlots
    <3>3. (CHOOSE j \in 0..n - 1 : LeafSlot(j) = LeafSlot(k)) = k
      <4> HIDE DEF n
      <4> QED BY <3>2
    <3>4. filled[LeafSlot(k)] = sorted[1 + k]
      <4> HIDE DEF n, sorted
      <4> QED BY <1>1, <3>1, <3>3 DEF Reusable
    <3>5. 1 + k = k + 1 /\ k + 1 \in 1..n
      BY <1>1
    <3> HIDE DEF sorted, filled, order
    <3> QED BY <2>2, <3>4, <3>5
  <2> HIDE DEF sorted, order, leaves, filled, new
  <2>7. \A k \in 0..n - 1 : Sided(filled[LeafSlot(k)])
    <3> SUFFICES ASSUME NEW k \in 0..n - 1 PROVE Sided(filled[LeafSlot(k)])
      OBVIOUS
    <3>1. k + 1 \in 1..n
      BY <1>1
    <3>2. order[k + 1] \in 1..n
      BY <2>2, <3>1 DEF Permutes
    <3> QED BY <2>6, <3>2 DEF AreBoxes
  <2>8. \A k \in 0..leaves[1] - 1 : k \in 0..n - 1 /\ LeafSlot(k) = 0 + Cap + k
    <3>1. \A k \in 0..leaves[1] - 1 : k \in 0..n - 1 /\ k \in 0..SubLeaf - 1
      BY <1>1, <2>3, <2>4
    <3> QED BY <3>1, LeafSlots
  <2>9. \A k \in 0..leaves[1] - 1 : Sided(filled[0 + Cap + k])
    BY <2>7, <2>8
  <2>10. /\ DOMAIN first = 0..2 * SubTotal - 1
         /\ \A i \in Outside(0) : first[i] = filled[i]
         /\ \A p \in 0..Ceil(leaves[1], Cap) - 1 : Sided(first[0 + p])
         /\ \A k \in 0..leaves[1] - 1 : Covers(first[0 + (k \div Cap)], filled[0 + Cap + k])
    <3>1. leaves[1] \in Nat /\ leaves[1] <= SubLeaf /\ 0 + SubTotal <= 2 * SubTotal
      BY <2>3, <2>4
    <3>2. Parented(first, filled, 0, leaves[1])
      BY <2>5, <2>9, <3>1, ParentsCover
    <3> HIDE DEF first
    <3> QED BY <3>2 DEF Parented
  <2> HIDE DEF first
  <2>11. dual => \A k \in 0..leaves[2] - 1 : /\ SubLeaf + k \in 0..n - 1
                                             /\ LeafSlot(SubLeaf + k) = SubTotal + Cap + k
    <3> SUFFICES ASSUME dual, NEW k \in 0..leaves[2] - 1
                 PROVE  SubLeaf + k \in 0..n - 1 /\ LeafSlot(SubLeaf + k) = SubTotal + Cap + k
      OBVIOUS
    <3>1. SubLeaf + k \in 0..n - 1 /\ k \in 0..SubLeaf - 1
      BY <1>1, <2>3, <2>4
    <3> QED BY <3>1, LeafSlots
  <2>12. \A k \in 0..n - 1 : first[LeafSlot(k)] = filled[LeafSlot(k)]
    <3> SUFFICES ASSUME NEW k \in 0..n - 1 PROVE first[LeafSlot(k)] = filled[LeafSlot(k)]
      OBVIOUS
    <3>1. k \in 0..2 * SubLeaf - 1
      BY <1>1, <2>3
    <3>2. LeafSlot(k) \in Outside(0)
      BY <3>1, LeafSlots
    <3> QED BY <2>10, <3>2
  <2>13. dual => /\ DOMAIN tests = 0..2 * SubTotal - 1
                 /\ \A i \in Outside(SubTotal) : tests[i] = first[i]
                 /\ \A p \in 0..Ceil(leaves[2], Cap) - 1 : Sided(tests[SubTotal + p])
                 /\ \A k \in 0..leaves[2] - 1 :
                      Covers(tests[SubTotal + (k \div Cap)], first[SubTotal + Cap + k])
    <3> SUFFICES ASSUME dual
                 PROVE  /\ DOMAIN tests = 0..2 * SubTotal - 1
                        /\ \A i \in Outside(SubTotal) : tests[i] = first[i]
                        /\ \A p \in 0..Ceil(leaves[2], Cap) - 1 : Sided(tests[SubTotal + p])
                        /\ \A k \in 0..leaves[2] - 1 :
                             Covers(tests[SubTotal + (k \div Cap)], first[SubTotal + Cap + k])
      OBVIOUS
    <3>1. /\ leaves[2] \in Nat /\ leaves[2] <= SubLeaf /\ SubTotal + SubTotal <= 2 * SubTotal
          /\ SubTotal \in Nat
      BY <2>3, <2>4
    <3>2. tests = compute_parent_aabb(first, SubTotal, leaves[2])
      OBVIOUS
    <3>3. \A k \in 0..leaves[2] - 1 : Sided(first[SubTotal + Cap + k])
      <4> SUFFICES ASSUME NEW k \in 0..leaves[2] - 1 PROVE Sided(first[SubTotal + Cap + k])
        OBVIOUS
      <4>1. SubLeaf + k \in 0..n - 1 /\ LeafSlot(SubLeaf + k) = SubTotal + Cap + k
        BY <2>11
      <4>2. Sided(first[LeafSlot(SubLeaf + k)])
        <5> HIDE DEF n, dual
        <5> QED BY <2>7, <2>12, <4>1
      <4> QED BY <4>1, <4>2
    <3>4. DOMAIN first = 0..2 * SubTotal - 1
      BY <2>10
    <3>5. Parented(compute_parent_aabb(first, SubTotal, leaves[2]), first, SubTotal, leaves[2])
      BY <3>1, <3>3, <3>4, ParentsCover
    <3> HIDE DEF tests
    <3> QED BY <3>2, <3>5 DEF Parented
  <2>14. /\ DOMAIN tests = 0..2 * SubTotal - 1
         /\ \A i \in Outside(SubTotal) : tests[i] = first[i]
    <3>1. ~dual => tests = first
      OBVIOUS
    <3> HIDE DEF tests, dual
    <3> QED BY <2>10, <2>13, <3>1
  <2> HIDE DEF tests
  <2>15. \A k \in 0..n - 1 : tests[LeafSlot(k)] = filled[LeafSlot(k)]
    <3> SUFFICES ASSUME NEW k \in 0..n - 1 PROVE tests[LeafSlot(k)] = filled[LeafSlot(k)]
      OBVIOUS
    <3>1. k \in 0..2 * SubLeaf - 1
      BY <1>1, <2>3
    <3>2. LeafSlot(k) \in Outside(SubTotal)
      BY <3>1, LeafSlots
    <3>3. first[LeafSlot(k)] = filled[LeafSlot(k)]
      BY <2>12
    <3> QED BY <2>14, <3>2, <3>3
  <2>16. \A p \in 0..Ceil(leaves[1], Cap) - 1 : tests[0 + p] = first[0 + p]
    <3> SUFFICES ASSUME NEW p \in 0..Ceil(leaves[1], Cap) - 1 PROVE tests[0 + p] = first[0 + p]
      OBVIOUS
    <3>1. Ceil(leaves[1], Cap) \in Nat /\ Ceil(leaves[1], Cap) <= Cap
      BY <2>4, ParentOf
    <3>2. 0 + p \in Outside(SubTotal)
      BY <2>3, <3>1 DEF Outside
    <3> QED BY <2>14, <3>2
  <2> DEFINE K1 == Ceil(leaves[1], Cap)
             K2 == Ceil(leaves[2], Cap)
  <2>17. /\ \A p \in 0..K1 - 1 : Sided(tests[0 + p])
         /\ \A k \in 0..leaves[1] - 1 : Covers(tests[0 + (k \div Cap)], tests[0 + Cap + k])
    <3>1. ASSUME NEW k \in 0..leaves[1] - 1
          PROVE  Covers(tests[0 + (k \div Cap)], tests[0 + Cap + k])
      <4>1. k \div Cap \in 0..K1 - 1
        BY <2>4, ParentOf
      <4>2. tests[0 + (k \div Cap)] = first[0 + (k \div Cap)]
        BY <2>16, <4>1
      <4>3. tests[0 + Cap + k] = filled[0 + Cap + k]
        BY <2>8, <2>15
      <4> QED BY <2>10, <4>2, <4>3
    <3> QED BY <2>10, <2>16, <3>1
  <2>18. dual => /\ \A p \in 0..K2 - 1 : Sided(tests[SubTotal + p])
                 /\ \A k \in 0..leaves[2] - 1 :
                      Covers(tests[SubTotal + (k \div Cap)], tests[SubTotal + Cap + k])
    <3> SUFFICES ASSUME dual, NEW k \in 0..leaves[2] - 1
                 PROVE  Covers(tests[SubTotal + (k \div Cap)], tests[SubTotal + Cap + k])
      BY <2>13
    <3>1. SubLeaf + k \in 0..n - 1 /\ LeafSlot(SubLeaf + k) = SubTotal + Cap + k
      BY <2>11
    <3>2. tests[SubTotal + Cap + k] = first[SubTotal + Cap + k]
      <4> HIDE DEF n
      <4> QED BY <2>12, <2>15, <3>1
    <3> QED BY <2>13, <3>2
  <2>19. /\ root(1) = Hull({tests[0 + i] : i \in 0..K1 - 1})
         /\ dual => root(2) = Hull({tests[SubTotal + i] : i \in 0..K2 - 1})
    <3>1. parents[1] = K1 /\ parents[2] = K2
      OBVIOUS
    <3>2. (1 - 1) * SubTotal = 0 /\ (2 - 1) * SubTotal = SubTotal
      BY <2>3
    <3> HIDE DEF parents
    <3> QED BY <3>1, <3>2
  <2>20. Sided(root(1)) /\ \A p \in 0..K1 - 1 : Covers(root(1), tests[0 + p])
    <3>1. leaves[1] \in Nat \ {0} /\ 0 \in Nat
      BY <2>4
    <3>2. \A p \in 0..Ceil(leaves[1], Cap) - 1 : Sided(tests[0 + p])
      BY <2>17
    <3> HIDE DEF root
    <3>3. /\ Sided(Hull({tests[0 + i] : i \in 0..Ceil(leaves[1], Cap) - 1}))
          /\ \A p \in 0..Ceil(leaves[1], Cap) - 1 :
               Covers(Hull({tests[0 + i] : i \in 0..Ceil(leaves[1], Cap) - 1}), tests[0 + p])
      BY <3>1, <3>2, RootCovers
    <3> QED BY <2>19, <3>3
  <2>21. dual => Sided(root(2)) /\ \A p \in 0..K2 - 1 : Covers(root(2), tests[SubTotal + p])
    <3> SUFFICES ASSUME dual
                 PROVE  Sided(root(2)) /\ \A p \in 0..K2 - 1 : Covers(root(2), tests[SubTotal + p])
      OBVIOUS
    <3>1. leaves[2] \in Nat \ {0} /\ SubTotal \in Nat
      BY <2>3, <2>4
    <3>2. \A p \in 0..Ceil(leaves[2], Cap) - 1 : Sided(tests[SubTotal + p])
      BY <2>18
    <3> HIDE DEF root
    <3>3. /\ Sided(Hull({tests[SubTotal + i] : i \in 0..Ceil(leaves[2], Cap) - 1}))
          /\ \A p \in 0..Ceil(leaves[2], Cap) - 1 :
               Covers(Hull({tests[SubTotal + i] : i \in 0..Ceil(leaves[2], Cap) - 1}),
                      tests[SubTotal + p])
      BY <3>1, <3>2, RootCovers
    <3> QED BY <2>19, <3>3
  <2>22. roots[1] = root(1) /\ (dual => roots[2] = root(2))
    OBVIOUS
  <2>23. DOMAIN ids = 0..2 * SubLeaf - 1 /\ \A k \in 0..n - 1 : ids[k] = order[k + 1] - 1
    <3>1. DOMAIN ids = 0..2 * SubLeaf - 1
      BY <1>1 DEF Reusable
    <3> SUFFICES ASSUME NEW k \in 0..n - 1 PROVE ids[k] = order[k + 1] - 1
      BY <3>1
    <3>2. k \in 0..2 * SubLeaf - 1 /\ k < n /\ k + 1 \in 1..n
      BY <1>1, <2>3
    <3>3. ids[k] = sorted[k + 1].id
      <4> HIDE DEF n
      <4> QED BY <3>1, <3>2
    <3>4. order[k + 1] \in 1..n
      BY <2>2, <3>2 DEF Permutes
    <3> QED BY <2>2, <3>2, <3>3, <3>4 DEF AreBoxes
  <2> HIDE DEF ids, roots, root, parents
  <2>24. new = [tmp |-> tree.tmp, leaf_count |-> tree.leaf_count, dual |-> dual,
                leaves |-> leaves, parents |-> parents, tests |-> tests,
                polygon_idxs |-> ids, sub_root |-> roots]
    BY <1>1, <2>1 DEF Reusable
  <2>25. Reusable(new)
    BY <1>1, <2>14, <2>23, <2>24 DEF Reusable
  <2>26. new.leaf_count = n /\ new.leaves = leaves /\ new.leaves = LeafCounts(new) /\ new.dual = dual
    <3>1. LeafCounts(new) = LeafCounts(tree)
      BY <2>24 DEF LeafCounts
    <3> QED BY <1>1, <2>24, <3>1 DEF leaves
  <2>27. Leafed(new, boxes, order)
    BY <2>2, <2>6, <2>15, <2>23, <2>24 DEF Leafed
  <2>28. Rooted(new, 0, new.leaves[1], new.sub_root[1])
    BY <2>17, <2>20, <2>22, <2>24 DEF Rooted
  <2>29. new.dual => Rooted(new, SubTotal, new.leaves[2], new.sub_root[2])
    BY <2>18, <2>21, <2>22, <2>24 DEF Rooted
  <2>30. Indexed(new, boxes)
    BY <2>25, <2>26, <2>27, <2>28, <2>29 DEF Indexed
  <2> QED BY <2>30 DEF new
<1> QED BY <1>2, <1>3

-----------------------------------------------------------------------------
(* A subtree gives up the leaves that meet the query, and no others: a     *)
(* leaf that does is found through its parent (querySubtreeBatch).         *)
LEMMA SubtreeFinds ==
  ASSUME NEW tree, NEW sub \in 1..2, NEW q, Sided(q),
         NEW offset \in Nat, offset = (sub - 1) * SubTotal,
         NEW base \in Nat, base = (sub - 1) * SubLeaf,
         NEW c \in Nat, c = tree.leaves[sub], c <= SubLeaf,
         Rooted(tree, offset, c, tree.sub_root[sub]),
         \A k \in 0..c - 1 : Sided(tree.tests[offset + Cap + k])
  PROVE  /\ \A x \in querySubtreeBatch(tree, sub, q) :
              \E k \in 0..c - 1 : x = base + k /\ intersects(q, tree.tests[offset + Cap + k])
         /\ \A k \in 0..c - 1 : intersects(q, tree.tests[offset + Cap + k]) =>
              intersects(q, tree.sub_root[sub]) /\ base + k \in querySubtreeBatch(tree, sub, q)
<1> DEFINE slots == 0..Cap - 1
           parents == {p \in slots : intersects(q, tree.tests[offset + p]) /\ ValidParent(tree, sub, p)}
           hit(p, k) == /\ ValidLeaf(tree, sub, p, k)
                        /\ intersects(q, tree.tests[offset + Cap + p * Cap + k])
           hits == {l \in parents \X slots : hit(l[1], l[2])}
           batch == querySubtreeBatch(tree, sub, q)
<1>1. Cap \in Nat \ {0}
  BY Sizes
<1>2. batch = {base + l[1] * Cap + l[2] : l \in hits}
  BY DEF querySubtreeBatch
<1>3. /\ Ceil(c, Cap) \in Nat /\ Ceil(c, Cap) <= Cap
      /\ \A k \in 0..c - 1 : /\ k \div Cap \in 0..Ceil(c, Cap) - 1
                             /\ (k \div Cap) * Cap <= k /\ k < (k \div Cap) * Cap + Cap
  BY ParentOf
<1>4. ASSUME NEW p \in slots, NEW k \in slots, p * Cap < c
      PROVE  ValidLeaf(tree, sub, p, k) <=> k < c - p * Cap
  <2> DEFINE m == p * Cap
  <2>1. m \in Nat /\ m < c
    BY <1>1, <1>4
  <2>2. ValidLeaf(tree, sub, p, k) <=> k < Min({Cap, c - m})
    BY DEF ValidLeaf
  <2> HIDE DEF m
  <2>3. Min({Cap, c - m}) = IF Cap <= c - m THEN Cap ELSE c - m
    <3>1. Cap \in Int /\ c - m \in Int
      BY <1>1, <2>1
    <3> QED BY <3>1, MinOf
  <2>4. k < Min({Cap, c - m}) <=> k < c - m
    BY <1>1, <2>1, <2>3
  <2> QED BY <2>2, <2>4 DEF m
<1>5. ASSUME NEW x \in batch
      PROVE  \E k \in 0..c - 1 : x = base + k /\ intersects(q, tree.tests[offset + Cap + k])
  <2>1. PICK l \in hits : x = base + l[1] * Cap + l[2]
    <3> HIDE DEF hits, batch
    <3> QED BY <1>2
  <2> DEFINE p == l[1]
             k == l[2]
  <2>2. p \in parents /\ k \in slots /\ hit(p, k)
    OBVIOUS
  <2>3. p \in slots /\ ValidParent(tree, sub, p)
    BY <2>2
  <2>4. x = base + p * Cap + k
    BY <2>1
  <2> HIDE DEF p, k, hits
  <2>5. p * Cap < c
    BY <2>3 DEF ValidParent
  <2>6. k < c - p * Cap
    <3> HIDE DEF parents
    <3> QED BY <1>4, <2>2, <2>3, <2>5
  <2>7. intersects(q, tree.tests[offset + Cap + p * Cap + k])
    BY <2>2
  <2> DEFINE m == p * Cap
  <2>8. m \in Nat /\ k \in Nat
    BY <1>1, <2>2, <2>3
  <2>9. k < c - m /\ x = base + m + k /\ intersects(q, tree.tests[offset + Cap + m + k])
    BY <2>4, <2>6, <2>7
  <2> HIDE DEF m
  <2>10. /\ m + k \in 0..c - 1 /\ x = base + (m + k)
         /\ offset + Cap + m + k = offset + Cap + (m + k)
    BY <1>1, <2>8, <2>9
  <2>11. intersects(q, tree.tests[offset + Cap + (m + k)])
    BY <2>9, <2>10
  <2> QED BY <2>10, <2>11
<1>6. ASSUME NEW j \in 0..c - 1, intersects(q, tree.tests[offset + Cap + j])
      PROVE  intersects(q, tree.sub_root[sub]) /\ base + j \in batch
  <2> DEFINE p == j \div Cap
             m == p * Cap
             k == j - m
             leaf == tree.tests[offset + Cap + j]
             parent == tree.tests[offset + p]
             root == tree.sub_root[sub]
  <2>1. p \in 0..Ceil(c, Cap) - 1 /\ m <= j /\ j < m + Cap
    BY <1>3
  <2>2. Covers(parent, leaf) /\ Sided(parent) /\ Sided(leaf) /\ Covers(root, parent) /\ Sided(root)
    <3>1. Covers(parent, leaf) /\ Sided(leaf) /\ Sided(root)
      BY DEF Rooted
    <3> HIDE DEF leaf
    <3>2. Sided(parent) /\ Covers(root, parent)
      <4> HIDE DEF p
      <4> QED BY <2>1 DEF Rooted
    <3> QED BY <3>1, <3>2
  <2>3. intersects(q, leaf)
    BY <1>6
  <2>4. p \in slots /\ p \in Nat
    <3> HIDE DEF p
    <3> QED BY <1>1, <1>3, <2>1
  <2> HIDE DEF leaf, parent, root, p
  <2>5. intersects(q, parent)
    BY <2>2, <2>3, CoversMeets
  <2>6. intersects(q, root)
    BY <2>2, <2>5, CoversMeets
  <2>7. m \in Nat
    BY <1>1, <2>4
  <2> HIDE DEF m
  <2>8. k \in slots /\ m < c /\ k < c - m /\ base + m + k = base + j
        /\ offset + Cap + m + k = offset + Cap + j
    BY <1>1, <2>1, <2>7
  <2> HIDE DEF k
  <2>9. p \in parents
    <3>1. ValidParent(tree, sub, p)
      BY <2>8 DEF ValidParent, m
    <3> QED BY <2>4, <2>5, <3>1 DEF parent
  <2>10. hit(p, k)
    <3>1. ValidLeaf(tree, sub, p, k)
      <4> HIDE DEF slots
      <4> QED BY <1>4, <2>4, <2>8 DEF m
    <3>2. intersects(q, tree.tests[offset + Cap + m + k])
      BY <2>3, <2>8 DEF leaf
    <3> QED BY <3>1, <3>2 DEF m
  <2>11. <<p, k>> \in hits
    <3> HIDE DEF parents, slots, hit
    <3> QED BY <2>8, <2>9, <2>10
  <2>12. base + <<p, k>>[1] * Cap + <<p, k>>[2] = base + j
    BY <2>8 DEF m
  <2>13. base + j \in batch
    <3> HIDE DEF hits, batch
    <3> QED BY <1>2, <2>11, <2>12
  <2> QED BY <2>6, <2>13 DEF root
<1> HIDE DEF batch
<1> QED BY <1>5, <1>6 DEF batch

(* A query of the tree finds the leaves whose boxes it meets (queryBatch). *)
LEMMA FoundExactly ==
  ASSUME NEW tree, NEW boxes, AreBoxes(boxes), Len(boxes) > 0, Indexed(tree, boxes),
         NEW leaf, Leafed(tree, boxes, leaf), NEW q, Sided(q)
  PROVE  Found(tree, q) = {k \in 0..Len(boxes) - 1 : intersects(q, boxes[leaf[k + 1]])}
<1> DEFINE n == Len(boxes)
           meets(k) == intersects(q, boxes[leaf[k + 1]])
           batch(s) == querySubtreeBatch(tree, s, q)
           hits(s) == intersects(q, tree.sub_root[s])
           c1 == tree.leaves[1]
           c2 == tree.leaves[2]
<1>1. n \in Nat \ {0} /\ n <= 2 * SubLeaf /\ tree.leaf_count = n
  BY Sizes DEF AreBoxes, Indexed
<1>2. Cap \in Nat \ {0} /\ SubLeaf \in Nat /\ SubLeaf >= Cap /\ SubTotal = Cap + SubLeaf
  BY Sizes
<1>3. /\ tree.dual = (n > SubLeaf)
      /\ c1 \in Nat /\ c1 <= SubLeaf /\ c1 <= n
      /\ tree.dual => c1 = SubLeaf /\ c2 = n - SubLeaf /\ c2 \in Nat /\ c2 <= SubLeaf
      /\ ~tree.dual => c1 = n
  <2>1. tree.dual = (n > SubLeaf)
    BY <1>1 DEF Indexed
  <2>2. tree.leaves = IF n > SubLeaf THEN <<SubLeaf, n - SubLeaf>> ELSE <<n, 0>>
    BY <1>1 DEF Indexed, LeafCounts
  <2> HIDE DEF n
  <2>3. CASE n > SubLeaf
    <3>1. c1 = SubLeaf /\ c2 = n - SubLeaf
      BY <2>2, <2>3
    <3>2. tree.dual
      BY <2>1, <2>3
    <3> HIDE DEF c1, c2
    <3> QED BY <1>1, <1>2, <2>1, <2>3, <3>1, <3>2
  <2>4. CASE ~(n > SubLeaf)
    <3>1. c1 = n
      BY <2>2, <2>4
    <3>2. ~tree.dual
      BY <2>1, <2>4
    <3>3. n <= SubLeaf
      BY <1>1, <1>2, <2>4
    <3> HIDE DEF c1, c2
    <3> QED BY <1>1, <1>2, <2>1, <3>1, <3>2, <3>3
  <2> QED BY <2>3, <2>4
<1>4. \A k \in 0..n - 1 : tree.tests[LeafSlot(k)] = boxes[leaf[k + 1]] /\ Sided(boxes[leaf[k + 1]])
  <2> SUFFICES ASSUME NEW k \in 0..n - 1 PROVE Sided(boxes[leaf[k + 1]])
    BY DEF Leafed
  <2>1. k + 1 \in 1..n
    BY <1>1
  <2>2. leaf[k + 1] \in 1..n
    BY <2>1 DEF Leafed, Permutes
  <2> QED BY <2>2 DEF AreBoxes
<1>5. ASSUME NEW k \in 0..c1 - 1
      PROVE  k \in 0..n - 1 /\ tree.tests[0 + Cap + k] = boxes[leaf[k + 1]]
  <2>1. k \in 0..n - 1 /\ k \in 0..SubLeaf - 1
    BY <1>1, <1>2, <1>3
  <2>2. LeafSlot(k) = 0 + Cap + k
    BY <2>1, LeafSlots
  <2> QED BY <1>4, <2>1, <2>2
<1>6. ASSUME tree.dual, NEW k \in 0..c2 - 1
      PROVE  SubLeaf + k \in 0..n - 1 /\ tree.tests[SubTotal + Cap + k] = boxes[leaf[SubLeaf + k + 1]]
  <2>1. SubLeaf + k \in 0..n - 1 /\ k \in 0..SubLeaf - 1
    BY <1>1, <1>2, <1>3, <1>6
  <2>2. LeafSlot(SubLeaf + k) = SubTotal + Cap + k
    BY <2>1, LeafSlots
  <2> QED BY <1>4, <2>1, <2>2
<1>7. /\ \A x \in batch(1) :
           \E k \in 0..c1 - 1 : x = 0 + k /\ intersects(q, tree.tests[0 + Cap + k])
      /\ \A k \in 0..c1 - 1 : intersects(q, tree.tests[0 + Cap + k]) => hits(1) /\ 0 + k \in batch(1)
  <2>1. 0 = (1 - 1) * SubTotal /\ 0 = (1 - 1) * SubLeaf /\ 1 \in 1..2 /\ 0 \in Nat
    BY <1>2
  <2>2. \A k \in 0..c1 - 1 : Sided(tree.tests[0 + Cap + k])
    BY <1>4, <1>5
  <2>3. Rooted(tree, 0, tree.leaves[1], tree.sub_root[1])
    BY DEF Indexed
  <2> QED BY <1>3, <2>1, <2>2, <2>3, SubtreeFinds
<1>8. tree.dual =>
      /\ \A x \in batch(2) :
           \E k \in 0..c2 - 1 : x = SubLeaf + k /\ intersects(q, tree.tests[SubTotal + Cap + k])
      /\ \A k \in 0..c2 - 1 : intersects(q, tree.tests[SubTotal + Cap + k]) =>
                                hits(2) /\ SubLeaf + k \in batch(2)
  <2> SUFFICES ASSUME tree.dual
               PROVE  /\ \A x \in batch(2) : \E k \in 0..c2 - 1 :
                           x = SubLeaf + k /\ intersects(q, tree.tests[SubTotal + Cap + k])
                      /\ \A k \in 0..c2 - 1 : intersects(q, tree.tests[SubTotal + Cap + k]) =>
                                                hits(2) /\ SubLeaf + k \in batch(2)
    OBVIOUS
  <2>1. /\ SubTotal = (2 - 1) * SubTotal /\ SubLeaf = (2 - 1) * SubLeaf /\ 2 \in 1..2
        /\ SubTotal \in Nat /\ SubLeaf \in Nat
    BY <1>2
  <2>2. \A k \in 0..c2 - 1 : Sided(tree.tests[SubTotal + Cap + k])
    BY <1>4, <1>6
  <2>3. Rooted(tree, SubTotal, tree.leaves[2], tree.sub_root[2])
    BY DEF Indexed
  <2>4. c2 \in Nat /\ c2 <= SubLeaf
    BY <1>3
  <2> QED BY <2>1, <2>2, <2>3, <2>4, SubtreeFinds
<1>9. Found(tree, q) = (IF hits(1) THEN batch(1) ELSE {})
                         \union (IF tree.dual /\ hits(2) THEN batch(2) ELSE {})
  BY DEF Found
<1> HIDE DEF n, meets, batch, hits, c1, c2
<1>10. ASSUME NEW x \in Found(tree, q) PROVE x \in 0..n - 1 /\ meets(x)
  <2>1. x \in batch(1) \/ (tree.dual /\ x \in batch(2))
    BY <1>9, <1>10
  <2>2. CASE x \in batch(1)
    <3>1. PICK k \in 0..c1 - 1 : x = 0 + k /\ intersects(q, tree.tests[0 + Cap + k])
      BY <1>7, <2>2
    <3>2. k \in 0..n - 1 /\ x = k
      BY <1>5, <3>1
    <3> QED BY <1>5, <3>1, <3>2 DEF meets
  <2>3. CASE tree.dual /\ x \in batch(2)
    <3>1. PICK k \in 0..c2 - 1 : x = SubLeaf + k /\ intersects(q, tree.tests[SubTotal + Cap + k])
      BY <1>8, <2>3
    <3> QED BY <1>6, <2>3, <3>1 DEF meets
  <2> QED BY <2>1, <2>2, <2>3
<1>11. ASSUME NEW x \in 0..n - 1, meets(x) PROVE x \in Found(tree, q)
  <2>1. CASE x < c1
    <3>1. x \in 0..c1 - 1 /\ 0 + x = x
      BY <1>1, <1>3, <2>1
    <3>2. intersects(q, tree.tests[0 + Cap + x])
      BY <1>5, <1>11, <3>1 DEF meets
    <3>3. hits(1) /\ x \in batch(1)
      BY <1>7, <3>1, <3>2
    <3> QED BY <1>9, <3>3
  <2>2. CASE ~(x < c1)
    <3>1. tree.dual
      BY <1>1, <1>3, <2>2
    <3> DEFINE k == x - SubLeaf
    <3>2. k \in 0..c2 - 1 /\ SubLeaf + k = x /\ SubLeaf + k + 1 = x + 1
      BY <1>1, <1>2, <1>3, <2>2, <3>1
    <3> HIDE DEF k
    <3>3. intersects(q, tree.tests[SubTotal + Cap + k])
      BY <1>6, <1>11, <3>1, <3>2 DEF meets
    <3>4. hits(2) /\ x \in batch(2)
      BY <1>8, <3>1, <3>2, <3>3
    <3> QED BY <1>9, <3>1, <3>4
  <2> QED BY <2>1, <2>2
<1>12. Found(tree, q) = {k \in 0..n - 1 : meets(k)}
  BY <1>10, <1>11
<1> QED BY <1>12 DEF n, meets

(* Sorting answers changes neither what they are nor how many.             *)
LEMMA SortKeeps ==
  ASSUME NEW m \in Nat, NEW V \in SUBSET Int, NEW ids \in [1..m -> V],
         \A j, k \in 1..m : ids[j] = ids[k] => j = k
  PROVE  LET found == SortedIds(ids)
         IN  ToSet(found) \subseteq V /\ IsInjective(found) /\ Len(found) = m
<1> DEFINE order == Order(m, ids, Unkeyed(m))
           found == [k \in 1..m |-> ids[order[k]]]
<1>1. Len(ids) = m
  OBVIOUS
<1>2. SortedIds(ids) = found
  BY <1>1 DEF SortedIds
<1>3. Permutes(order, m)
  <2>1. \A k \in 1..m : ids[k] \in Int
    OBVIOUS
  <2>2. \A k \in 1..m : Unkeyed(m)[k] \in Int
    BY DEF Unkeyed
  <2> QED BY <2>1, <2>2, OrderPermutes
<1> HIDE DEF order
<1>4. \A k \in 1..m : order[k] \in 1..m /\ found[k] = ids[order[k]]
  BY <1>3 DEF Permutes
<1>5. DOMAIN found = 1..m /\ Len(found) = m
  OBVIOUS
<1> HIDE DEF found
<1>6. ToSet(found) \subseteq V
  BY <1>4, <1>5 DEF ToSet
<1>7. IsInjective(found)
  <2> SUFFICES ASSUME NEW j \in 1..m, NEW k \in 1..m, found[j] = found[k] PROVE j = k
    BY <1>5 DEF IsInjective
  <2>1. order[j] = order[k]
    BY <1>4
  <2> QED BY <1>3, <2>1 DEF Permutes
<1> QED BY <1>2, <1>5, <1>6, <1>7

(* Each answer is a box that meets the query, none is given twice, and all *)
(* are when they fit.                                                      *)
AnswersExactly(tree, boxes, q, limit) ==
  LET meets == {boxes[i].id : i \in {j \in DOMAIN boxes : intersects(q, boxes[j])}}
      found == queryBatch(tree, q, limit)
  IN  /\ ToSet(found) \subseteq meets /\ IsInjective(found)
      /\ Len(found) = Min({limit, Cardinality(meets)})

(* An index answers exactly (STRtree::queryBatch).                         *)
LEMMA QueryFact ==
  ASSUME NEW tree, NEW boxes, AreBoxes(boxes), Indexed(tree, boxes), NEW q, Sided(q),
         NEW limit \in Nat
  PROVE  AnswersExactly(tree, boxes, q, limit)
<1> DEFINE n == Len(boxes)
           meets == {boxes[i].id : i \in {j \in DOMAIN boxes : intersects(q, boxes[j])}}
           found == queryBatch(tree, q, limit)
<1>1. n \in Nat /\ tree.leaf_count = n /\ DOMAIN boxes = 1..n
  BY DEF AreBoxes, Indexed
<1>2. CASE n = 0
  <2>1. found = <<>>
    BY <1>1, <1>2 DEF queryBatch
  <2>2. meets = {}
    BY <1>1, <1>2
  <2>3. Cardinality(meets) = 0
    BY <2>2, FS_EmptySet
  <2>4. Min({limit, 0}) = 0
    <3>1. limit \in Int /\ 0 \in Int
      OBVIOUS
    <3> QED BY <3>1, MinOf
  <2> HIDE DEF found, meets
  <2>5. ToSet(found) = {} /\ IsInjective(found) /\ Len(found) = 0
    BY <2>1 DEF ToSet, IsInjective
  <2> QED BY <2>3, <2>4, <2>5 DEF AnswersExactly, found, meets
<1>3. CASE n # 0
  <2>1. PICK leaf : Leafed(tree, boxes, leaf)
    BY <1>1, <1>3 DEF Indexed
  <2> DEFINE F == Found(tree, q)
             all == Ascending(F)
             size == Cardinality(F)
             m == Min({limit, size})
             ids == FirstIds(tree, F, limit)
             number == [k \in F |-> leaf[k + 1] - 1]
  <2>2. F = {k \in 0..n - 1 : intersects(q, boxes[leaf[k + 1]])}
    BY <1>1, <1>3, <2>1, FoundExactly
  <2>3. found = SortedIds(ids)
    BY <1>1, <1>3 DEF queryBatch
  <2> HIDE DEF F, found
  <2>4. IsFiniteSet(F) /\ F \in SUBSET Int /\ size \in Nat
    <3>1. F \subseteq 0..n - 1 /\ F \in SUBSET Int
      BY <1>1, <2>2
    <3>2. IsFiniteSet(0..n - 1)
      BY <1>1, FS_Interval
    <3>3. IsFiniteSet(F)
      BY <3>1, <3>2, FS_Subset
    <3> QED BY <3>1, <3>3, FS_CardinalityType
  <2>5. Numbers(all, F)
    BY <2>4, AscendingNumbers
  <2>6. m \in Nat /\ m <= size
    <3>1. m = IF limit <= size THEN limit ELSE size
      <4>1. limit \in Int /\ size \in Int
        BY <2>4
      <4> HIDE DEF size
      <4> QED BY <4>1, MinOf
    <3> HIDE DEF m, size
    <3> QED BY <2>4, <3>1
  <2>7. ids = [k \in 1..m |-> tree.polygon_idxs[all[k]]]
    BY DEF FirstIds
  <2> HIDE DEF m, all, ids, size
  <2>8. \A k \in F : /\ k \in 0..n - 1 /\ k + 1 \in 1..n /\ leaf[k + 1] \in 1..n
                     /\ tree.polygon_idxs[k] = leaf[k + 1] - 1 /\ number[k] = leaf[k + 1] - 1
    <3> SUFFICES ASSUME NEW k \in F
                 PROVE  /\ k \in 0..n - 1 /\ k + 1 \in 1..n /\ leaf[k + 1] \in 1..n
                        /\ tree.polygon_idxs[k] = leaf[k + 1] - 1
      OBVIOUS
    <3>1. k \in 0..n - 1 /\ k + 1 \in 1..n
      BY <1>1, <2>2
    <3> QED BY <2>1, <3>1 DEF Leafed, Permutes
  <2>9. \A k \in F : number[k] \in meets
    <3> SUFFICES ASSUME NEW k \in F PROVE number[k] \in meets
      OBVIOUS
    <3> DEFINE i == leaf[k + 1]
    <3>1. i \in 1..n /\ number[k] = i - 1
      BY <2>8
    <3>2. intersects(q, boxes[i])
      BY <2>2
    <3>3. boxes[i].id = i - 1
      BY <3>1 DEF AreBoxes
    <3> HIDE DEF i, number
    <3> QED BY <1>1, <3>1, <3>2, <3>3
  <2>10. \A x \in meets : \E k \in F : number[k] = x
    <3> SUFFICES ASSUME NEW i \in 1..n, intersects(q, boxes[i])
                 PROVE  \E k \in F : number[k] = boxes[i].id
      BY <1>1
    <3>1. PICK j \in 1..n : leaf[j] = i
      BY <2>1 DEF Leafed, Permutes
    <3>2. j - 1 \in 0..n - 1 /\ (j - 1) + 1 = j
      BY <1>1
    <3>3. j - 1 \in F
      BY <2>2, <3>1, <3>2
    <3>4. number[j - 1] = i - 1
      BY <2>8, <3>1, <3>2, <3>3
    <3>5. boxes[i].id = i - 1
      BY DEF AreBoxes
    <3> HIDE DEF number
    <3> QED BY <3>3, <3>4, <3>5
  <2>11. \A j, k \in F : number[j] = number[k] => j = k
    <3> SUFFICES ASSUME NEW j \in F, NEW k \in F, number[j] = number[k] PROVE j = k
      OBVIOUS
    <3>1. /\ leaf[j + 1] \in 1..n /\ leaf[k + 1] \in 1..n /\ leaf[j + 1] - 1 = leaf[k + 1] - 1
          /\ j + 1 \in 1..n /\ k + 1 \in 1..n /\ j \in Int /\ k \in Int
      <4>1. number[j] = leaf[j + 1] - 1 /\ number[k] = leaf[k + 1] - 1
        BY <2>8
      <4> HIDE DEF number
      <4> QED BY <2>4, <2>8, <4>1
    <3>2. leaf[j + 1] = leaf[k + 1]
      BY <1>1, <3>1
    <3>3. j + 1 = k + 1
      BY <2>1, <3>1, <3>2 DEF Leafed, Permutes
    <3> QED BY <3>1, <3>3
  <2>12. DOMAIN number = F
    OBVIOUS
  <2> HIDE DEF number, meets
  <2>13. Cardinality(meets) = size
    <3>1. number = [k \in F |-> number[k]]
      BY DEF number
    <3>2. number \in [F -> meets]
      BY <2>9, <3>1
    <3>3. number \in Bijection(F, meets)
      BY <2>10, <2>11, <3>2 DEF Bijection, Injection, Surjection, IsInjective
    <3>4. ExistsBijection(F, meets)
      BY <3>3 DEF ExistsBijection
    <3> QED BY <2>4, <3>4, FS_Bijection DEF size
  <2>14. \A k \in 1..m : ids[k] = number[all[k]] /\ all[k] \in F /\ k \in 1..size
    <3> SUFFICES ASSUME NEW k \in 1..m
                 PROVE  ids[k] = number[all[k]] /\ all[k] \in F /\ k \in 1..size
      OBVIOUS
    <3>1. k \in 1..size
      BY <2>4, <2>6
    <3>2. all[k] \in F
      BY <2>5, <3>1 DEF Numbers, size
    <3> QED BY <2>7, <2>8, <3>1, <3>2
  <2>15. ids \in [1..m -> meets]
    BY <2>7, <2>9, <2>14
  <2>16. \A j, k \in 1..m : ids[j] = ids[k] => j = k
    <3> SUFFICES ASSUME NEW j \in 1..m, NEW k \in 1..m, ids[j] = ids[k] PROVE j = k
      OBVIOUS
    <3>1. all[j] = all[k]
      BY <2>11, <2>14
    <3> QED BY <2>5, <2>14, <3>1 DEF Numbers, size
  <2>17. meets \in SUBSET Int
    <3> SUFFICES ASSUME NEW i \in 1..n PROVE boxes[i].id \in Int
      BY <1>1 DEF meets
    <3> QED BY <1>1 DEF AreBoxes
  <2>18. ToSet(found) \subseteq meets /\ IsInjective(found) /\ Len(found) = m
    BY <2>3, <2>6, <2>15, <2>16, <2>17, SortKeeps
  <2> QED BY <2>13, <2>18 DEF AnswersExactly, m, meets, found
<1> QED BY <1>2, <1>3

-----------------------------------------------------------------------------
(* Filling and building a tree leaves an index of the boxes, whatever was  *)
(* in its arrays (buildSTRtreesFrenetBatch).                               *)
LEMMA FreshIndex ==
  ASSUME NEW tree, NEW boxes, Reusable(tree), AreBoxes(boxes)
  PROVE  Indexed(buildSTRtreesFrenetBatch(tree, boxes), boxes)
BY FillHolds, BuildIndexes

(* The box an agent takes in the frame of the path has integer sides.      *)
LEMMA EntryOf ==
  ASSUME NEW b, b.x \in Int, b.y \in Int, b.dir[1] \in Int, b.dir[2] \in Int,
         b.wide \in Int, b.long \in Int, NEW alias \in Int, NEW margin \in Int, NEW id
  PROVE  LET e == FrenetEntry(b, alias, margin, id)
         IN  Sided(e) /\ e.at[1] \in Int /\ e.at[2] \in Int /\ e.id = id
<1> DEFINE rs == Abs(b.dir[1]) * b.long + Abs(b.dir[2]) * b.wide
           rl == Abs(b.dir[2]) * b.long + Abs(b.dir[1]) * b.wide + margin
           s  == D * (b.x + alias)
           l  == D * b.y
           e  == FrenetEntry(b, alias, margin, id)
<1>1. s \in Int /\ l \in Int
  BY HeadingAssumption
<1>2. Abs(b.dir[1]) \in Int /\ Abs(b.dir[2]) \in Int
  BY DEF Abs
<1>3. rs \in Int /\ rl \in Int
  <2> DEFINE u == Abs(b.dir[1])
             w == Abs(b.dir[2])
  <2>1. u \in Int /\ w \in Int
    BY <1>2
  <2> HIDE DEF u, w
  <2>2. u * b.long \in Int /\ w * b.wide \in Int /\ w * b.long \in Int /\ u * b.wide \in Int
    BY <2>1
  <2>3. u * b.long + w * b.wide \in Int /\ w * b.long + u * b.wide + margin \in Int
    BY <2>2
  <2> QED BY <2>3 DEF u, w
<1>4. e = [lo |-> <<s - rs, l - rl>>, hi |-> <<s + rs, l + rl>>, at |-> <<s, l>>, id |-> id]
  BY DEF FrenetEntry
<1> HIDE DEF rs, rl, s, l, e
<1>5. s - rs \in Int /\ l - rl \in Int /\ s + rs \in Int /\ l + rl \in Int
  BY <1>1, <1>3
<1>6. Sided(e)
  BY <1>4, <1>5 DEF Sided
<1>7. e.at[1] \in Int /\ e.at[2] \in Int /\ e.id = id
  BY <1>1, <1>4
<1> QED BY <1>6, <1>7 DEF e

(* What is indexed for a scenario and a time step are boxes.               *)
LEMMA EntriesAreBoxes ==
  ASSUME NEW f \in Frames, NEW s \in Scenarios, NEW t \in Nat
  PROVE  AreBoxes(ExoEntries(f, s, t, TRUE))
<1> DEFINE boxes == ExoEntries(f, s, t, TRUE)
           n == Len(f.fleet)
<1>1. /\ f.fleet \in Seq(Vehicle) /\ n <= Entries /\ ExoMargin \in Int
      /\ \A i \in DOMAIN f.fleet : f.picks[s][i] \in DOMAIN f.fleet[i].modes
  BY EvaluationAssumption
<1>2. n \in Nat /\ DOMAIN f.fleet = 1..n
  BY <1>1
<1>3. boxes = [i \in 1..n |->
                 FrenetEntry(Expanded(Exo(f, s, t, i - 1)), f.fleet[i].alias, ExoMargin, i - 1)]
  BY <1>2 DEF ExoEntries
<1> HIDE DEF boxes, n
<1>4. Len(boxes) = n /\ DOMAIN boxes = 1..n
  BY <1>2, <1>3
<1>5. ASSUME NEW i \in 1..n
      PROVE  /\ Sided(boxes[i]) /\ boxes[i].at[1] \in Int /\ boxes[i].at[2] \in Int
             /\ boxes[i].id = i - 1
  <2> DEFINE a == f.fleet[i]
             m == a.modes[f.picks[s][i]]
             b == Exo(f, s, t, i - 1)
             wider == Expanded(b)
  <2>1. a \in Vehicle
    BY <1>1, <1>2
  <2>2. m \in Prediction
    <3>1. a.modes \in Seq(Prediction)
      BY <2>1 DEF Vehicle
    <3>2. f.picks[s][i] \in DOMAIN a.modes
      BY <1>1, <1>2
    <3> HIDE DEF a
    <3> QED BY <3>1, <3>2
  <2>3. (i - 1) + 1 = i
    BY <1>2
  <2>4. b = [x |-> a.x + m.step[1] * t, y |-> a.y + m.step[2] * t, dir |-> a.dir,
             wide |-> a.wide, long |-> a.long, v |-> Abs(m.step[1]) + Abs(m.step[2])]
    BY <2>3 DEF Exo
  <2> HIDE DEF a, m, b
  <2>5. m.step[1] \in Int /\ m.step[2] \in Int
    BY <2>2 DEF Prediction
  <2>6. /\ a.x \in Int /\ a.y \in Int /\ a.dir[1] \in Int /\ a.dir[2] \in Int
        /\ a.wide \in Nat /\ a.long \in Nat /\ a.alias \in Int
    BY <2>1 DEF Vehicle
  <2>7. m.step[1] * t \in Int /\ m.step[2] * t \in Int
    BY <2>5
  <2>8. wider = [b EXCEPT !.wide = @ + 1, !.long = @ + 1]
    BY DEF Expanded
  <2> HIDE DEF wider
  <2>9. /\ wider.x = a.x + m.step[1] * t /\ wider.y = a.y + m.step[2] * t /\ wider.dir = a.dir
        /\ wider.wide = a.wide + 1 /\ wider.long = a.long + 1
    BY <2>4, <2>8
  <2>10. /\ wider.x \in Int /\ wider.y \in Int /\ wider.dir[1] \in Int /\ wider.dir[2] \in Int
         /\ wider.wide \in Int /\ wider.long \in Int
    <3>1. wider.x \in Int /\ wider.y \in Int
      BY <2>6, <2>7, <2>9
    <3>2. wider.dir[1] \in Int /\ wider.dir[2] \in Int
      BY <2>6, <2>9
    <3>3. wider.wide \in Int /\ wider.long \in Int
      BY <2>6, <2>9
    <3> QED BY <3>1, <3>2, <3>3
  <2>11. boxes[i] = FrenetEntry(wider, a.alias, ExoMargin, i - 1)
    BY <1>3 DEF wider, b, a
  <2> DEFINE alias == a.alias
             id == i - 1
             e == FrenetEntry(wider, alias, ExoMargin, id)
  <2>12. alias \in Int /\ boxes[i] = e
    BY <2>6, <2>11
  <2> HIDE DEF alias, id
  <2>13. Sided(e) /\ e.at[1] \in Int /\ e.at[2] \in Int /\ e.id = id
    BY <1>1, <2>10, <2>12, EntryOf
  <2> QED BY <2>12, <2>13 DEF id
<1>6. AreBoxes(boxes)
  BY <1>1, <1>2, <1>4, <1>5 DEF AreBoxes
<1> QED BY <1>6 DEF boxes

(* The trees of all scenarios and steps can be used again, and while the   *)
(* proposals are evaluated each is the index of its boxes.                 *)
TreesCurrent ==
  /\ phase = "evaluate" => frame \in Frames
  /\ DOMAIN trees = Scenarios
  /\ \A s \in Scenarios :
       /\ DOMAIN trees[s] = 0..FullLen - 1
       /\ \A t \in 0..FullLen - 1 :
            /\ Reusable(trees[s][t])
            /\ phase = "evaluate" => Indexed(trees[s][t], ExoEntries(frame, s, t, TRUE))

(* A tree that was never filled can be filled.                             *)
LEMMA NewTree ==
  Reusable(STRtree)
BY DEF Reusable, STRtree

(* Sampling indexes every scenario and step anew (sampleScenarios).        *)
LEMMA SamplingIndexes ==
  ASSUME TreesCurrent, SampleScenarios
  PROVE  TreesCurrent'
<1>1. PICK f \in Frames :
        /\ frame' = f
        /\ trees' = [s \in Scenarios |-> [t \in 0..FullLen - 1 |->
                       buildSTRtreesFrenetBatch(trees[s][t], ExoEntries(f, s, t, TRUE))]]
  BY DEF SampleScenarios
<1>2. \A s \in Scenarios : \A t \in 0..FullLen - 1 :
        trees'[s][t] = buildSTRtreesFrenetBatch(trees[s][t], ExoEntries(f, s, t, TRUE))
  BY <1>1
<1>3. ASSUME NEW s \in Scenarios, NEW t \in 0..FullLen - 1
      PROVE  Indexed(trees'[s][t], ExoEntries(f, s, t, TRUE))
  <2>1. t \in Nat
    BY EvaluationAssumption
  <2>2. AreBoxes(ExoEntries(f, s, t, TRUE))
    BY <2>1, EntriesAreBoxes
  <2>3. Reusable(trees[s][t])
    BY DEF TreesCurrent
  <2> QED BY <1>2, <2>2, <2>3, FreshIndex
<1>4. DOMAIN trees' = Scenarios /\ \A s \in Scenarios : DOMAIN trees'[s] = 0..FullLen - 1
  BY <1>1
<1>5. \A s \in Scenarios : \A t \in 0..FullLen - 1 :
        Reusable(trees'[s][t]) /\ Indexed(trees'[s][t], ExoEntries(frame', s, t, TRUE))
  BY <1>1, <1>3 DEF Indexed
<1> QED BY <1>1, <1>4, <1>5 DEF TreesCurrent

(* The trees are current in every reachable state.                         *)
THEOREM TreesStayCurrent ==
  Spec => []TreesCurrent
<1>1. Init => TreesCurrent
  <2> SUFFICES ASSUME Init PROVE TreesCurrent
    OBVIOUS
  <2>1. phase # "evaluate"
    BY DEF Init
  <2>2. /\ DOMAIN trees = Scenarios
        /\ \A s \in Scenarios : /\ DOMAIN trees[s] = 0..FullLen - 1
                                /\ \A t \in 0..FullLen - 1 : trees[s][t] = STRtree
    BY DEF Init
  <2> QED BY <2>1, <2>2, NewTree DEF TreesCurrent
<1>2. TreesCurrent /\ [Next]_vars => TreesCurrent'
  <2> SUFFICES ASSUME TreesCurrent, [Next]_vars PROVE TreesCurrent'
    OBVIOUS
  <2>1. CASE SampleScenarios
    BY <2>1, SamplingIndexes
  <2>2. ASSUME UNCHANGED <<frame, trees>>, phase' = "evaluate" => phase = "evaluate"
        PROVE  TreesCurrent'
    BY <2>2 DEF TreesCurrent
  <2>3. CASE Probe
    BY <2>2, <2>3 DEF Probe
  <2>4. CASE EvaluateStep
    BY <2>2, <2>4 DEF EvaluateStep
  <2>5. CASE ChooseProposal
    BY <2>2, <2>5 DEF ChooseProposal
  <2>6. CASE UNCHANGED vars
    BY <2>2, <2>6 DEF vars
  <2> QED BY <2>1, <2>3, <2>4, <2>5, <2>6 DEF Next
<1> QED BY <1>1, <1>2, PTL DEF Spec

(* Every query of a tree is answered for the boxes of this frame: each     *)
(* answer meets the query, none is given twice, and all are when they fit  *)
(* (STRtree::build, queryBatch), for every fleet and every capacity.       *)
THEOREM QueryExactHolds ==
  Spec => []QueryExact
<1>1. TreesCurrent => QueryExact
  <2> SUFFICES ASSUME TreesCurrent, phase = "evaluate",
                      NEW s \in Scenarios, NEW t \in 0..FullLen - 1, NEW q \in QueryBoxes
               PROVE  AnswersExactly(trees[s][t], ExoEntries(frame, s, t, TRUE), q, RowLimit)
    BY DEF QueryExact, AnswersExactly
  <2>1. t \in Nat /\ RowLimit \in Nat
    BY EvaluationAssumption
  <2>2. frame \in Frames /\ Indexed(trees[s][t], ExoEntries(frame, s, t, TRUE))
    BY DEF TreesCurrent
  <2>3. AreBoxes(ExoEntries(frame, s, t, TRUE))
    BY <2>1, <2>2, EntriesAreBoxes
  <2>4. Sided(q)
    <3>1. PICK x \in {-6, -1, 4, 9}, y \in {-4, -1, 2}, w \in {0, 6} :
            q = [lo |-> <<D * x, D * y>>, hi |-> <<D * (x + w), D * (y + 1)>>]
      BY DEF QueryBoxes
    <3>2. D * x \in Int /\ D * y \in Int /\ D * (x + w) \in Int /\ D * (y + 1) \in Int
      BY HeadingAssumption
    <3> QED BY <3>1, <3>2 DEF Sided
  <2> QED BY <2>1, <2>2, <2>3, <2>4, QueryFact
<1> QED BY <1>1, TreesStayCurrent, PTL
=============================================================================
