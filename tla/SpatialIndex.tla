---------------------------- MODULE SpatialIndex ----------------------------
(***************************************************************************)
(* collision::STRtree, the packed tree over the boxes of one time step.    *)
(* It has at most two subtrees of Cap parents with Cap leaves each, fixed  *)
(* arrays that are never cleared, and is filled, built and queried again   *)
(* for every frame: what an earlier frame left in the arrays is still      *)
(* there.  A box is [lo, hi, at, id]; coordinates are integers.            *)
(***************************************************************************)
EXTENDS Integers, FiniteSets, SequencesExt, FiniteSetsExt

CONSTANTS
  Cap,       \* STRTREE_NODE_CAPACITY, which is also FloatVectorWidth
  Entries    \* STRTREE_MAX_NODE_NUM

SubLeaf  == Cap * Cap          \* STRTREE_SUBTREE_LEAF_SIZE
SubTotal == Cap + SubLeaf      \* STRTREE_SUBTREE_TOTAL_SIZE

ASSUME IndexAssumption ==
  Cap \in Nat \ {0} /\ Entries \in Nat /\ Entries % Cap = 0 /\ Entries <= 2 * SubLeaf

Nowhere == [lo |-> <<0, 0>>, hi |-> <<0, 0>>, at |-> <<0, 0>>, id |-> -1]

(* tests: parents of the first subtree, its leaves, then the second's.     *)
STRtree ==
  [tmp |-> [i \in 0..Entries - 1 |-> Nowhere], leaf_count |-> 0, dual |-> FALSE,
   leaves |-> <<0, 0>>, parents |-> <<0, 0>>,
   tests |-> [i \in 0..2 * SubTotal - 1 |-> Nowhere],
   polygon_idxs |-> [i \in 0..2 * SubLeaf - 1 |-> -1],
   sub_root |-> <<Nowhere, Nowhere>>]

clear(tree) == [tree EXCEPT !.leaf_count = 0]

(* A whole batch is written, the lanes past the valid ones included.       *)
insertBatch(tree, batch, valid_count) ==
  [tree EXCEPT
     !.tmp = [i \in DOMAIN tree.tmp |->
                IF i \in tree.leaf_count..tree.leaf_count + Cap - 1
                THEN batch[i - tree.leaf_count + 1] ELSE tree.tmp[i]],
     !.leaf_count = @ + valid_count]

Hull(boxes) ==
  [lo |-> <<Min({b.lo[1] : b \in boxes}), Min({b.lo[2] : b \in boxes})>>,
   hi |-> <<Max({b.hi[1] : b \in boxes}), Max({b.hi[2] : b \in boxes})>>,
   at |-> <<0, 0>>, id |-> -1]

CeilSqrt(n, d) == CHOOSE k \in 0..n : k * k * d >= n /\ \A j \in 0..k - 1 : j * j * d < n
Ceil(n, d) == (n + d - 1) \div d

(* The k-th member of S in an order, given as a set of pairs.              *)
Nth(S, before, k) == CHOOSE i \in S : Cardinality({j \in S : <<j, i>> \in before}) = k - 1

(* The indices 1..n by two keys.  Ties keep their order, as in the code's  *)
(* insertion sort of short ranges.                                         *)
Order(n, major, minor) ==
  LET before == {p \in (1..n) \X (1..n) :
                   \/ major[p[1]] < major[p[2]]
                   \/ /\ major[p[1]] = major[p[2]]
                      /\ minor[p[1]] < minor[p[2]] \/ (minor[p[1]] = minor[p[2]] /\ p[1] < p[2])}
  IN  [k \in 1..n |-> Nth(1..n, before, k)]

Unkeyed(n) == [k \in 1..n |-> 0]

(* The members of S, in ascending order.                                   *)
Ascending(S) ==
  [k \in 1..Cardinality(S) |-> Nth(S, {p \in S \X S : p[1] < p[2]}, k)]

(* Sorted by x, cut into slices, each slice sorted by y: the indices of    *)
(* the entries in that order.                                              *)
InSlices(n, byX, y, slice) ==
  LET within == Order(n, [k \in 1..n |-> (k - 1) \div slice], [k \in 1..n |-> y[byX[k]]])
  IN  [k \in 1..n |-> byX[within[k]]]

Center(tree, axis) == [i \in 1..tree.leaf_count |-> tree.tmp[i - 1].at[axis]]

tmp_sort_indices(tree) ==
  LET n == tree.leaf_count
  IN  InSlices(n, Order(n, Center(tree, 1), Unkeyed(n)), Center(tree, 2),
               Ceil(n, CeilSqrt(n, Cap)))

str_sort_and_group(tree) ==
  LET order == tmp_sort_indices(tree)
  IN  [k \in 1..tree.leaf_count |-> tree.tmp[order[k] - 1]]

LeafCounts(tree) ==
  IF tree.leaf_count > SubLeaf THEN <<SubLeaf, tree.leaf_count - SubLeaf>>
  ELSE <<tree.leaf_count, 0>>

(* Where the k-th sorted entry is stored: both subtrees leave room for     *)
(* their parents.                                                          *)
LeafSlot(k) == IF k < SubLeaf THEN Cap + k ELSE SubTotal + Cap + (k - SubLeaf)

compute_parent_aabb(tests, offset, leaf_count) ==
  [i \in DOMAIN tests |->
     IF i \in offset..offset + Ceil(leaf_count, Cap) - 1
     THEN LET first == (i - offset) * Cap
          IN  Hull({tests[offset + Cap + j] : j \in first..Min({first + Cap, leaf_count}) - 1})
     ELSE tests[i]]

(* Nothing is touched when the tree is empty.  The first subtree of a dual *)
(* tree is full, so all its parents are.                                   *)
build(tree) ==
  IF tree.leaf_count = 0 THEN tree
  ELSE LET sorted == str_sort_and_group(tree)
           leaves == LeafCounts(tree)
           dual   == tree.leaf_count > SubLeaf
           filled == [i \in DOMAIN tree.tests |->
                        IF \E k \in 0..tree.leaf_count - 1 : LeafSlot(k) = i
                        THEN sorted[1 + CHOOSE k \in 0..tree.leaf_count - 1 : LeafSlot(k) = i]
                        ELSE tree.tests[i]]
           first  == compute_parent_aabb(filled, 0, leaves[1])
           tests  == IF dual THEN compute_parent_aabb(first, SubTotal, leaves[2]) ELSE first
           parents == [s \in 1..2 |-> Ceil(leaves[s], Cap)]
           root(s) == Hull({tests[(s - 1) * SubTotal + i] : i \in 0..parents[s] - 1})
       IN  [tree EXCEPT
              !.dual = dual, !.leaves = leaves, !.parents = parents, !.tests = tests,
              !.polygon_idxs = [i \in DOMAIN @ |->
                                  IF i < tree.leaf_count THEN sorted[i + 1].id ELSE @[i]],
              !.sub_root = <<root(1), IF dual THEN root(2) ELSE @[2]>>]

intersects(a, b) == \A k \in 1..2 : a.lo[k] <= b.hi[k] /\ b.lo[k] <= a.hi[k]

(* All parents are tested at once, stale ones too; the counts of this      *)
(* frame decide which of them and of their leaves count.                   *)
ValidParent(tree, sub, p) == p * Cap < tree.leaves[sub]
AnyLeaf(tree, sub, p, k) == TRUE
ValidLeaf(tree, sub, p, k) == k < Min({Cap, tree.leaves[sub] - p * Cap})

(* The leaves found in a subtree, numbered through both; they are come     *)
(* upon in ascending order.                                                *)
querySubtreeBatch(tree, sub, box) ==
  LET offset  == (sub - 1) * SubTotal
      slots   == 0..Cap - 1
      parents == {p \in slots : intersects(box, tree.tests[offset + p]) /\ ValidParent(tree, sub, p)}
      hit(p, k) == /\ ValidLeaf(tree, sub, p, k)
                   /\ intersects(box, tree.tests[offset + Cap + p * Cap + k])
  IN  {(sub - 1) * SubLeaf + l[1] * Cap + l[2] : l \in {l \in parents \X slots : hit(l[1], l[2])}}

Found(tree, box) ==
  LET meets(s) == intersects(box, tree.sub_root[s])
  IN  (IF meets(1) THEN querySubtreeBatch(tree, 1, box) ELSE {})
        \union (IF tree.dual /\ meets(2) THEN querySubtreeBatch(tree, 2, box) ELSE {})

(* The first limit of them, by what they are the leaves of.                *)
FirstIds(tree, leaves, limit) ==
  LET all == Ascending(leaves)
  IN  [k \in 1..Min({limit, Cardinality(leaves)}) |-> tree.polygon_idxs[all[k]]]

SortedIds(ids) ==
  LET order == Order(Len(ids), ids, Unkeyed(Len(ids)))
  IN  [k \in 1..Len(ids) |-> ids[order[k]]]

(* At most limit answers, in ascending order.                              *)
queryBatch(tree, box, limit) ==
  IF tree.leaf_count = 0 THEN <<>>
  ELSE SortedIds(FirstIds(tree, Found(tree, box), limit))
=============================================================================
