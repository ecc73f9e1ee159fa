-------------------------- MODULE StaticSearchProofs --------------------------
(***************************************************************************)
(* Theorems about the pre-allocated tree search for every number of        *)
(* scenarios and actions, every height, and every domain.                  *)
(***************************************************************************)
EXTENDS StaticSearch, DataLemmas, FiniteSetTheorems

-----------------------------------------------------------------------------
(* The heap layout.                                                        *)
A == NumActions
H == TreeHeight

LEMMA Sizes == A \in Nat \ {0} /\ H \in Nat \ {0} /\ NumScenarios \in Nat \ {0}
BY StaticAssumption DEF A, H

(* The starts of the layers by their recursive definition: a function that *)
(* satisfies it exists, layer for layer.                                   *)
LayersUpTo(g, d) == g = [e \in 0..d |-> IF e = 0 THEN 0 ELSE A * g[e - 1] + 1]

LEMMA LayersExist == \A d \in Nat : \E g : LayersUpTo(g, d)
<1> DEFINE S == {d \in Nat : \E g : LayersUpTo(g, d)}
<1>1. 0 \in S
  <2>1. LayersUpTo([e \in 0..0 |-> 0], 0)
    BY DEF LayersUpTo
  <2> QED
    BY <2>1
<1>2. \A d \in Nat : d \in S => d + 1 \in S
  <2> SUFFICES ASSUME NEW d \in Nat, NEW g, LayersUpTo(g, d)
               PROVE  \E k : LayersUpTo(k, d + 1)
    OBVIOUS
  <2> DEFINE k == [e \in 0..(d + 1) |-> IF e = d + 1 THEN A * g[d] + 1 ELSE g[e]]
  <2>1. \A e \in 0..d : k[e] = g[e]
    OBVIOUS
  <2>2. \A e \in 0..(d + 1) : k[e] = IF e = 0 THEN 0 ELSE A * k[e - 1] + 1
    BY <2>1 DEF LayersUpTo
  <2>3. LayersUpTo(k, d + 1)
    BY <2>2 DEF LayersUpTo
  <2> QED
    BY <2>3
<1> HIDE DEF S
<1>3. \A d \in Nat : d \in S
  BY <1>1, <1>2, SetInduction
<1> QED
  BY <1>3 DEF S

LEMMA LayerStartDef ==
  /\ LayerStart[0] = 0
  /\ \A d \in 0..H : LayerStart[d + 1] = A * LayerStart[d] + 1
<1>1. PICK g : LayersUpTo(g, H + 1)
  BY LayersExist, Sizes
<1>2. LayerStart = [d \in 0..(H + 1) |-> IF d = 0 THEN 0 ELSE A * LayerStart[d - 1] + 1]
  BY <1>1 DEF LayersUpTo, LayerStart, A, H
<1> QED
  BY <1>2, Sizes

LEMMA LayerStartGrows ==
  /\ \A d \in 0..(H + 1) : LayerStart[d] \in Nat
  /\ \A d \in 0..H : LayerStart[d] < LayerStart[d + 1]
<1> DEFINE S == {d \in Nat : d <= H + 1 => LayerStart[d] \in Nat}
<1>1. 0 \in S
  BY LayerStartDef
<1>2. \A d \in Nat : d \in S => d + 1 \in S
  BY LayerStartDef, Sizes
<1> HIDE DEF S
<1>3. \A d \in Nat : d \in S
  BY <1>1, <1>2, SetInduction
<1>4. \A d \in 0..(H + 1) : LayerStart[d] \in Nat
  BY <1>3, Sizes DEF S
<1>5. \A x \in Nat : x < A * x + 1
  BY Sizes
<1>6. \A d \in 0..H : LayerStart[d] < LayerStart[d + 1]
  <2> TAKE d \in 0..H
  <2>1. LayerStart[d] \in Nat
    BY <1>4, Sizes
  <2> QED
    BY <2>1, <1>5, LayerStartDef
<1> QED
  BY <1>4, <1>6

LEMMA LayerStartMonotone ==
  ASSUME NEW d \in 0..(H + 1), NEW e \in 0..(H + 1), d <= e
  PROVE  LayerStart[d] <= LayerStart[e]
<1> DEFINE S == {k \in Nat : d + k <= H + 1 => LayerStart[d] <= LayerStart[d + k]}
<1>1. 0 \in S
  BY LayerStartGrows, Sizes
<1>2. \A k \in Nat : k \in S => k + 1 \in S
  <2> SUFFICES ASSUME NEW k \in S, d + (k + 1) <= H + 1
               PROVE  LayerStart[d] <= LayerStart[d + (k + 1)]
    OBVIOUS
  <2>1. d + k \in 0..H /\ (d + k) + 1 = d + (k + 1) /\ d + k \in 0..(H + 1)
    BY Sizes
  <2>2. LayerStart[d + k] < LayerStart[d + (k + 1)] /\ LayerStart[d] <= LayerStart[d + k]
    BY <2>1, LayerStartGrows
  <2>3. LayerStart[d] \in Nat /\ LayerStart[d + k] \in Nat /\ LayerStart[d + (k + 1)] \in Nat
    BY <2>1, LayerStartGrows, Sizes
  <2> QED
    BY <2>2, <2>3
<1> HIDE DEF S
<1>3. \A k \in Nat : k \in S
  BY <1>1, <1>2, SetInduction
<1>4. e - d \in Nat /\ d + (e - d) = e
  BY Sizes
<1>5. e - d \in S
  BY <1>3, <1>4
<1> QED
  BY <1>4, <1>5, Sizes DEF S

(* Each node lies in one layer.                                            *)
InLayer(n, d) == LayerStart[d] <= n /\ n < LayerStart[d + 1]

LEMMA LayerExists ==
  ASSUME NEW n \in Nodes
  PROVE  \E d \in 0..H : InLayer(n, d)
<1>1. n \in Nat /\ n < LayerStart[H + 1]
  BY LayerStartGrows, Sizes DEF Nodes, tree_node_size, H
<1> DEFINE T == {d \in Nat : d <= H /\ n < LayerStart[d + 1]}
<1>2. H \in T
  BY <1>1, Sizes
<1>3. PICK d \in T : \A e \in T : d <= e
  BY <1>2, LeastNat
<1>4. LayerStart[d] <= n
  <2>1. CASE d = 0
    BY <2>1, <1>1, LayerStartDef
  <2>2. CASE d # 0
    <3>1. d - 1 \in Nat /\ d - 1 <= H /\ (d - 1) + 1 = d /\ d \in 0..(H + 1)
      BY <2>2, Sizes
    <3>2. ~(n < LayerStart[d])
      BY <1>3, <3>1
    <3> QED
      BY <1>1, <3>1, <3>2, LayerStartGrows
  <2> QED
    BY <2>1, <2>2
<1> QED
  BY <1>4, Sizes DEF InLayer

LEMMA LayerUnique ==
  ASSUME NEW n \in Nat, NEW d \in 0..H, NEW e \in 0..H, InLayer(n, d), InLayer(n, e)
  PROVE  d = e
<1>1. ASSUME NEW i \in 0..H, NEW j \in 0..H, InLayer(n, i), InLayer(n, j) PROVE ~(i < j)
  <2> SUFFICES ASSUME i < j PROVE FALSE
    OBVIOUS
  <2>1. LayerStart[i + 1] <= LayerStart[j]
    BY LayerStartMonotone, Sizes
  <2>2. LayerStart[i + 1] \in Nat /\ LayerStart[j] \in Nat
    BY LayerStartGrows, Sizes
  <2> QED
    BY <1>1, <2>1, <2>2 DEF InLayer
<1>2. ~(d < e) /\ ~(e < d)
  BY <1>1
<1> QED
  BY <1>2, Sizes

LEMMA ParentFact ==
  ASSUME NEW n \in Nat \ {0}
  PROVE  /\ Parent(n) \in Nat /\ Parent(n) < n
         /\ A * Parent(n) + 1 <= n /\ n <= A * Parent(n) + A
<1> DEFINE p == (n - 1) \div A
<1>1. n - 1 \in Nat /\ A \in Nat \ {0}
  BY Sizes
<1>2. p \in Nat /\ A * p <= n - 1 /\ n - 1 < A * p + A
  BY <1>1
<1>3. Parent(n) = p
  BY DEF Parent, A
<1> HIDE DEF p
<1>4. p <= A * p
  BY <1>1, <1>2
<1>5. A * p \in Nat
  BY <1>1, <1>2
<1> QED
  BY <1>1, <1>2, <1>3, <1>4, <1>5

LEMMA Squeeze ==
  ASSUME NEW p \in Nat, NEW q \in Nat, A * p < A * q + A
  PROVE  p <= q
<1> SUFFICES ASSUME q + 1 <= p PROVE FALSE
  OBVIOUS
<1>1. PICK k \in Nat : p = (q + 1) + k
  <2>1. p - (q + 1) \in Nat /\ p = (q + 1) + (p - (q + 1))
    OBVIOUS
  <2> QED
    BY <2>1
<1>2. A \in Nat \ {0} /\ A * p = A * q + A + A * k /\ A * k \in Nat /\ A * q \in Nat
  BY <1>1, Sizes
<1> QED
  BY <1>2

LEMMA ChildFact ==
  ASSUME NEW n \in Nat, NEW a \in Actions
  PROVE  /\ Child(n, a) \in Nat \ {0} /\ Parent(Child(n, a)) = n
         /\ A * n + 1 <= Child(n, a) /\ Child(n, a) <= A * n + A
<1>1. a \in 0..(A - 1) /\ A \in Nat \ {0} /\ A * n \in Nat
  BY Sizes DEF Actions, A
<1>2. Child(n, a) = A * n + 1 + a
  BY DEF Child, A
<1>3. Child(n, a) \in Nat \ {0} /\ A * n + 1 <= Child(n, a) /\ Child(n, a) <= A * n + A
  BY <1>1, <1>2
<1> DEFINE p == Parent(Child(n, a))
<1>4. /\ p \in Nat /\ A * p + 1 <= Child(n, a) /\ Child(n, a) <= A * p + A
  BY <1>3, ParentFact
<1> HIDE DEF p
<1>5. A * p \in Nat
  BY <1>1, <1>4
<1>6. A * p < A * n + A /\ A * n < A * p + A
  BY <1>1, <1>3, <1>4, <1>5
<1>7. p <= n /\ n <= p
  BY <1>4, <1>6, Squeeze
<1> QED
  BY <1>3, <1>4, <1>7 DEF p

(* One layer up, one layer down.                                           *)
LEMMA ParentLayer ==
  ASSUME NEW n \in Nat \ {0}, NEW d \in 0..H, InLayer(n, d)
  PROVE  d # 0 /\ InLayer(Parent(n), d - 1)
<1>1. LayerStart[0] = 0 /\ LayerStart[1] = 1
  BY LayerStartDef, Sizes
<1>2. d # 0
  BY <1>1 DEF InLayer
<1>3. d - 1 \in 0..H /\ (d - 1) + 1 = d /\ d \in 0..(H + 1) /\ d - 1 \in 0..(H + 1)
  BY <1>2, Sizes
<1> DEFINE x == LayerStart[d - 1]
           y == LayerStart[d]
           p == Parent(n)
<1>4. x \in Nat /\ y \in Nat /\ y = A * x + 1 /\ LayerStart[d + 1] = A * y + 1
  BY <1>3, LayerStartDef, LayerStartGrows
<1>5. y <= n /\ n < A * y + 1
  BY <1>4 DEF InLayer
<1>6. p \in Nat /\ A * p + 1 <= n /\ n <= A * p + A
  BY ParentFact
<1> HIDE DEF x, y, p
<1>7. A \in Nat \ {0} /\ A * x \in Nat /\ A * y \in Nat /\ A * p \in Nat
  BY <1>4, <1>6, Sizes
<1>8. A * x < A * p + A
  BY <1>4, <1>5, <1>6, <1>7
<1>9. x <= p
  BY <1>4, <1>6, <1>8, Squeeze
<1>10. p < y
  <2> SUFFICES ASSUME y <= p PROVE FALSE
    BY <1>4, <1>6
  <2>1. A * y < A * p + 1
    <3>1. PICK k \in Nat : p = y + k
      <4>1. p - y \in Nat /\ p = y + (p - y)
        BY <1>4, <1>6
      <4> QED
        BY <4>1
    <3>2. A * p = A * y + A * k /\ A * k \in Nat
      BY <1>4, <1>7, <3>1
    <3> QED
      BY <1>7, <3>2
  <2> QED
    BY <1>5, <1>6, <1>7, <2>1
<1> QED
  BY <1>2, <1>3, <1>9, <1>10 DEF InLayer, x, y, p

LEMMA LessTimes ==
  ASSUME NEW p \in Nat, NEW q \in Nat, p <= q
  PROVE  A * p <= A * q /\ A * p \in Nat /\ A * q \in Nat
<1>1. PICK k \in Nat : q = p + k
  <2>1. q - p \in Nat /\ q = p + (q - p)
    OBVIOUS
  <2> QED
    BY <2>1
<1>2. A \in Nat /\ A * q = A * p + A * k /\ A * k \in Nat /\ A * p \in Nat /\ A * q \in Nat
  BY <1>1, Sizes
<1> QED
  BY <1>2

LEMMA ChildLayer ==
  ASSUME NEW n \in Nat, NEW a \in Actions, NEW d \in 0..(H - 1), InLayer(n, d)
  PROVE  InLayer(Child(n, a), d + 1)
<1> DEFINE x == LayerStart[d]
           y == LayerStart[d + 1]
<1>1. /\ d \in 0..H /\ d + 1 \in 0..H /\ d \in 0..(H + 1) /\ d + 1 \in 0..(H + 1)
  BY Sizes
<1>2. x \in Nat /\ y \in Nat /\ y = A * x + 1 /\ LayerStart[(d + 1) + 1] = A * y + 1
  BY <1>1, LayerStartDef, LayerStartGrows
<1>3. x <= n /\ n + 1 <= y
  BY <1>2 DEF InLayer
<1>4. A * n + 1 <= Child(n, a) /\ Child(n, a) <= A * n + A /\ Child(n, a) \in Nat
  BY ChildFact
<1> HIDE DEF x, y
<1>5. A * x <= A * n /\ A * x \in Nat /\ A * n \in Nat
  BY <1>2, <1>3, LessTimes
<1>6. A * (n + 1) <= A * y /\ A * y \in Nat
  BY <1>2, <1>3, LessTimes
<1>7. A * (n + 1) = A * n + A /\ A \in Nat
  BY Sizes
<1>8. y <= Child(n, a) /\ Child(n, a) < A * y + 1
  BY <1>2, <1>4, <1>5, <1>6, <1>7
<1> QED
  BY <1>2, <1>8 DEF InLayer, y

-----------------------------------------------------------------------------
(* Depth is the layer: the layer satisfies the recursive definition, and   *)
(* nothing else does.                                                      *)
Layer == [n \in Nodes |-> CHOOSE d \in 0..H : InLayer(n, d)]

LEMMA NodesFact == Nodes \subseteq Nat /\ 0 \in Nodes
<1>1. LayerStart[H + 1] \in Nat /\ LayerStart[0] < LayerStart[1] /\ LayerStart[1] <= LayerStart[H + 1]
  BY LayerStartGrows, LayerStartMonotone, Sizes
<1> QED
  BY <1>1, LayerStartDef, LayerStartGrows, Sizes DEF Nodes, tree_node_size, H

LEMMA NodeParent ==
  ASSUME NEW n \in Nodes, n # 0
  PROVE  n \in Nat \ {0} /\ Parent(n) \in Nodes /\ Parent(n) < n /\ Parent(n) \in Nat
<1>1. n \in Nat \ {0}
  BY NodesFact
<1>2. Parent(n) \in Nat /\ Parent(n) < n
  BY <1>1, ParentFact
<1> QED
  BY <1>1, <1>2, LayerStartGrows, Sizes DEF Nodes, tree_node_size, H

LEMMA LayerFact ==
  ASSUME NEW n \in Nodes
  PROVE  /\ Layer[n] \in 0..H /\ InLayer(n, Layer[n])
         /\ Layer[n] = IF n = 0 THEN 0 ELSE Layer[Parent(n)] + 1
<1>1. \A m \in Nodes : Layer[m] \in 0..H /\ InLayer(m, Layer[m])
  BY LayerExists DEF Layer
<1>2. CASE n = 0
  <2>1. InLayer(0, 0) /\ 0 \in 0..H
    BY LayerStartDef, LayerStartGrows, Sizes DEF InLayer
  <2> QED
    BY <1>1, <1>2, <2>1, LayerUnique
<1>3. CASE n # 0
  <2>1. n \in Nat \ {0} /\ Parent(n) \in Nodes /\ Parent(n) \in Nat
    BY <1>3, NodeParent
  <2>2. Layer[n] # 0 /\ InLayer(Parent(n), Layer[n] - 1)
    BY <1>1, <2>1, ParentLayer
  <2>3. Layer[n] - 1 \in 0..H
    BY <1>1, <2>2, Sizes
  <2>4. Layer[Parent(n)] = Layer[n] - 1
    BY <1>1, <2>1, <2>2, <2>3, LayerUnique
  <2> QED
    BY <1>1, <1>3, <2>3, <2>4
<1> QED
  BY <1>1, <1>2, <1>3

LEMMA DepthIsLayer == Depth = Layer
<1> DEFINE Rec(f) == f = [n \in Nodes |-> IF n = 0 THEN 0 ELSE f[Parent(n)] + 1]
<1>1. Rec(Layer)
  <2>1. Layer = [n \in Nodes |-> Layer[n]]
    BY DEF Layer
  <2> QED
    BY <2>1, LayerFact
<1>2. Depth = CHOOSE f : Rec(f)
  BY DEF Depth
<1>3. Rec(Depth)
  <2> HIDE DEF Rec
  <2> QED
    BY <1>1, <1>2
<1> DEFINE S == {n \in Nat : n \in Nodes => Depth[n] = Layer[n]}
<1>4. \A n \in Nat : (\A m \in 0..(n - 1) : m \in S) => n \in S
  <2> SUFFICES ASSUME NEW n \in Nodes, n \in Nat, \A m \in 0..(n - 1) : m \in S
               PROVE  Depth[n] = Layer[n]
    OBVIOUS
  <2>1. CASE n = 0
    BY <1>1, <1>3, <2>1
  <2>2. CASE n # 0
    <3>1. Parent(n) \in Nodes /\ Parent(n) \in 0..(n - 1)
      BY <2>2, NodeParent
    <3>2. Depth[Parent(n)] = Layer[Parent(n)]
      BY <3>1
    <3> QED
      BY <1>1, <1>3, <2>2, <3>2
  <2> QED
    BY <2>1, <2>2
<1> HIDE DEF S
<1>5. \A n \in Nat : n \in S
  BY <1>4, StrongInduction
<1>6. \A n \in Nodes : Depth[n] = Layer[n]
  BY <1>5, NodesFact DEF S
<1>7. Depth = [n \in Nodes |-> Depth[n]] /\ Layer = [n \in Nodes |-> Layer[n]]
  BY <1>3 DEF Layer
<1> QED
  BY <1>6, <1>7

(* Every node has a depth of at most tree_height_, and the children of a   *)
(* node above the last layer are within the arrays, one layer further      *)
(* down, and have it as their parent.                                      *)
THEOREM HeapLayout ==
  ASSUME NEW n \in Nodes
  PROVE  /\ Depth[n] \in 0..H /\ (Depth[n] = 0 <=> n = 0)
         /\ n # 0 => Parent(n) \in Nodes /\ Depth[n] = Depth[Parent(n)] + 1
         /\ Depth[n] < H =>
              \A a \in Actions :
                /\ Child(n, a) \in Nodes \ {0} /\ Parent(Child(n, a)) = n
                /\ Depth[Child(n, a)] = Depth[n] + 1
<1>1. n \in Nat
  BY NodesFact
<1>2. /\ Depth[n] \in 0..H /\ InLayer(n, Depth[n])
      /\ Depth[n] = IF n = 0 THEN 0 ELSE Depth[Parent(n)] + 1
  BY LayerFact, DepthIsLayer
<1>3. n # 0 => Parent(n) \in Nodes /\ Depth[n] = Depth[Parent(n)] + 1
  BY <1>2, NodeParent
<1>4. n # 0 => Depth[n] # 0
  BY <1>1, <1>2, ParentLayer
<1>5. ASSUME Depth[n] < H, NEW a \in Actions
      PROVE  /\ Child(n, a) \in Nodes \ {0} /\ Parent(Child(n, a)) = n
             /\ Depth[Child(n, a)] = Depth[n] + 1
  <2> DEFINE c == Child(n, a)
  <2>1. c \in Nat \ {0} /\ Parent(c) = n
    BY <1>1, ChildFact
  <2>2. Depth[n] \in 0..(H - 1) /\ Depth[n] + 1 \in 0..H
    BY <1>2, <1>5, Sizes
  <2>3. InLayer(c, Depth[n] + 1)
    BY <1>1, <1>2, <2>2, ChildLayer
  <2>4. LayerStart[(Depth[n] + 1) + 1] <= LayerStart[H + 1]
    <3>1. (Depth[n] + 1) + 1 \in 0..(H + 1) /\ H + 1 \in 0..(H + 1) /\ (Depth[n] + 1) + 1 <= H + 1
      BY <2>2, Sizes
    <3> QED
      BY <3>1, LayerStartMonotone
  <2>5. c \in Nodes
    <3>1. LayerStart[(Depth[n] + 1) + 1] \in Nat /\ LayerStart[H + 1] \in Nat
      BY <2>2, LayerStartGrows, Sizes
    <3> QED
      BY <2>1, <2>3, <2>4, <3>1 DEF InLayer, Nodes, tree_node_size, H
  <2>6. Depth[c] = Depth[n] + 1
    <3>1. Depth[c] \in 0..H /\ InLayer(c, Depth[c])
      BY <2>5, LayerFact, DepthIsLayer
    <3> QED
      BY <2>1, <2>2, <2>3, <3>1, LayerUnique
  <2> QED
    BY <2>1, <2>5, <2>6
<1> QED
  BY <1>2, <1>3, <1>4, <1>5

-----------------------------------------------------------------------------
(* The vote.  winner by its recursive definition, as for LayerStart.       *)
Tally(depths, w, d) ==
  LET n == Votes(depths, d) IN
  IF n = 0 \/ (d = TreeHeight /\ w.votes # -1) THEN w
  ELSE IF n >= w.votes THEN [sync |-> d, votes |-> n] ELSE w

NoWinner == [sync |-> 0, votes |-> -1]

WinnersUpTo(depths, g, d) ==
  g = [e \in -1..d |-> IF e = -1 THEN NoWinner ELSE Tally(depths, g[e - 1], e)]

LEMMA WinnersExist ==
  ASSUME NEW depths
  PROVE  \A k \in Nat : \E g : WinnersUpTo(depths, g, k - 1)
<1> DEFINE S == {k \in Nat : \E g : WinnersUpTo(depths, g, k - 1)}
<1>1. 0 \in S
  <2>1. WinnersUpTo(depths, [e \in -1..-1 |-> NoWinner], -1)
    BY DEF WinnersUpTo
  <2> QED
    BY <2>1
<1>2. \A k \in Nat : k \in S => k + 1 \in S
  <2> SUFFICES ASSUME NEW k \in Nat, NEW g, WinnersUpTo(depths, g, k - 1)
               PROVE  \E j : WinnersUpTo(depths, j, k)
    BY Sizes
  <2> DEFINE j == [e \in -1..k |-> IF e = k THEN Tally(depths, g[k - 1], k) ELSE g[e]]
  <2>1. \A e \in -1..(k - 1) : j[e] = g[e]
    OBVIOUS
  <2>2. \A e \in -1..k : j[e] = IF e = -1 THEN NoWinner ELSE Tally(depths, j[e - 1], e)
    BY <2>1 DEF WinnersUpTo
  <2>3. WinnersUpTo(depths, j, k)
    BY <2>2 DEF WinnersUpTo
  <2> QED
    BY <2>3
<1> HIDE DEF S
<1>3. \A k \in Nat : k \in S
  BY <1>1, <1>2, SetInduction
<1> QED
  BY <1>3 DEF S

Winner(depths) == CHOOSE g : WinnersUpTo(depths, g, H)

LEMMA WinnerDef ==
  ASSUME NEW depths
  PROVE  /\ VoteUpTo(depths) = Winner(depths)[H].sync
         /\ Winner(depths)[-1] = NoWinner
         /\ \A d \in 0..H : Winner(depths)[d] = Tally(depths, Winner(depths)[d - 1], d)
<1>1. VoteUpTo(depths) = Winner(depths)[H].sync
  BY DEF VoteUpTo, Winner, WinnersUpTo, Tally, NoWinner, H
<1>2. \E g : WinnersUpTo(depths, g, H)
  <2>1. H + 1 \in Nat /\ (H + 1) - 1 = H
    BY Sizes
  <2> QED
    BY <2>1, WinnersExist
<1>3. WinnersUpTo(depths, Winner(depths), H)
  BY <1>2 DEF Winner
<1> QED
  BY <1>1, <1>3, Sizes DEF WinnersUpTo

LEMMA VotesFact ==
  ASSUME NEW depths, NEW d
  PROVE  /\ Votes(depths, d) \in Nat
         /\ Votes(depths, d) = 0 <=> \A s \in Scenarios : depths[s] # d
<1> DEFINE V == {s \in Scenarios : depths[s] = d}
<1>1. IsFiniteSet(Scenarios)
  BY Sizes, FS_Interval DEF Scenarios
<1>2. IsFiniteSet(V)
  BY <1>1, FS_Subset
<1>3. Cardinality(V) \in Nat /\ (Cardinality(V) = 0 <=> V = {})
  BY <1>2, FS_CardinalityType, FS_EmptySet
<1> QED
  BY <1>3 DEF Votes

(* What the running winner is after the depths up to d, and in the end.    *)
WinsUpTo(depths, w, d) ==
  \/ w = NoWinner /\ \A e \in 0..d : Votes(depths, e) = 0
  \/ /\ w.sync \in 0..d /\ w.votes = Votes(depths, w.sync) /\ w.votes > 0
     /\ \A e \in 0..d : \/ Votes(depths, e) < w.votes
                        \/ Votes(depths, e) = w.votes /\ e <= w.sync

LEMMA WinnerFact ==
  ASSUME NEW depths, NEW d \in 0..(H - 1)
  PROVE  WinsUpTo(depths, Winner(depths)[d], d)
<1> DEFINE W == Winner(depths)
           S == {k \in Nat : k <= H => WinsUpTo(depths, W[k - 1], k - 1)}
<1>1. 0 \in S
  BY WinnerDef DEF WinsUpTo
<1>2. \A k \in Nat : k \in S => k + 1 \in S
  <2> SUFFICES ASSUME NEW k \in Nat, k + 1 <= H, WinsUpTo(depths, W[k - 1], k - 1)
               PROVE  WinsUpTo(depths, W[k], k)
    BY Sizes
  <2> DEFINE w == W[k - 1]
             n == Votes(depths, k)
  <2>1. W[k] = IF n = 0 THEN w ELSE IF n >= w.votes THEN [sync |-> k, votes |-> n] ELSE w
    BY WinnerDef, Sizes DEF Tally, H
  <2>2. n \in Nat /\ \A e \in 0..k : Votes(depths, e) \in Nat
    BY VotesFact
  <2> HIDE DEF W
  <2>3. \A e \in 0..k : e \in 0..(k - 1) \/ e = k
    OBVIOUS
  <2>4. CASE w = NoWinner /\ \A e \in 0..(k - 1) : Votes(depths, e) = 0
    BY <2>1, <2>2, <2>3, <2>4 DEF WinsUpTo, NoWinner
  <2>5. CASE ~(w = NoWinner /\ \A e \in 0..(k - 1) : Votes(depths, e) = 0)
    <3>1. /\ w.sync \in 0..(k - 1) /\ w.votes = Votes(depths, w.sync) /\ w.votes > 0
          /\ \A e \in 0..(k - 1) : \/ Votes(depths, e) < w.votes
                                   \/ Votes(depths, e) = w.votes /\ e <= w.sync
      BY <2>5 DEF WinsUpTo
    <3>2. w.votes \in Nat /\ w.sync \in 0..k
      BY <2>2, <3>1
    <3>3. CASE n = 0 \/ n < w.votes
      <4>1. W[k] = w
        BY <2>1, <2>2, <3>2, <3>3
      <4> QED
        BY <2>2, <2>3, <3>1, <3>2, <3>3, <4>1 DEF WinsUpTo
    <3>4. CASE n # 0 /\ ~(n < w.votes)
      <4>1. W[k] = [sync |-> k, votes |-> n]
        BY <2>1, <2>2, <3>2, <3>4
      <4> QED
        BY <2>2, <2>3, <3>1, <3>2, <3>4, <4>1 DEF WinsUpTo
    <3> QED
      BY <2>2, <3>2, <3>3, <3>4
  <2> QED
    BY <2>4, <2>5
<1> HIDE DEF S
<1>3. \A k \in Nat : k \in S
  BY <1>1, <1>2, SetInduction
<1>4. d + 1 \in Nat /\ d + 1 <= H /\ (d + 1) - 1 = d
  BY Sizes
<1>5. d + 1 \in S
  BY <1>3, <1>4
<1> QED
  BY <1>4, <1>5 DEF S

(* The synchronisation depth is some scenario's; if one of them is above   *)
(* the leaf layer, so is it, and it has the most votes there.              *)
LEMMA VoteFact ==
  ASSUME NEW depths \in [Scenarios -> 0..H]
  PROVE  LET t == VoteUpTo(depths) IN
         /\ t \in 0..H /\ Votes(depths, t) > 0
         /\ (\E s \in Scenarios : depths[s] < H) =>
              /\ t < H
              /\ \A d \in 0..(H - 1) :
                   /\ Votes(depths, d) <= Votes(depths, t)
                   /\ Votes(depths, d) = Votes(depths, t) => d <= t
<1> DEFINE W == Winner(depths)
           w == W[H - 1]
           n == Votes(depths, H)
<1>1. VoteUpTo(depths) = W[H].sync
  BY WinnerDef
<1>2. W[H] = IF n = 0 \/ w.votes # -1 THEN w
             ELSE IF n >= w.votes THEN [sync |-> H, votes |-> n] ELSE w
  BY WinnerDef, Sizes DEF Tally, H
<1>3. WinsUpTo(depths, w, H - 1)
  BY WinnerFact, Sizes
<1>4. n \in Nat /\ \A e \in 0..H : Votes(depths, e) \in Nat
  BY VotesFact
<1>5. PICK s \in Scenarios : depths[s] \in 0..H
  BY Sizes DEF Scenarios
<1>6. Votes(depths, depths[s]) # 0
  BY <1>5, VotesFact
<1> HIDE DEF W
<1>7. CASE w = NoWinner /\ \A e \in 0..(H - 1) : Votes(depths, e) = 0
  <2>1. \A r \in Scenarios : ~(depths[r] < H)
    <3> SUFFICES ASSUME NEW r \in Scenarios, depths[r] < H PROVE FALSE
      OBVIOUS
    <3>1. depths[r] \in 0..(H - 1)
      BY Sizes
    <3> QED
      BY <1>7, <3>1, VotesFact
  <2>2. depths[s] = H /\ n # 0
    BY <1>5, <1>6, <2>1, Sizes
  <2>3. W[H].sync = H
    BY <1>2, <1>4, <1>7, <2>2 DEF NoWinner
  <2> QED
    BY <1>1, <1>4, <2>1, <2>2, <2>3, Sizes
<1>8. CASE ~(w = NoWinner /\ \A e \in 0..(H - 1) : Votes(depths, e) = 0)
  <2>1. /\ w.sync \in 0..(H - 1) /\ w.votes = Votes(depths, w.sync) /\ w.votes > 0
        /\ \A e \in 0..(H - 1) : \/ Votes(depths, e) < w.votes
                                 \/ Votes(depths, e) = w.votes /\ e <= w.sync
    BY <1>3, <1>8 DEF WinsUpTo
  <2>2. w.votes \in Nat /\ w.sync \in 0..H /\ w.sync < H
    BY <1>4, <2>1, Sizes
  <2>3. W[H] = w
    BY <1>2, <2>1, <2>2
  <2>4. VoteUpTo(depths) = w.sync
    BY <1>1, <2>3
  <2>5. \A d \in 0..(H - 1) : /\ Votes(depths, d) <= Votes(depths, w.sync)
                              /\ Votes(depths, d) = Votes(depths, w.sync) => d <= w.sync
    <3> TAKE d \in 0..(H - 1)
    <3>1. Votes(depths, d) \in Nat
      BY VotesFact
    <3> QED
      BY <2>1, <2>2, <3>1
  <2> QED
    BY <2>1, <2>2, <2>4, <2>5
<1> QED
  BY <1>7, <1>8

-----------------------------------------------------------------------------
(* Type correctness.  A climb never stands on the root, so it has a parent *)
(* to go to.                                                               *)
SelType == [Scenarios -> [node : Nodes, action : Actions]]

TypeInv ==
  /\ TypeOK
  /\ cands = [s \in Scenarios |-> cands[s]]
  /\ pc = "backup" => cur # 0

TreeTypes ==
  /\ visited \in [Scenarios -> SUBSET Nodes]
  /\ active \in [Scenarios -> [Nodes -> BOOLEAN]]
  /\ at \in [Scenarios -> [Nodes -> Actions]]
  /\ curr_action \in [Scenarios -> [Nodes -> Actions]]
  /\ lo \in [Scenarios -> [Nodes -> 0..Far]]
  /\ hi \in [Scenarios -> [Nodes -> -1..TreeHeight]]

CandTypes ==
  /\ cands = [s \in Scenarios |-> cands[s]]
  /\ \A s \in Scenarios :
       /\ DOMAIN cands[s] \subseteq Nodes
       /\ \A n \in DOMAIN cands[s] : cands[s][n] \in Seq(Actions)

ControlTypes ==
  /\ pc \in {"idle", "loop", "probe", "realign", "expand", "backup"}
  /\ iter \in 0..MaxIters /\ lane \in Scenarios /\ cur \in Nodes
  /\ sel \in SelType
  /\ target \in -1..TreeHeight
  /\ repeated \in BOOLEAN /\ round \in 0..MaxRounds
  /\ pc = "backup" => cur # 0

LEMMA TypeParts ==
  /\ TypeInv <=> (TreeTypes /\ CandTypes /\ ControlTypes)
  /\ TypeInv' <=> (TreeTypes' /\ CandTypes' /\ ControlTypes')
BY DEF TypeInv, TypeOK, TreeTypes, CandTypes, ControlTypes, SelType

LEMMA TreeTypesUnchanged == TreeTypes /\ UNCHANGED tree => TreeTypes'
BY DEF TreeTypes, tree

LEMMA Constants ==
  /\ 0 \in Scenarios /\ 0 \in Actions /\ 0 \in Nodes
  /\ Scenarios \subseteq Nat /\ Actions \subseteq Nat
  /\ RootActions \subseteq Actions
  /\ \A b \in Actions : Transitions[b] \in Seq(Actions)
BY StaticAssumption, NodesFact DEF Scenarios, Actions

LEMMA Bounds == MaxIters \in Nat /\ MaxRounds \in Nat /\ TreeHeight \in Nat \ {0}
BY StaticAssumption

LEMMA NoSelectionType == NoSelection \in SelType
BY Constants DEF NoSelection, SelType

LEMMA CandidatesType ==
  ASSUME TypeInv, NEW s \in Scenarios, NEW n \in Nodes
  PROVE  /\ CandidatesOf(s, n) \in Seq(Actions)
         /\ Unvisited(s, n) \subseteq 1..Len(CandidatesOf(s, n))
         /\ \A i \in 1..Len(CandidatesOf(s, n)) : CandidatesOf(s, n)[i] \in Actions
<1>1. CandidatesOf(s, n) \in Seq(Actions)
  <2>1. at[s][n] \in Actions
    BY DEF TypeInv, TypeOK
  <2> QED
    BY <2>1, Constants DEF TypeInv, TypeOK, CandidatesOf
<1> QED
  BY <1>1 DEF Unvisited

LEMMA CacheType ==
  ASSUME TypeInv, NEW s \in Scenarios, NEW n \in Nodes, Cache(s, n)
  PROVE  CandTypes'
<1> DEFINE new == [m \in DOMAIN cands[s] \union {n} |-> CandidatesOf(s, m)]
<1>1. cands' = [r \in Scenarios |-> IF r = s THEN new ELSE cands[r]]
  BY DEF TypeInv, Cache
<1>2. DOMAIN cands[s] \subseteq Nodes
  BY DEF TypeInv, TypeOK
<1>3. \A m \in DOMAIN new : m \in Nodes /\ new[m] \in Seq(Actions)
  BY <1>2, CandidatesType
<1> QED
  BY <1>1, <1>3 DEF CandTypes, TypeInv, TypeOK

(* Where a descent stops the selection is well formed.                     *)
LEMMA StopActionType ==
  ASSUME TypeInv, NEW s \in Scenarios, NEW n \in Nodes, Stops(s, n)
  PROVE  /\ StopAction(s, n) \in Actions
         /\ StopsAtItself(s, n) => StopAction(s, n) = curr_action[s][n]
         /\ ~StopsAtItself(s, n) =>
              /\ Child(n, StopAction(s, n)) \notin visited[s]
              /\ \E i \in 1..Len(CandidatesOf(s, n)) : StopAction(s, n) = CandidatesOf(s, n)[i]
<1>1. CASE StopsAtItself(s, n)
  BY <1>1 DEF StopAction, TypeInv, TypeOK
<1>2. CASE ~StopsAtItself(s, n)
  <2>1. Unvisited(s, n) # {} /\ Unvisited(s, n) \subseteq 1..Len(CandidatesOf(s, n))
    BY <1>2, CandidatesType DEF Stops
  <2>2. Unvisited(s, n) \in SUBSET Int /\ \A i \in Unvisited(s, n) : 1 <= i
    BY <2>1, CandidatesType
  <2>3. Min(Unvisited(s, n)) \in Unvisited(s, n)
    BY <2>1, <2>2, MinFact
  <2> DEFINE i == Min(Unvisited(s, n))
  <2> HIDE DEF i
  <2>4. i \in 1..Len(CandidatesOf(s, n)) /\ Child(n, CandidatesOf(s, n)[i]) \notin visited[s]
    BY <2>3 DEF Unvisited, i
  <2>5. StopAction(s, n) = CandidatesOf(s, n)[i]
    BY <1>2 DEF StopAction, i
  <2> QED
    BY <1>2, <2>4, <2>5, CandidatesType
<1> QED
  BY <1>1, <1>2

LEMMA DepthType == ASSUME NEW n \in Nodes PROVE Depth[n] \in 0..H
BY HeapLayout

LEMMA LeastScenario ==
  ASSUME NEW R \in SUBSET Scenarios, R # {}
  PROVE  Min(R) \in R
<1>1. R \in SUBSET Int /\ \A x \in R : 0 <= x
  BY Constants
<1> QED
  BY <1>1, MinFact

LEMMA NextLaneType ==
  ASSUME TypeInv, NextLane
  PROVE  /\ pc' \in {"expand", "loop"} /\ lane' \in Scenarios
         /\ sel' \in SelType
         /\ target' \in -1..TreeHeight
<1>1. lane \in Scenarios /\ sel \in SelType /\ target \in -1..TreeHeight
  BY TypeParts DEF ControlTypes
<1>2. -1 \in -1..TreeHeight
  BY Bounds
<1>3. CASE lane < NumScenarios - 1
  <2>1. lane + 1 \in Scenarios
    BY <1>1, <1>3, Sizes DEF Scenarios
  <2> QED
    BY <1>1, <1>3, <2>1 DEF NextLane
<1>4. CASE ~(lane < NumScenarios - 1)
  BY <1>2, <1>4, Constants, NoSelectionType DEF NextLane
<1> QED
  BY <1>3, <1>4

LEMMA InitType == Init => TypeInv
<1> SUFFICES ASSUME Init PROVE TypeInv
  OBVIOUS
<1>1. TreeTypes
  BY Constants, Bounds DEF Init, TreeTypes, PerNode, Unreached, Far
<1>2. CandTypes
  BY DEF Init, CandTypes
<1>3. ControlTypes
  BY Constants, Bounds, NoSelectionType DEF Init, ControlTypes
<1> QED
  BY <1>1, <1>2, <1>3, TypeParts

LEMMA BeginSearchType == TypeInv /\ BeginSearch => TypeInv'
<1> SUFFICES ASSUME TypeInv, BeginSearch PROVE TypeInv'
  OBVIOUS
<1>1. TreeTypes'
  <2>1. PICK root \in RootActions :
          /\ at' = [s \in Scenarios |-> [at[s] EXCEPT ![0] = root]]
          /\ curr_action' = [s \in Scenarios |-> [curr_action[s] EXCEPT ![0] = root]]
    BY DEF BeginSearch
  <2>2. root \in Actions
    BY Constants
  <2>3. at' \in [Scenarios -> [Nodes -> Actions]] /\ curr_action' \in [Scenarios -> [Nodes -> Actions]]
    BY <2>1, <2>2, TypeParts DEF TreeTypes
  <2>4. lo' \in [Scenarios -> [Nodes -> 0..Far]] /\ hi' \in [Scenarios -> [Nodes -> -1..TreeHeight]]
    BY Bounds DEF BeginSearch, PerNode, Unreached, Far
  <2> QED
    BY <2>3, <2>4, TypeParts DEF BeginSearch, TreeTypes
<1>2. CandTypes'
  BY DEF BeginSearch, ClearCandidates, CandTypes
<1>3. ControlTypes'
  BY TypeParts, Bounds DEF BeginSearch, ControlTypes
<1> QED
  BY <1>1, <1>2, <1>3, TypeParts

LEMMA LoopType == TypeInv /\ (EndSearch \/ BeginIteration) => TypeInv'
<1> SUFFICES ASSUME TypeInv, EndSearch \/ BeginIteration PROVE TypeInv'
  OBVIOUS
<1>1. TreeTypes'
  BY TypeParts, TreeTypesUnchanged DEF EndSearch, BeginIteration
<1>2. CandTypes'
  BY TypeParts DEF EndSearch, BeginIteration, CandTypes
<1>3. ControlTypes'
  BY TypeParts, Bounds DEF EndSearch, BeginIteration, ControlTypes
<1> QED
  BY <1>1, <1>2, <1>3, TypeParts

(* The vote is taken when every scenario has its selection, and somebody   *)
(* is at another depth than the one it chooses.                            *)
LEMMA StartPhaseType ==
  ASSUME sel' \in SelType, target \in -1..TreeHeight,
         StartPhase(\A s, r \in Scenarios : Depth[sel'[s].node] = Depth[sel'[r].node])
  PROVE  /\ pc' \in {"expand", "realign"} /\ lane' \in Scenarios
         /\ target' \in -1..TreeHeight
         /\ pc' = "expand" => lane' = 0
<1> DEFINE depths == [s \in Scenarios |-> Depth[sel'[s].node]]
<1>1. depths \in [Scenarios -> 0..H]
  BY DepthType DEF SelType
<1>2. CASE \A s, r \in Scenarios : Depth[sel'[s].node] = Depth[sel'[r].node]
  BY <1>2, Constants DEF StartPhase
<1>3. CASE ~(\A s, r \in Scenarios : Depth[sel'[s].node] = Depth[sel'[r].node])
  <2>1. target' = VoteUpTo(depths) /\ pc' = "realign"
        /\ lane' = Min({s \in Scenarios : Mismatched(s)})
    BY <1>3 DEF StartPhase
  <2>2. target' \in 0..H
    BY <1>1, <2>1, VoteFact
  <2>3. {s \in Scenarios : Mismatched(s)} # {}
    BY <1>3 DEF Mismatched
  <2>4. lane' \in Scenarios
    BY <2>1, <2>3, LeastScenario
  <2> QED
    BY <2>1, <2>2, <2>4, Sizes DEF H
<1> QED
  BY <1>2, <1>3

LEMMA StopType == TypeInv /\ Stop => TypeInv'
<1> SUFFICES ASSUME TypeInv, Stop PROVE TypeInv'
  OBVIOUS
<1>1. lane \in Scenarios /\ cur \in Nodes /\ target \in -1..TreeHeight
  BY DEF TypeInv, TypeOK
<1>2. TreeTypes'
  BY TypeParts, TreeTypesUnchanged DEF Stop
<1>3. CandTypes'
  <2>1. CASE UNCHANGED cands
    BY <2>1, TypeParts DEF CandTypes
  <2>2. CASE Cache(lane, cur)
    BY <1>1, <2>2, CacheType
  <2> QED
    BY <2>1, <2>2 DEF Stop
<1>4. sel' \in SelType
  <2>1. StopAction(lane, cur) \in Actions
    BY <1>1, StopActionType DEF Stop
  <2> QED
    BY <1>1, <2>1, TypeParts DEF Stop, ControlTypes, SelType
<1>5. /\ pc' \in {"probe", "realign", "expand"} /\ lane' \in Scenarios
      /\ target' \in -1..TreeHeight
  <2>1. CASE pc = "probe"
    <3>1. CASE lane < NumScenarios - 1
      <4>1. lane + 1 \in Scenarios
        BY <1>1, <3>1, Sizes DEF Scenarios
      <4> QED
        BY <1>1, <2>1, <3>1, <4>1 DEF Stop, AfterProbe
    <3>2. CASE ~(lane < NumScenarios - 1)
      <4>1. StartPhase(\A s, r \in Scenarios : Depth[sel'[s].node] = Depth[sel'[r].node])
        BY <2>1, <3>2 DEF Stop, AfterProbe
      <4> QED
        BY <1>1, <1>4, <4>1, StartPhaseType
    <3> QED
      BY <3>1, <3>2
  <2>2. CASE pc # "probe"
    <3>1. AfterRealign /\ pc = "realign"
      BY <2>2 DEF Stop
    <3> DEFINE rest == {s \in Scenarios : s > lane /\ Depth[sel[s].node] # target}
    <3>2. CASE rest = {}
      BY <1>1, <3>1, <3>2, Constants DEF AfterRealign
    <3>3. CASE rest # {}
      <4>1. Min(rest) \in rest
        BY <3>3, LeastScenario
      <4> QED
        BY <1>1, <3>1, <3>3, <4>1 DEF AfterRealign
    <3> QED
      BY <3>2, <3>3
  <2> QED
    BY <2>1, <2>2
<1>6. ControlTypes'
  BY <1>4, <1>5, TypeParts, Constants DEF Stop, ControlTypes
<1> QED
  BY <1>2, <1>3, <1>6, TypeParts

LEMMA DescendType == TypeInv /\ Descend => TypeInv'
<1> SUFFICES ASSUME TypeInv, Descend PROVE TypeInv'
  OBVIOUS
<1>1. lane \in Scenarios /\ cur \in Nodes
  BY DEF TypeInv, TypeOK
<1>2. TreeTypes'
  BY TypeParts, TreeTypesUnchanged DEF Descend
<1>3. CandTypes'
  BY <1>1, CacheType DEF Descend
<1>4. cur' \in Nodes
  <2> DEFINE C == CandidatesOf(lane, cur)
             below == {Child(cur, C[i]) : i \in 1..Len(C)}
  <2>1. cur' \in (IF below = {} THEN {0} ELSE below)
    BY DEF Descend
  <2>2. CASE below = {}
    BY <2>1, <2>2, Constants
  <2>3. CASE below # {}
    <3>1. C \in Seq(Actions) /\ \A i \in 1..Len(C) : C[i] \in Actions
      BY <1>1, CandidatesType
    <3>2. PICK i \in 1..Len(C) : cur' = Child(cur, C[i])
      BY <2>1, <2>3
    <3>3. C # <<>>
      BY <3>1, <3>2
    <3>4. Depth[cur] # TreeHeight
      BY <3>3 DEF Descend, Stops, StopsAtItself
    <3>5. Depth[cur] < H
      BY <1>1, <3>4, DepthType, Sizes DEF H
    <3> QED
      BY <1>1, <3>1, <3>2, <3>5, HeapLayout
  <2> QED
    BY <2>2, <2>3
<1>5. ControlTypes'
  BY <1>4, TypeParts DEF Descend, ControlTypes
<1> QED
  BY <1>2, <1>3, <1>5, TypeParts

LEMMA ExpandLeafType == TypeInv /\ ExpandLeaf => TypeInv'
<1> SUFFICES ASSUME TypeInv, ExpandLeaf PROVE TypeInv'
  OBVIOUS
<1>1. lane \in Scenarios /\ sel[lane].node \in Nodes
  BY TypeParts DEF ControlTypes, SelType
<1>2. visited' = [visited EXCEPT ![lane] = @ \union {sel[lane].node, 0}]
  BY DEF ExpandLeaf, CountVisits
<1>3. TreeTypes'
  BY <1>1, <1>2, TypeParts, Constants DEF ExpandLeaf, TreeTypes
<1>4. CandTypes'
  BY TypeParts DEF ExpandLeaf, CandTypes
<1>5. ControlTypes'
  BY NextLaneType, TypeParts DEF ExpandLeaf, ControlTypes
<1> QED
  BY <1>3, <1>4, <1>5, TypeParts

LEMMA ExpandType == TypeInv /\ Expand => TypeInv'
<1> SUFFICES ASSUME TypeInv, Expand PROVE TypeInv'
  OBVIOUS
<1> DEFINE n   == sel[lane].node
           a   == sel[lane].action
           c   == Child(n, a)
           out == IF active[lane][n] THEN Step[lane, at[lane][n], a]
                  ELSE [at |-> at[lane][n], active |-> FALSE]
<1>1. lane \in Scenarios /\ n \in Nodes /\ a \in Actions
  BY TypeParts DEF ControlTypes, SelType
<1>2. Depth[n] < H
  BY DEF Expand, H
<1>3. c \in Nodes \ {0} /\ Depth[c] \in 0..H
  BY <1>1, <1>2, HeapLayout
<1>4. at[lane][n] \in Actions
  BY <1>1, TypeParts DEF TreeTypes
<1>5. out.at \in Actions /\ out.active \in BOOLEAN
  <2>1. Step[lane, at[lane][n], a] \in Outcome
    BY <1>1, <1>4, StaticAssumption
  <2> QED
    BY <1>4, <2>1 DEF Outcome
<1>6. /\ repeated' = (repeated \/ c \in visited[lane])
      /\ active' = [active EXCEPT ![lane][c] = out.active]
      /\ at' = [at EXCEPT ![lane][c] = out.at]
      /\ curr_action' = [curr_action EXCEPT ![lane][c] = a]
      /\ visited' = [visited EXCEPT ![lane] = @ \union {c, 0}]
      /\ lo' = [lo EXCEPT ![lane][c] = Depth[c]]
      /\ hi' = [hi EXCEPT ![lane][c] = Depth[c]]
      /\ cur' = c /\ pc' = "backup"
      /\ UNCHANGED <<cands, iter, lane, sel, target, round>>
  BY DEF Expand, CountVisits
<1> HIDE DEF n, a, c, out
<1>7. Depth[c] \in 0..Far /\ Depth[c] \in -1..TreeHeight
  BY <1>3, Sizes DEF H, Far
<1>8. TreeTypes'
  <2>1. active' \in [Scenarios -> [Nodes -> BOOLEAN]]
    BY <1>1, <1>3, <1>5, <1>6, TypeParts DEF TreeTypes
  <2>2. at' \in [Scenarios -> [Nodes -> Actions]]
    BY <1>1, <1>3, <1>5, <1>6, TypeParts DEF TreeTypes
  <2>3. curr_action' \in [Scenarios -> [Nodes -> Actions]]
    BY <1>1, <1>3, <1>6, TypeParts DEF TreeTypes
  <2>4. visited' \in [Scenarios -> SUBSET Nodes]
    BY <1>1, <1>3, <1>6, TypeParts, Constants DEF TreeTypes
  <2>5. lo' \in [Scenarios -> [Nodes -> 0..Far]]
    BY <1>1, <1>3, <1>6, <1>7, TypeParts DEF TreeTypes
  <2>6. hi' \in [Scenarios -> [Nodes -> -1..TreeHeight]]
    BY <1>1, <1>3, <1>6, <1>7, TypeParts DEF TreeTypes
  <2> QED
    BY <2>1, <2>2, <2>3, <2>4, <2>5, <2>6 DEF TreeTypes
<1>9. CandTypes'
  BY <1>6, TypeParts DEF CandTypes
<1>10. ControlTypes'
  <2>1. repeated' \in BOOLEAN
    BY <1>6
  <2> QED
    BY <1>3, <1>6, <2>1, TypeParts DEF ControlTypes
<1> QED
  BY <1>8, <1>9, <1>10, TypeParts

(* The interval of a node above the last layer, whatever the children's.   *)
LEMMA IntervalType ==
  ASSUME TypeInv, NEW s \in Scenarios, NEW p \in Nodes, Depth[p] < H
  PROVE  NewLo(s, p) \in 0..Far /\ NewHi(s, p) \in -1..TreeHeight
<1>1. \A c \in Children(p) : c \in Nodes
  BY HeapLayout DEF Children
<1>2. Children(p) # {}
  BY Constants DEF Children
<1>3. /\ \A c \in Children(p) : lo[s][c] \in 0..Far /\ hi[s][c] \in -1..TreeHeight
      /\ Depth[p] \in 0..H
  BY <1>1, TypeParts, DepthType DEF TreeTypes
<1> DEFINE own == IF Unvisited(s, p) # {} THEN {Depth[p]} ELSE {}
           los == {IF active[s][c] THEN lo[s][c] ELSE Far : c \in Children(p)} \union own
           his == {IF active[s][c] THEN hi[s][c] ELSE 0 : c \in Children(p)} \union own
<1>4. own \subseteq 0..H
  BY <1>3
<1> HIDE DEF own
<1>5. los \subseteq 0..Far /\ los # {}
  <2> DEFINE val(c) == IF active[s][c] THEN lo[s][c] ELSE Far
  <2>1. \A c \in Children(p) : val(c) \in 0..Far
    BY <1>3, Sizes DEF H, Far
  <2>2. 0..H \subseteq 0..Far
    BY Sizes DEF H, Far
  <2> HIDE DEF val
  <2>3. {val(c) : c \in Children(p)} \subseteq 0..Far /\ {val(c) : c \in Children(p)} # {}
    BY <1>2, <2>1
  <2>4. los = {val(c) : c \in Children(p)} \union own
    BY DEF val
  <2> QED
    BY <1>4, <2>2, <2>3, <2>4
<1>6. his \subseteq -1..TreeHeight /\ his # {}
  <2> DEFINE val(c) == IF active[s][c] THEN hi[s][c] ELSE 0
  <2>1. \A c \in Children(p) : val(c) \in -1..TreeHeight
    BY <1>3, Sizes DEF H
  <2>2. 0..H \subseteq -1..TreeHeight
    BY Sizes DEF H
  <2> HIDE DEF val
  <2>3. {val(c) : c \in Children(p)} \subseteq -1..TreeHeight /\ {val(c) : c \in Children(p)} # {}
    BY <1>2, <2>1
  <2>4. his = {val(c) : c \in Children(p)} \union own
    BY DEF val
  <2> QED
    BY <1>4, <2>2, <2>3, <2>4
<1> HIDE DEF los, his
<1>7. los \in SUBSET Int /\ (\A x \in los : 0 <= x)
  BY <1>5
<1>8. his \in SUBSET Int /\ (\A x \in his : x <= TreeHeight) /\ TreeHeight \in Int
  BY <1>6, Bounds
<1>9. Min(los) \in los
  BY <1>5, <1>7, MinFact
<1>10. Max(his) \in his
  BY <1>6, <1>8, MaxFact
<1>11. NewLo(s, p) = Min(los) /\ NewHi(s, p) = Max(his)
  BY DEF NewLo, NewHi, los, his, own
<1> QED
  BY <1>5, <1>6, <1>9, <1>10, <1>11

LEMMA ParentAbove ==
  ASSUME NEW n \in Nodes, n # 0
  PROVE  Parent(n) \in Nodes /\ Depth[Parent(n)] < H
<1>1. Parent(n) \in Nodes /\ Depth[n] = Depth[Parent(n)] + 1 /\ Depth[n] \in 0..H
  BY HeapLayout
<1>2. Depth[Parent(n)] \in 0..H
  BY <1>1, DepthType
<1> QED
  BY <1>1, <1>2, Sizes

LEMMA BackupLevelType == TypeInv /\ BackupLevel => TypeInv'
<1> SUFFICES ASSUME TypeInv, BackupLevel PROVE TypeInv'
  OBVIOUS
<1> DEFINE p == Parent(cur)
<1>1. lane \in Scenarios /\ cur \in Nodes /\ cur # 0
  BY TypeParts DEF ControlTypes, BackupLevel
<1>2. p \in Nodes /\ Depth[p] < H
  BY <1>1, ParentAbove
<1>3. /\ Cache(lane, p)
      /\ lo' = [lo EXCEPT ![lane][p] = NewLo(lane, p)]
      /\ hi' = [hi EXCEPT ![lane][p] = NewHi(lane, p)]
      /\ \/ p = 0 /\ NextLane /\ cur' = 0
         \/ NextLane /\ cur' = 0
         \/ p # 0 /\ cur' = p /\ UNCHANGED <<pc, lane, sel, target>>
      /\ UNCHANGED <<visited, active, at, curr_action, iter, repeated, round>>
  BY DEF BackupLevel
<1> HIDE DEF p
<1>4. NewLo(lane, p) \in 0..Far /\ NewHi(lane, p) \in -1..TreeHeight
  BY <1>1, <1>2, IntervalType
<1>5. TreeTypes'
  <2>1. lo' \in [Scenarios -> [Nodes -> 0..Far]]
    BY <1>1, <1>2, <1>3, <1>4, TypeParts DEF TreeTypes
  <2>2. hi' \in [Scenarios -> [Nodes -> -1..TreeHeight]]
    BY <1>1, <1>2, <1>3, <1>4, TypeParts DEF TreeTypes
  <2> QED
    BY <1>3, <2>1, <2>2, TypeParts DEF TreeTypes
<1>6. CandTypes'
  BY <1>1, <1>2, <1>3, CacheType
<1>7. ControlTypes'
  <2>1. CASE NextLane /\ cur' = 0
    BY <1>3, <2>1, NextLaneType, Constants, TypeParts DEF ControlTypes
  <2>2. CASE p # 0 /\ cur' = p /\ UNCHANGED <<pc, lane, sel, target>>
    BY <1>2, <1>3, <2>2, TypeParts DEF ControlTypes
  <2> QED
    BY <1>3, <2>1, <2>2
<1> QED
  BY <1>5, <1>6, <1>7, TypeParts

LEMMA TypeStep == TypeInv /\ [Next]_vars => TypeInv'
<1> SUFFICES ASSUME TypeInv, [Next]_vars PROVE TypeInv'
  OBVIOUS
<1>1. CASE Next
  BY <1>1, BeginSearchType, LoopType, StopType, DescendType, ExpandLeafType, ExpandType,
     BackupLevelType DEF Next, Work
<1>2. CASE UNCHANGED vars
  BY <1>2 DEF vars, tree, control, TypeInv, TypeOK
<1> QED
  BY <1>1, <1>2

(* Every index a search computes lies in the arrays allocated for it, the  *)
(* voted depth is a depth, and the depth intervals stay in range.          *)
THEOREM TypeCorrect == Spec => []TypeOK
<1>1. TypeInv => TypeOK
  BY DEF TypeInv
<1> QED
  BY InitType, TypeStep, <1>1, PTL DEF Spec

-----------------------------------------------------------------------------
(* What is visited and cached.  A visited node's parent has been visited,  *)
(* the root included; lists are cached for visited nodes only, and a       *)
(* node's state is not written again once it is visited.                   *)
TreeSound ==
  \A s \in Scenarios :
    /\ DOMAIN cands[s] \subseteq visited[s]
    /\ \A n \in DOMAIN cands[s] : cands[s][n] = Transitions[at[s][n]]
    /\ \A n \in visited[s] : 0 \in visited[s] /\ (n # 0 => Parent(n) \in visited[s])

(* Where a descent or a climb may stand.                                   *)
Standing ==
  /\ pc \in {"idle", "loop"} => lane = 0
  /\ pc \in {"idle", "loop", "expand"} => cur = 0
  /\ pc \in {"probe", "realign"} => cur = 0 \/ cur \in visited[lane]
  /\ pc = "backup" => cur \in visited[lane] /\ cur # 0

(* The selection of a scenario leads to a child nobody has expanded, by an *)
(* action its node offers, from the moment it is made to its expansion.    *)
Offered(s, n, a) ==
  \/ n = 0 /\ a = curr_action[s][0]
  \/ \E i \in 1..Len(Transitions[at[s][n]]) : a = Transitions[at[s][n]][i]

Chosen(s) ==
  /\ sel[s].node = 0 \/ sel[s].node \in visited[s]
  /\ \/ Depth[sel[s].node] = TreeHeight
     \/ /\ Child(sel[s].node, sel[s].action) \notin visited[s]
        /\ Offered(s, sel[s].node, sel[s].action)

Selected ==
  /\ pc = "probe" => \A s \in Scenarios : s < lane => Chosen(s)
  /\ pc = "realign" => \A s \in Scenarios : Chosen(s)
  /\ pc = "expand" => \A s \in Scenarios : lane <= s => Chosen(s)
  /\ pc = "backup" => \A s \in Scenarios : lane < s => Chosen(s)

SearchInv == TypeInv /\ TreeSound /\ Standing /\ Selected /\ repeated = FALSE

LEMMA ChosenKept ==
  ASSUME NEW s \in Scenarios, Chosen(s), visited'[s] = visited[s], sel'[s] = sel[s],
         at'[s] = at[s], curr_action'[s] = curr_action[s]
  PROVE  Chosen(s)'
BY DEF Chosen, Offered

LEMMA CandidatesAre ==
  ASSUME TreeSound, NEW s \in Scenarios, NEW n
  PROVE  CandidatesOf(s, n) = Transitions[at[s][n]]
BY DEF TreeSound, CandidatesOf

LEMMA LaneTypes == TypeInv => lane \in Scenarios /\ cur \in Nodes /\ \A s \in Scenarios : s \in Nat
BY Constants DEF TypeInv, TypeOK

LEMMA TreeSoundKept == TreeSound /\ UNCHANGED <<visited, at, cands>> => TreeSound'
BY DEF TreeSound

LEMMA CacheSound ==
  ASSUME TypeInv, TreeSound, NEW s \in Scenarios, NEW n \in visited[s],
         Cache(s, n), UNCHANGED <<visited, at>>
  PROVE  TreeSound'
<1> DEFINE new == [m \in DOMAIN cands[s] \union {n} |-> CandidatesOf(s, m)]
<1>1. cands' = [r \in Scenarios |-> IF r = s THEN new ELSE cands[r]]
  BY DEF TypeInv, Cache
<1>2. DOMAIN new \subseteq visited[s]
  BY DEF TreeSound
<1>3. \A m \in DOMAIN new : new[m] = Transitions[at[s][m]]
  BY DEF TreeSound, CandidatesOf
<1> HIDE DEF new
<1> QED
  BY <1>1, <1>2, <1>3 DEF TreeSound

LEMMA InitSearch == Init => SearchInv
<1> SUFFICES ASSUME Init PROVE SearchInv
  OBVIOUS
<1>1. TreeSound /\ Standing /\ Selected /\ repeated = FALSE
  BY DEF Init, TreeSound, Standing, Selected
<1> QED
  BY <1>1, InitType DEF SearchInv

LEMMA BeginSearchSound == SearchInv /\ BeginSearch => TreeSound' /\ Standing' /\ Selected' /\ repeated' = FALSE
<1> SUFFICES ASSUME SearchInv, BeginSearch PROVE TreeSound' /\ Standing' /\ Selected' /\ repeated' = FALSE
  OBVIOUS
<1>1. TreeSound'
  BY DEF BeginSearch, ClearCandidates, TreeSound
<1>2. Standing' /\ Selected' /\ repeated' = FALSE
  BY DEF BeginSearch, SearchInv, Standing, Selected
<1> QED
  BY <1>1, <1>2

LEMMA LoopSound ==
  SearchInv /\ (EndSearch \/ BeginIteration) => TreeSound' /\ Standing' /\ Selected' /\ repeated' = FALSE
<1> SUFFICES ASSUME SearchInv, EndSearch \/ BeginIteration
             PROVE  TreeSound' /\ Standing' /\ Selected' /\ repeated' = FALSE
  OBVIOUS
<1>1. TreeSound'
  BY TreeSoundKept DEF EndSearch, BeginIteration, SearchInv, tree
<1>2. lane = 0 /\ \A s \in Scenarios : ~(s < 0)
  BY Constants DEF EndSearch, BeginIteration, SearchInv, Standing
<1>3. Standing' /\ Selected' /\ repeated' = FALSE
  BY <1>2 DEF EndSearch, BeginIteration, SearchInv, Standing, Selected
<1> QED
  BY <1>1, <1>3

LEMMA StopSound ==
  SearchInv /\ Stop => TreeSound' /\ Standing' /\ Selected' /\ repeated' = FALSE
<1> SUFFICES ASSUME SearchInv, Stop
             PROVE  TreeSound' /\ Standing' /\ Selected' /\ repeated' = FALSE
  OBVIOUS
<1>1. /\ TypeInv /\ TreeSound /\ lane \in Scenarios /\ cur \in Nodes
      /\ cur = 0 \/ cur \in visited[lane]
      /\ pc \in {"probe", "realign"} /\ Stops(lane, cur)
      /\ UNCHANGED <<visited, at, curr_action, repeated>> /\ repeated = FALSE /\ cur' = 0
  BY LaneTypes DEF SearchInv, Standing, Stop, tree
<1>2. TreeSound'
  <2>1. CASE cur = 0 /\ 0 \notin visited[lane]
    BY <1>1, <2>1, TreeSoundKept DEF Stop
  <2>2. CASE ~(cur = 0 /\ 0 \notin visited[lane])
    BY <1>1, <2>2, CacheSound DEF Stop
  <2> QED
    BY <2>1, <2>2
<1>3. sel' = [s \in Scenarios |->
                IF s = lane THEN [node |-> cur, action |-> StopAction(lane, cur)] ELSE sel[s]]
  BY <1>1, TypeParts DEF Stop, ControlTypes, SelType
<1>4. \A s \in Scenarios : s = lane => Chosen(s)'
  <2>1. \/ Depth[cur] = TreeHeight
        \/ /\ Child(cur, StopAction(lane, cur)) \notin visited[lane]
           /\ Offered(lane, cur, StopAction(lane, cur))
    <3>1. CASE StopsAtItself(lane, cur) /\ cur = 0 /\ 0 \notin visited[lane]
      <4>1. Child(cur, StopAction(lane, cur)) \notin visited[lane]
        BY <1>1, <3>1 DEF TreeSound
      <4>2. Offered(lane, cur, StopAction(lane, cur))
        BY <1>1, <3>1, StopActionType DEF Offered
      <4> QED
        BY <4>1, <4>2
    <3>2. CASE StopsAtItself(lane, cur) /\ ~(cur = 0 /\ 0 \notin visited[lane])
      BY <3>2 DEF StopsAtItself
    <3>3. CASE ~StopsAtItself(lane, cur)
      BY <1>1, <3>3, StopActionType, CandidatesAre DEF Offered
    <3> QED
      BY <3>1, <3>2, <3>3
  <2> QED
    BY <1>1, <1>3, <2>1 DEF Chosen, Offered
<1>5. \A s \in Scenarios : Chosen(s) => Chosen(s)'
  <2> SUFFICES ASSUME NEW s \in Scenarios, Chosen(s) PROVE Chosen(s)'
    OBVIOUS
  <2>1. CASE s = lane
    BY <1>4, <2>1
  <2>2. CASE s # lane
    <3>1. /\ visited'[s] = visited[s] /\ sel'[s] = sel[s]
          /\ at'[s] = at[s] /\ curr_action'[s] = curr_action[s]
      BY <1>1, <1>3, <2>2
    <3> QED
      BY <3>1, ChosenKept
  <2> QED
    BY <2>1, <2>2
<1>6. CASE pc = "probe" /\ lane < NumScenarios - 1
  <2>1. pc' = "probe" /\ lane' = lane + 1
    BY <1>6 DEF Stop, AfterProbe
  <2>2. \A s \in Scenarios : s < lane + 1 => s < lane \/ s = lane
    BY <1>1, Constants
  <2>3. \A s \in Scenarios : s < lane' => Chosen(s)'
    BY <1>4, <1>5, <1>6, <2>1, <2>2 DEF SearchInv, Selected
  <2> QED
    BY <1>1, <1>2, <2>1, <2>3 DEF Standing, Selected
<1>7. CASE ~(pc = "probe" /\ lane < NumScenarios - 1)
  <2>1. \A s \in Scenarios : Chosen(s)'
    <3>1. CASE pc = "realign"
      BY <1>4, <1>5, <3>1 DEF SearchInv, Selected
    <3>2. CASE pc = "probe"
      <4>1. \A s \in Scenarios : s < lane \/ s = lane
        BY <1>1, <1>7, <3>2, Sizes DEF Scenarios
      <4> QED
        BY <1>4, <1>5, <3>2, <4>1 DEF SearchInv, Selected
    <3> QED
      BY <1>1, <3>1, <3>2
  <2>2. pc' \in {"realign", "expand"}
    BY <1>1, <1>7 DEF Stop, AfterProbe, StartPhase, AfterRealign
  <2> QED
    BY <1>1, <1>2, <2>1, <2>2 DEF Standing, Selected
<1> QED
  BY <1>6, <1>7

LEMMA DescendSound ==
  SearchInv /\ Descend => TreeSound' /\ Standing' /\ Selected' /\ repeated' = FALSE
<1> SUFFICES ASSUME SearchInv, Descend
             PROVE  TreeSound' /\ Standing' /\ Selected' /\ repeated' = FALSE
  OBVIOUS
<1>1. /\ TypeInv /\ TreeSound /\ lane \in Scenarios /\ cur \in Nodes
      /\ cur = 0 \/ cur \in visited[lane]
      /\ pc \in {"probe", "realign"} /\ ~Stops(lane, cur) /\ Cache(lane, cur)
      /\ UNCHANGED <<visited, at, curr_action, repeated, pc, lane, sel>> /\ repeated = FALSE
  BY LaneTypes DEF SearchInv, Standing, Descend, tree
<1>2. cur \in visited[lane]
  BY <1>1 DEF Stops, StopsAtItself
<1>3. TreeSound'
  BY <1>1, <1>2, CacheSound
<1>4. cur' = 0 \/ cur' \in visited[lane]
  <2> DEFINE C == CandidatesOf(lane, cur)
             below == {Child(cur, C[i]) : i \in 1..Len(C)}
  <2>1. cur' \in (IF below = {} THEN {0} ELSE below)
    BY DEF Descend
  <2>2. below \subseteq visited[lane]
    BY <1>1 DEF Stops, Unvisited
  <2> QED
    BY <2>1, <2>2
<1>5. Standing'
  BY <1>1, <1>4 DEF Standing
<1>6. \A s \in Scenarios : Chosen(s) => Chosen(s)'
  BY <1>1, ChosenKept
<1>7. Selected'
  BY <1>1, <1>6 DEF SearchInv, Selected
<1> QED
  BY <1>1, <1>3, <1>5, <1>7

(* After a lane the later ones still have their selections.                *)
LEMMA NextLaneSound ==
  ASSUME TypeInv, NextLane, cur' = 0, UNCHANGED <<at, curr_action>>,
         NEW V, visited' = [visited EXCEPT ![lane] = V],
         \A s \in Scenarios : lane < s => Chosen(s)
  PROVE  Standing' /\ Selected'
<1>1. lane \in Scenarios /\ \A s \in Scenarios : s \in Nat
  BY LaneTypes
<1>2. CASE lane < NumScenarios - 1
  <2>1. pc' = "expand" /\ lane' = lane + 1 /\ sel' = sel
    BY <1>2 DEF NextLane
  <2>2. \A s \in Scenarios : lane + 1 <= s => lane < s /\ s # lane
    BY <1>1
  <2>3. \A s \in Scenarios : s # lane => visited'[s] = visited[s]
    BY TypeParts DEF TreeTypes
  <2>4. \A s \in Scenarios : lane + 1 <= s => Chosen(s)'
    BY <2>1, <2>2, <2>3, ChosenKept
  <2> QED
    BY <2>1, <2>4 DEF Standing, Selected
<1>3. CASE ~(lane < NumScenarios - 1)
  <2>1. pc' = "loop" /\ lane' = 0
    BY <1>3 DEF NextLane
  <2> QED
    BY <2>1 DEF Standing, Selected
<1> QED
  BY <1>2, <1>3

LEMMA ExpandLeafSound ==
  SearchInv /\ ExpandLeaf => TreeSound' /\ Standing' /\ Selected' /\ repeated' = FALSE
<1> SUFFICES ASSUME SearchInv, ExpandLeaf
             PROVE  TreeSound' /\ Standing' /\ Selected' /\ repeated' = FALSE
  OBVIOUS
<1> DEFINE n == sel[lane].node
           V == visited[lane] \union {n, 0}
<1>1. /\ TypeInv /\ TreeSound /\ lane \in Scenarios /\ cur = 0
      /\ UNCHANGED <<at, curr_action, cands, cur, repeated>> /\ repeated = FALSE
      /\ NextLane /\ visited' = [visited EXCEPT ![lane] = V]
      /\ \A s \in Scenarios : lane <= s => Chosen(s)
  BY LaneTypes DEF SearchInv, Standing, Selected, ExpandLeaf, CountVisits
<1>2. /\ n = 0 \/ n \in visited[lane]
      /\ \A s \in Scenarios : lane < s => Chosen(s)
  BY <1>1, LaneTypes DEF Chosen
<1>3. visited' = [s \in Scenarios |-> IF s = lane THEN V ELSE visited[s]]
  BY <1>1, TypeParts DEF TreeTypes
<1> HIDE DEF V, n
<1>4. TreeSound'
  <2>1. /\ visited[lane] \subseteq V /\ 0 \in V
        /\ \A m \in V : m = 0 \/ m \in visited[lane]
    BY <1>2 DEF V
  <2> QED
    BY <1>1, <1>3, <2>1 DEF TreeSound
<1>5. Standing' /\ Selected'
  BY <1>1, <1>2, NextLaneSound
<1> QED
  BY <1>1, <1>4, <1>5

LEMMA ExpandSound ==
  SearchInv /\ Expand => TreeSound' /\ Standing' /\ Selected' /\ repeated' = FALSE
<1> SUFFICES ASSUME SearchInv, Expand
             PROVE  TreeSound' /\ Standing' /\ Selected' /\ repeated' = FALSE
  OBVIOUS
<1> DEFINE n == sel[lane].node
           a == sel[lane].action
           c == Child(n, a)
           V == visited[lane] \union {c, 0}
<1>1. /\ TypeInv /\ TreeSound /\ lane \in Scenarios /\ n \in Nodes /\ a \in Actions
      /\ repeated = FALSE /\ \A s \in Scenarios : lane <= s => Chosen(s)
  BY LaneTypes, TypeParts DEF SearchInv, Selected, Expand, ControlTypes, SelType
<1>2. Depth[n] < H /\ Depth[n] # TreeHeight
  <2>1. Depth[n] < TreeHeight
    BY DEF Expand
  <2> HIDE DEF n, c
  <2>2. Depth[n] \in 0..H
    BY <1>1, DepthType
  <2> QED
    BY <2>1, <2>2, Sizes DEF H
<1>3. /\ n = 0 \/ n \in visited[lane]
      /\ c \notin visited[lane]
      /\ \A s \in Scenarios : lane < s => Chosen(s)
  BY <1>1, <1>2, LaneTypes DEF Chosen
<1>4. c # 0 /\ Parent(c) = n
  BY <1>1, <1>2, HeapLayout
<1>5. /\ \E y : at' = [at EXCEPT ![lane][c] = y]
      /\ \E y : curr_action' = [curr_action EXCEPT ![lane][c] = y]
  BY DEF Expand
<1>6. /\ visited' = [visited EXCEPT ![lane] = V]
      /\ repeated' = (repeated \/ c \in visited[lane])
      /\ cur' = c /\ pc' = "backup" /\ UNCHANGED <<cands, lane, sel>>
  BY DEF Expand, CountVisits
<1> HIDE DEF n, a, c, V
<1>7. visited' = [s \in Scenarios |-> IF s = lane THEN V ELSE visited[s]]
  BY <1>1, <1>6, TypeParts DEF TreeTypes
<1>8. repeated' = FALSE
  BY <1>1, <1>3, <1>6
<1>9. TreeSound'
  <2>1. \A s \in Scenarios : \A m \in DOMAIN cands[s] : at'[s][m] = at[s][m]
    <3> TAKE s \in Scenarios
    <3> TAKE m \in DOMAIN cands[s]
    <3>1. m \in Nodes /\ m \in visited[s]
      BY <1>1, TypeParts DEF TreeSound, CandTypes
    <3>2. s # lane \/ m # c
      BY <1>3, <3>1
    <3> QED
      BY <1>1, <1>5, <3>1, <3>2, TypeParts DEF TreeTypes
  <2>2. /\ visited[lane] \subseteq V /\ 0 \in V
        /\ \A m \in V : m = 0 \/ m \in visited[lane] \/ m = c
        /\ n \in V
    BY <1>3 DEF V
  <2>3. \A m \in V : m # 0 => Parent(m) \in V
    BY <1>1, <1>4, <2>2 DEF TreeSound
  <2> QED
    BY <1>1, <1>6, <1>7, <2>1, <2>2, <2>3 DEF TreeSound
<1>10. Standing'
  <2>1. cur' \in visited'[lane'] /\ cur' # 0
    BY <1>1, <1>4, <1>6, <1>7 DEF V
  <2> QED
    BY <1>6, <2>1 DEF Standing
<1>11. Selected'
  <2>1. \A s \in Scenarios : lane < s =>
          /\ visited'[s] = visited[s]
          /\ at'[s] = at[s] /\ curr_action'[s] = curr_action[s]
    <3>1. \A s \in Scenarios : lane < s => s # lane
      BY <1>1, LaneTypes
    <3> QED
      BY <1>1, <1>5, <1>7, <3>1, TypeParts DEF TreeTypes
  <2>2. \A s \in Scenarios : lane < s => Chosen(s)'
    BY <1>3, <1>6, <2>1, ChosenKept
  <2> QED
    BY <1>6, <2>2 DEF Selected
<1> QED
  BY <1>8, <1>9, <1>10, <1>11

LEMMA BackupLevelSound ==
  SearchInv /\ BackupLevel => TreeSound' /\ Standing' /\ Selected' /\ repeated' = FALSE
<1> SUFFICES ASSUME SearchInv, BackupLevel
             PROVE  TreeSound' /\ Standing' /\ Selected' /\ repeated' = FALSE
  OBVIOUS
<1> DEFINE p == Parent(cur)
<1>1. /\ TypeInv /\ TreeSound /\ lane \in Scenarios /\ pc = "backup"
      /\ cur \in visited[lane] /\ cur # 0 /\ repeated = FALSE
      /\ \A s \in Scenarios : lane < s => Chosen(s)
  BY LaneTypes DEF SearchInv, Standing, Selected, BackupLevel
<1>2. p \in visited[lane]
  BY <1>1 DEF TreeSound
<1>3. /\ Cache(lane, p) /\ UNCHANGED <<visited, at, curr_action, repeated>>
      /\ \/ NextLane /\ cur' = 0
         \/ p # 0 /\ cur' = p /\ UNCHANGED <<pc, lane, sel, target>>
  BY DEF BackupLevel
<1>4. TreeSound'
  BY <1>1, <1>2, <1>3, CacheSound
<1> HIDE DEF p
<1>5. CASE NextLane /\ cur' = 0
  <2>1. visited' = [visited EXCEPT ![lane] = visited[lane]]
    BY <1>3, TypeParts, <1>1 DEF TreeTypes
  <2>2. Standing' /\ Selected'
    BY <1>1, <1>3, <1>5, <2>1, NextLaneSound
  <2> QED
    BY <1>1, <1>3, <1>4, <2>2
<1>6. CASE p # 0 /\ cur' = p /\ UNCHANGED <<pc, lane, sel, target>>
  <2>1. \A s \in Scenarios : Chosen(s) => Chosen(s)'
    BY <1>3, <1>6, ChosenKept
  <2>2. Standing' /\ Selected'
    BY <1>1, <1>2, <1>3, <1>6, <2>1 DEF Standing, Selected
  <2> QED
    BY <1>1, <1>3, <1>4, <2>2
<1> QED
  BY <1>3, <1>5, <1>6

LEMMA SearchStep == SearchInv /\ [Next]_vars => SearchInv'
<1> SUFFICES ASSUME SearchInv, [Next]_vars PROVE SearchInv'
  OBVIOUS
<1>1. TypeInv'
  BY TypeStep DEF SearchInv
<1>2. TreeSound' /\ Standing' /\ Selected' /\ repeated' = FALSE
  <2>1. CASE Next
    BY <2>1, BeginSearchSound, LoopSound, StopSound, DescendSound, ExpandLeafSound,
       ExpandSound, BackupLevelSound DEF Next, Work
  <2>2. CASE UNCHANGED vars
    <3>1. TreeSound'
      BY <2>2, TreeSoundKept DEF vars, tree, SearchInv
    <3>2. \A s \in Scenarios : Chosen(s) => Chosen(s)'
      BY <2>2, ChosenKept DEF vars, tree, control
    <3>3. Standing' /\ Selected' /\ repeated' = FALSE
      BY <2>2, <3>2 DEF vars, tree, control, SearchInv, Standing, Selected
    <3> QED
      BY <3>1, <3>3
  <2> QED
    BY <2>1, <2>2
<1> QED
  BY <1>1, <1>2 DEF SearchInv

(* No simulation is spent on a child that has been expanded: between the   *)
(* moment exploreNodesVote selects it and the moment expandNodesBatch      *)
(* takes it, nobody visits it, and the selection itself never offers one.  *)
THEOREM NeverRepeated == Spec => []NoReexpansion
<1>1. SearchInv => NoReexpansion
  BY DEF SearchInv, NoReexpansion
<1> QED
  BY InitSearch, SearchStep, <1>1, PTL DEF Spec

(* A cached candidate list is the one the node's state asks for: the       *)
(* state of a node is written before the list is cached and never after.   *)
THEOREM CacheCurrent == Spec => []CandidatesCurrent
<1>1. SearchInv => CandidatesCurrent
  BY DEF SearchInv, TreeSound, CandidatesCurrent
<1> QED
  BY InitSearch, SearchStep, <1>1, PTL DEF Spec

-----------------------------------------------------------------------------
(* The vote is only taken when the scenarios disagree about the depth, so  *)
(* one of them is above the leaf layer; then the target is the depth most  *)
(* of them have, the deeper one on a tie.                                  *)
LEMMA VoteStep ==
  ASSUME TypeInv, TypeInv', [Next]_vars, pc = "probe", pc' = "realign"
  PROVE  LET votes(d) == Cardinality({s \in Scenarios : Depth[sel'[s].node] = d}) IN
         /\ target' < TreeHeight /\ votes(target') > 0
         /\ \A d \in 0..(TreeHeight - 1) :
              votes(d) <= votes(target') /\ (votes(d) = votes(target') => d <= target')
<1> DEFINE depths == [s \in Scenarios |-> Depth[sel'[s].node]]
           votes(d) == Cardinality({s \in Scenarios : Depth[sel'[s].node] = d})
<1>1. Stop
  BY DEF Next, Work, BeginSearch, EndSearch, BeginIteration, Descend, ExpandLeaf, Expand,
         BackupLevel, vars, control
<1>2. /\ ~(\A s, r \in Scenarios : Depth[sel'[s].node] = Depth[sel'[r].node])
      /\ target' = VoteUpTo(depths)
  BY <1>1 DEF Stop, AfterProbe, StartPhase
<1>3. depths \in [Scenarios -> 0..H]
  BY TypeParts, DepthType DEF ControlTypes, SelType
<1>4. \E s \in Scenarios : depths[s] < H
  <2>1. PICK s, r \in Scenarios : depths[s] # depths[r]
    BY <1>2
  <2>2. depths[s] \in 0..H /\ depths[r] \in 0..H
    BY <1>3
  <2> QED
    BY <2>1, <2>2, Sizes
<1>5. \A d : Votes(depths, d) = votes(d)
  <2> TAKE d
  <2>1. {s \in Scenarios : depths[s] = d} = {s \in Scenarios : Depth[sel'[s].node] = d}
    OBVIOUS
  <2> QED
    BY <2>1 DEF Votes
<1> HIDE DEF votes, depths
<1>6. /\ target' < H /\ votes(target') > 0
      /\ \A d \in 0..(H - 1) :
           votes(d) <= votes(target') /\ (votes(d) = votes(target') => d <= target')
  BY <1>2, <1>3, <1>4, <1>5, VoteFact
<1> QED
  BY <1>6 DEF votes, H

THEOREM VoteCorrect == Spec => VoteIsMajority
<1> DEFINE P == (pc = "probe" /\ pc' = "realign") =>
       LET votes(d) == Cardinality({s \in Scenarios : Depth[sel'[s].node] = d}) IN
       /\ target' < TreeHeight /\ votes(target') > 0
       /\ \A d \in 0..(TreeHeight - 1) :
            votes(d) <= votes(target') /\ (votes(d) = votes(target') => d <= target')
<1>1. TypeInv /\ [Next]_vars => [P]_vars
  BY TypeStep, VoteStep
<1> HIDE DEF P
<1>2. Spec => [][P]_vars
  BY InitType, TypeStep, <1>1, PTL DEF Spec
<1> QED
  BY <1>2, PTL DEF VoteIsMajority, P

-----------------------------------------------------------------------------
(* The depth intervals.  What backupDepth writes, in terms of the present  *)
(* states alone: the cached lists agree with them.                         *)
Open(s, n) ==
  \E i \in 1..Len(Transitions[at[s][n]]) : Child(n, Transitions[at[s][n]][i]) \notin visited[s]

LoVal(s, c) == IF active[s][c] THEN lo[s][c] ELSE Far
HiVal(s, c) == IF active[s][c] THEN hi[s][c] ELSE 0
Own(s, p)   == IF Open(s, p) THEN {Depth[p]} ELSE {}
LoSet(s, p) == {LoVal(s, c) : c \in Children(p)} \union Own(s, p)
HiSet(s, p) == {HiVal(s, c) : c \in Children(p)} \union Own(s, p)

LEMMA OpenFact ==
  ASSUME TreeSound, NEW s \in Scenarios, NEW n
  PROVE  Unvisited(s, n) # {} <=> Open(s, n)
BY CandidatesAre DEF Unvisited, Open

LEMMA NewIntervalFact ==
  ASSUME TreeSound, NEW s \in Scenarios, NEW p
  PROVE  NewLo(s, p) = Min(LoSet(s, p)) /\ NewHi(s, p) = Max(HiSet(s, p))
BY OpenFact DEF NewLo, NewHi, LoSet, HiSet, LoVal, HiVal, Own

LEMMA SetsType ==
  ASSUME TypeInv, NEW s \in Scenarios, NEW p \in Nodes, Depth[p] < H
  PROVE  /\ LoSet(s, p) \in SUBSET Int /\ (\A x \in LoSet(s, p) : 0 <= x)
         /\ HiSet(s, p) \in SUBSET Int /\ (\A x \in HiSet(s, p) : x <= H)
         /\ LoSet(s, p) # {} /\ HiSet(s, p) # {} /\ H \in Int
<1>1. \A c \in Children(p) : c \in Nodes
  BY HeapLayout DEF Children
<1>2. Children(p) # {}
  BY Constants DEF Children
<1>3. \A c \in Children(p) : LoVal(s, c) \in 0..Far /\ HiVal(s, c) \in -1..H
  <2> TAKE c \in Children(p)
  <2>1. lo[s][c] \in 0..Far /\ hi[s][c] \in -1..H
    BY <1>1, TypeParts DEF TreeTypes, H
  <2> QED
    BY <2>1, Sizes DEF LoVal, HiVal, Far, H
<1>4. \A x \in Own(s, p) : x \in 0..H
  BY DepthType DEF Own
<1>5. \A x \in LoSet(s, p) : x \in Int /\ 0 <= x
  BY <1>3, <1>4, Sizes DEF LoSet
<1>6. \A x \in HiSet(s, p) : x \in Int /\ x <= H
  BY <1>3, <1>4, Sizes DEF HiSet
<1> QED
  BY <1>2, <1>5, <1>6, Sizes DEF LoSet, HiSet

(* Every visited node agrees with its children, but the one whose turn it  *)
(* is in a climb.  L are the actions on paths that exist: the ego never    *)
(* stands on another, and always has a candidate, its own action at least. *)
Branching(L) ==
  /\ L \subseteq Actions /\ RootActions \subseteq L
  /\ \A b \in L : Transitions[b] \in Seq(L) /\ Transitions[b] # <<>>

Staying(L) == \A s \in Scenarios, b \in L, a \in L : Step[s, b, a].at \in L

OnPaths(L) == Branching(L) /\ Staying(L)

Agree(s, n)   == lo[s][n] = Min(LoSet(s, n)) /\ hi[s][n] = Max(HiSet(s, n))
Pending(s, n) == pc = "backup" /\ s = lane /\ n = Parent(cur)

RootOn(L) ==
  pc # "idle" => \A s \in Scenarios : at[s][0] \in L /\ curr_action[s][0] \in L

NodesOn(L) == \A s \in Scenarios : \A n \in visited[s] : at[s][n] \in L

Intervals ==
  \A s \in Scenarios :
    /\ \A n \in Nodes \ visited[s] : lo[s][n] = Unreached /\ hi[s][n] = -1
    /\ \A n \in visited[s] :
         \/ Depth[n] = H /\ lo[s][n] = H /\ hi[s][n] = H
         \/ Depth[n] # H /\ (Pending(s, n) \/ Agree(s, n))

DepthInv(L) == RootOn(L) /\ NodesOn(L) /\ Intervals

LEMMA SetsKept ==
  ASSUME NEW s \in Scenarios, NEW n \in Nodes,
         \A c \in Children(n) :
           active'[s][c] = active[s][c] /\ lo'[s][c] = lo[s][c] /\ hi'[s][c] = hi[s][c],
         Open(s, n)' <=> Open(s, n)
  PROVE  LoSet(s, n)' = LoSet(s, n) /\ HiSet(s, n)' = HiSet(s, n)
<1>1. Own(s, n)' = Own(s, n)
  BY DEF Own
<1>2. \A c \in Children(n) : LoVal(s, c)' = LoVal(s, c) /\ HiVal(s, c)' = HiVal(s, c)
  BY DEF LoVal, HiVal
<1> QED
  BY <1>1, <1>2 DEF LoSet, HiSet

LEMMA AgreeKept ==
  ASSUME NEW s \in Scenarios, NEW n \in Nodes, Agree(s, n),
         lo'[s][n] = lo[s][n], hi'[s][n] = hi[s][n],
         \A c \in Children(n) :
           active'[s][c] = active[s][c] /\ lo'[s][c] = lo[s][c] /\ hi'[s][c] = hi[s][c],
         Open(s, n)' <=> Open(s, n)
  PROVE  Agree(s, n)'
BY SetsKept DEF Agree

LEMMA InitDepth == ASSUME NEW L, Init PROVE DepthInv(L)
<1>1. \A s \in Scenarios : visited[s] = {}
  BY DEF Init
<1>2. RootOn(L)
  BY DEF Init, RootOn
<1>3. \A s \in Scenarios : \A n \in Nodes : lo[s][n] = Unreached /\ hi[s][n] = -1
  BY DEF Init, PerNode
<1> QED
  BY <1>1, <1>2, <1>3 DEF DepthInv, NodesOn, Intervals

LEMMA BeginSearchDepth ==
  ASSUME NEW L, OnPaths(L), SearchInv, BeginSearch
  PROVE  DepthInv(L)'
<1>1. \A s \in Scenarios : visited'[s] = {}
  BY DEF BeginSearch
<1>2. RootOn(L)'
  <2>1. PICK root \in RootActions :
          /\ at' = [s \in Scenarios |-> [at[s] EXCEPT ![0] = root]]
          /\ curr_action' = [s \in Scenarios |-> [curr_action[s] EXCEPT ![0] = root]]
    BY DEF BeginSearch
  <2>2. \A s \in Scenarios : at[s] \in [Nodes -> Actions] /\ curr_action[s] \in [Nodes -> Actions]
    BY TypeParts DEF TreeTypes, SearchInv
  <2> QED
    BY <2>1, <2>2, Constants DEF RootOn, OnPaths, Branching
<1>3. \A s \in Scenarios : \A n \in Nodes : lo'[s][n] = Unreached /\ hi'[s][n] = -1
  BY DEF BeginSearch, PerNode
<1> QED
  BY <1>1, <1>2, <1>3 DEF DepthInv, NodesOn, Intervals

(* Nothing of the tree changes, and no climb starts or ends.               *)
LEMMA DepthKept ==
  ASSUME NEW L, DepthInv(L), TypeInv, UNCHANGED tree, pc # "idle", pc # "backup"
  PROVE  DepthInv(L)'
<1>1. RootOn(L)' /\ NodesOn(L)'
  BY DEF DepthInv, RootOn, NodesOn, tree
<1>2. \A s \in Scenarios, n \in Nodes : Agree(s, n) => Agree(s, n)'
  <2> SUFFICES ASSUME NEW s \in Scenarios, NEW n \in Nodes, Agree(s, n) PROVE Agree(s, n)'
    OBVIOUS
  <2>1. Open(s, n)' <=> Open(s, n)
    BY DEF Open, tree
  <2> QED
    BY <2>1, AgreeKept DEF tree
<1>3. \A s \in Scenarios : visited[s] \subseteq Nodes
  BY TypeParts DEF TreeTypes
<1>4. \A s \in Scenarios : \A n \in visited[s] : ~Pending(s, n)
  BY DEF Pending
<1>5. Intervals'
  BY <1>2, <1>3, <1>4 DEF DepthInv, Intervals, tree
<1> QED
  BY <1>1, <1>5 DEF DepthInv

(* A leaf that is expanded again has been visited: nothing changes.        *)
LEMMA ExpandLeafDepth ==
  ASSUME NEW L, DepthInv(L), SearchInv, ExpandLeaf
  PROVE  DepthInv(L)'
<1> DEFINE n == sel[lane].node
<1>1. /\ TypeInv /\ TreeSound /\ lane \in Scenarios /\ pc = "expand" /\ Depth[n] = H
      /\ Chosen(lane) /\ n \in Nodes
  BY LaneTypes, TypeParts DEF SearchInv, Selected, ExpandLeaf, H, ControlTypes, SelType
<1>2. n # 0
  BY <1>1, HeapLayout, NodesFact, Sizes
<1>3. n \in visited[lane] /\ 0 \in visited[lane]
  BY <1>1, <1>2 DEF Chosen, TreeSound
<1>4. visited' = [visited EXCEPT ![lane] = visited[lane] \union {n, 0}]
  BY DEF ExpandLeaf, CountVisits
<1> HIDE DEF n
<1>5. visited' = visited
  <2>1. visited[lane] \union {n, 0} = visited[lane]
    BY <1>3
  <2> QED
    BY <1>1, <1>4, <2>1, TypeParts DEF TreeTypes
<1>6. UNCHANGED tree
  BY <1>5 DEF ExpandLeaf, tree
<1> QED
  BY <1>1, <1>6, DepthKept

LEMMA ChildrenFact ==
  ASSUME NEW n \in Nodes, Depth[n] # H, NEW c \in Children(n)
  PROVE  c \in Nodes /\ c # 0 /\ Parent(c) = n /\ Depth[c] = Depth[n] + 1
<1>1. Depth[n] < H
  BY DepthType, Sizes
<1> QED
  BY <1>1, HeapLayout DEF Children

(* The interval of a child just written is its own depth, as it should be: *)
(* nothing below it has been visited, and it has a candidate.              *)
LEMMA FreshAgrees ==
  ASSUME NEW L, OnPaths(L), NEW s \in Scenarios, NEW n \in Nodes, Depth[n] # H,
         at'[s][n] \in L, lo'[s][n] = Depth[n], hi'[s][n] = Depth[n],
         \A c \in Children(n) :
           c \notin visited'[s] /\ lo'[s][c] = Unreached /\ hi'[s][c] = -1
  PROVE  Agree(s, n)'
<1>1. Depth[n] \in 0..H /\ Depth[n] < H
  BY DepthType, Sizes
<1>2. Open(s, n)'
  <2> DEFINE C == Transitions[at'[s][n]]
  <2>1. C \in Seq(L) /\ C # <<>> /\ L \subseteq Actions
    BY DEF OnPaths, Branching
  <2> HIDE DEF C
  <2>2. 1 \in 1..Len(C) /\ C[1] \in Actions
    BY <2>1
  <2>3. Child(n, C[1]) \in Children(n)
    BY <2>2 DEF Children
  <2> QED
    BY <2>2, <2>3 DEF Open, C
<1>3. \A c \in Children(n) : LoVal(s, c)' \in {Unreached, Far} /\ HiVal(s, c)' \in {-1, 0}
  BY DEF LoVal, HiVal
<1>4. /\ Depth[n] \in LoSet(s, n)' /\ \A x \in LoSet(s, n)' : x \in {Unreached, Far, Depth[n]}
      /\ Depth[n] \in HiSet(s, n)' /\ \A x \in HiSet(s, n)' : x \in {-1, 0, Depth[n]}
  BY <1>2, <1>3 DEF LoSet, HiSet, Own
<1>5. \A x \in LoSet(s, n)' : x \in Int /\ Depth[n] <= x
  BY <1>1, <1>4, Sizes DEF Unreached, Far, H
<1>6. \A x \in HiSet(s, n)' : x \in Int /\ x <= Depth[n]
  BY <1>1, <1>4, Sizes
<1> DEFINE P == LoSet(s, n)'
           Q == HiSet(s, n)'
<1> HIDE DEF P, Q
<1>7. /\ P \in SUBSET Int /\ Depth[n] \in P /\ \A x \in P : Depth[n] <= x
      /\ Q \in SUBSET Int /\ Depth[n] \in Q /\ \A x \in Q : x <= Depth[n]
  BY <1>4, <1>5, <1>6 DEF P, Q
<1>8. Min(P) = Depth[n] /\ Max(Q) = Depth[n]
  BY <1>7, MinIs, MaxIs
<1> QED
  BY <1>8 DEF Agree, P, Q

LEMMA ExpandDepth ==
  ASSUME NEW L, OnPaths(L), DepthInv(L), SearchInv, SearchInv', Expand
  PROVE  DepthInv(L)'
<1> DEFINE n == sel[lane].node
           a == sel[lane].action
           c == Child(n, a)
           out == IF active[lane][n] THEN Step[lane, at[lane][n], a]
                  ELSE [at |-> at[lane][n], active |-> FALSE]
<1>1. /\ TypeInv /\ TypeInv' /\ TreeSound /\ lane \in Scenarios /\ n \in Nodes /\ a \in Actions
      /\ pc = "expand" /\ Chosen(lane)
  <2>1. TypeInv /\ TypeInv' /\ TreeSound /\ Selected
    BY DEF SearchInv
  <2>2. pc = "expand"
    BY DEF Expand
  <2>3. lane \in Scenarios /\ lane <= lane /\ sel \in SelType
    BY <2>1, LaneTypes, TypeParts DEF ControlTypes
  <2> QED
    BY <2>1, <2>2, <2>3 DEF Selected, SelType
<1>2. Depth[n] < H /\ Depth[n] # H
  <2>1. Depth[n] < TreeHeight
    BY DEF Expand
  <2> HIDE DEF n, c, out
  <2>2. Depth[n] \in 0..H
    BY <1>1, DepthType
  <2> QED
    BY <2>1, <2>2, Sizes DEF H
<1>3. /\ active' = [active EXCEPT ![lane][c] = out.active]
      /\ at' = [at EXCEPT ![lane][c] = out.at]
      /\ curr_action' = [curr_action EXCEPT ![lane][c] = a]
      /\ visited' = [visited EXCEPT ![lane] = @ \union {c, 0}]
      /\ lo' = [lo EXCEPT ![lane][c] = Depth[c]]
      /\ hi' = [hi EXCEPT ![lane][c] = Depth[c]]
      /\ cur' = c /\ pc' = "backup" /\ lane' = lane
  BY DEF Expand, CountVisits
<1>4. /\ n = 0 \/ n \in visited[lane]
      /\ c \notin visited[lane] /\ Offered(lane, n, a)
  BY <1>1, <1>2 DEF Chosen, H
<1>5. c \in Nodes /\ c # 0 /\ Parent(c) = n /\ Depth[c] = Depth[n] + 1 /\ Depth[c] \in 0..H
  BY <1>1, <1>2, HeapLayout, DepthType
<1>6. at[lane][n] \in L
  BY <1>1, <1>4 DEF DepthInv, RootOn, NodesOn
<1>7. a \in L
  <2>1. CASE n = 0 /\ a = curr_action[lane][0]
    BY <1>1, <2>1 DEF DepthInv, RootOn
  <2>2. CASE \E i \in 1..Len(Transitions[at[lane][n]]) : a = Transitions[at[lane][n]][i]
    BY <1>6, <2>2 DEF OnPaths, Branching
  <2> QED
    BY <1>4, <2>1, <2>2 DEF Offered
<1>8. out.at \in L
  <2>1. Step[lane, at[lane][n], a].at \in L
    BY <1>1, <1>6, <1>7 DEF OnPaths, Staying
  <2> QED
    BY <1>6, <2>1
<1> HIDE DEF n, a, c, out
<1>9. /\ \A s \in Scenarios : \A m \in Nodes : (s # lane \/ m # c) =>
           /\ active'[s][m] = active[s][m] /\ at'[s][m] = at[s][m]
           /\ lo'[s][m] = lo[s][m] /\ hi'[s][m] = hi[s][m]
           /\ curr_action'[s][m] = curr_action[s][m]
      /\ \A s \in Scenarios : s # lane => visited'[s] = visited[s]
      /\ visited'[lane] = visited[lane] \union {c, 0}
  BY <1>1, <1>3, <1>5, TypeParts DEF TreeTypes
<1>10. at'[lane][c] = out.at /\ lo'[lane][c] = Depth[c] /\ hi'[lane][c] = Depth[c]
  BY <1>1, <1>3, <1>5, TypeParts DEF TreeTypes
<1>11. RootOn(L)'
  <2>1. \A s \in Scenarios : at'[s][0] \in L /\ curr_action'[s][0] \in L
    BY <1>1, <1>5, <1>9, Constants DEF DepthInv, RootOn
  <2> QED
    BY <2>1 DEF RootOn
<1>12. NodesOn(L)'
  <2>1. \A s \in Scenarios : \A m \in visited'[s] : at'[s][m] \in L
    <3> TAKE s \in Scenarios
    <3> TAKE m \in visited'[s]
    <3>1. m \in Nodes
      BY <1>1, TypeParts DEF TreeTypes
    <3>2. CASE s = lane /\ m = c
      BY <1>8, <1>10, <3>2
    <3>3. CASE m = 0
      BY <1>11, <1>3, <3>3 DEF RootOn
    <3>4. CASE m \in visited[s] /\ ~(s = lane /\ m = c)
      BY <1>9, <3>1, <3>4 DEF DepthInv, NodesOn
    <3> QED
      BY <1>9, <3>2, <3>3, <3>4
  <2> QED
    BY <2>1 DEF NodesOn
<1>13. \A s \in Scenarios : \A m \in Nodes \ visited'[s] : lo'[s][m] = Unreached /\ hi'[s][m] = -1
  BY <1>9 DEF DepthInv, Intervals
(* A node that is not the child's parent has the same children as before.  *)
<1>14. \A s \in Scenarios : \A m \in visited[s] :
         (Depth[m] # H /\ (s # lane \/ m # n) /\ Agree(s, m)) => Agree(s, m)'
  <2> SUFFICES ASSUME NEW s \in Scenarios, NEW m \in visited[s], Depth[m] # H,
                      s # lane \/ m # n, Agree(s, m)
               PROVE  Agree(s, m)'
    OBVIOUS
  <2>1. m \in Nodes /\ (s # lane \/ m # c)
    BY <1>1, <1>4, TypeParts DEF TreeTypes
  <2>2. \A d \in Children(m) : d \in Nodes /\ (s # lane \/ d # c) /\ d # 0
    BY <1>5, <2>1, ChildrenFact
  <2>3. \A d \in Children(m) : d \in visited'[s] <=> d \in visited[s]
    BY <1>9, <2>2
  <2>4. Open(s, m)' <=> Open(s, m)
    <3>1. at'[s][m] = at[s][m] /\ at[s][m] \in Actions
      BY <1>1, <1>9, <2>1, TypeParts DEF TreeTypes
    <3>2. \A i \in 1..Len(Transitions[at[s][m]]) : Child(m, Transitions[at[s][m]][i]) \in Children(m)
      BY <3>1, Constants DEF Children
    <3> QED
      BY <2>3, <3>1, <3>2 DEF Open
  <2> QED
    BY <1>9, <2>1, <2>2, <2>4, AgreeKept
<1>15. \A s \in Scenarios : \A m \in visited'[s] :
         \/ Depth[m] = H /\ lo'[s][m] = H /\ hi'[s][m] = H
         \/ Depth[m] # H /\ (Pending(s, m)' \/ (s = lane /\ m = c) \/ Agree(s, m)')
  <2> TAKE s \in Scenarios
  <2> TAKE m \in visited'[s]
  <2>1. CASE s = lane /\ m = c
    BY <1>10, <2>1
  <2>2. CASE s = lane /\ m = n
    <3>1. Pending(s, m)'
      BY <1>3, <1>5, <2>2 DEF Pending
    <3> QED
      BY <1>2, <2>2, <3>1
  <2>3. CASE m \in visited[s] /\ ~(s = lane /\ m = c) /\ ~(s = lane /\ m = n)
    <3>1. \/ Depth[m] = H /\ lo[s][m] = H /\ hi[s][m] = H
          \/ Depth[m] # H /\ Agree(s, m)
      BY <1>1, <2>3 DEF DepthInv, Intervals, Pending
    <3>2. m \in Nodes
      BY <1>1, <2>3, TypeParts DEF TreeTypes
    <3> QED
      BY <1>9, <1>14, <2>3, <3>1, <3>2
  <2>4. m \in visited[s] \/ (s = lane /\ (m = c \/ m = 0))
    BY <1>9
  <2>5. s = lane /\ m = 0 => m = n \/ m \in visited[s]
    BY <1>1, <1>4 DEF TreeSound
  <2> QED
    BY <2>1, <2>2, <2>3, <2>4, <2>5
(* The child is alone: whoever has it as a parent would be visited too.    *)
<1>16. \A s \in Scenarios, m \in Nodes : (s = lane /\ m = c /\ Depth[m] # H) => Agree(s, m)'
  <2> SUFFICES ASSUME NEW s \in Scenarios, NEW m \in Nodes, s = lane, m = c, Depth[m] # H
               PROVE  Agree(s, m)'
    OBVIOUS
  <2>1. \A d \in Children(m) : d \in Nodes /\ d # c /\ d # 0 /\ Parent(d) = c
    <3> TAKE d \in Children(m)
    <3>1. d \in Nodes /\ d # 0 /\ Parent(d) = m /\ Depth[d] = Depth[m] + 1
      BY ChildrenFact
    <3>2. Depth[m] \in 0..H
      BY DepthType
    <3> QED
      BY <3>1, <3>2
  <2>2. \A d \in Children(m) : d \notin visited[lane]
    BY <1>1, <1>4, <2>1 DEF TreeSound
  <2>3. \A d \in Children(m) :
          d \notin visited'[s] /\ lo'[s][d] = Unreached /\ hi'[s][d] = -1
    BY <1>9, <1>13, <2>1, <2>2
  <2>4. at'[s][m] \in L /\ lo'[s][m] = Depth[m] /\ hi'[s][m] = Depth[m]
    BY <1>8, <1>10
  <2> QED
    BY <2>3, <2>4, FreshAgrees
<1>17. Intervals'
  <2>1. \A s \in Scenarios : \A m \in visited'[s] :
          \/ Depth[m] = H /\ lo'[s][m] = H /\ hi'[s][m] = H
          \/ Depth[m] # H /\ (Pending(s, m)' \/ Agree(s, m)')
    <3> TAKE s \in Scenarios
    <3> TAKE m \in visited'[s]
    <3>1. m \in Nodes
      BY <1>1, TypeParts DEF TreeTypes
    <3> QED
      BY <1>15, <1>16, <3>1
  <2> QED
    BY <1>13, <2>1 DEF Intervals
<1> QED
  BY <1>11, <1>12, <1>17 DEF DepthInv

(* A level of a climb settles the node it recomputes; what is then pending *)
(* is that node's parent, or nothing if the interval is as it was.         *)
LEMMA BackupLevelDepth ==
  ASSUME NEW L, DepthInv(L), SearchInv, BackupLevel
  PROVE  DepthInv(L)'
<1> DEFINE p == Parent(cur)
<1>1. /\ TypeInv /\ TreeSound /\ lane \in Scenarios /\ pc = "backup"
      /\ cur \in Nodes /\ cur # 0 /\ cur \in visited[lane]
  BY LaneTypes DEF SearchInv, Standing, BackupLevel
<1>2. p \in Nodes /\ Depth[p] < H /\ Depth[p] # H /\ p \in visited[lane]
  <2>1. p \in Nodes /\ Depth[p] < H
    BY <1>1, ParentAbove
  <2>2. p \in visited[lane]
    BY <1>1 DEF TreeSound
  <2> QED
    BY <2>1, <2>2, DepthType, Sizes
<1>3. /\ lo' = [lo EXCEPT ![lane][p] = NewLo(lane, p)]
      /\ hi' = [hi EXCEPT ![lane][p] = NewHi(lane, p)]
      /\ IF p = 0 \/ (lo'[lane][p] = lo[lane][p] /\ hi'[lane][p] = hi[lane][p])
         THEN NextLane /\ cur' = 0
         ELSE cur' = p /\ UNCHANGED <<pc, lane, sel, target>>
      /\ UNCHANGED <<visited, active, at, curr_action>>
  BY DEF BackupLevel
<1>4. RootOn(L)' /\ NodesOn(L)'
  BY <1>1, <1>3 DEF DepthInv, RootOn, NodesOn
<1> HIDE DEF p
<1>5. /\ \A s \in Scenarios : \A m \in Nodes : (s # lane \/ m # p) =>
           lo'[s][m] = lo[s][m] /\ hi'[s][m] = hi[s][m]
      /\ lo'[lane][p] = Min(LoSet(lane, p)) /\ hi'[lane][p] = Max(HiSet(lane, p))
  BY <1>1, <1>2, <1>3, NewIntervalFact, TypeParts DEF TreeTypes
<1>6. \A s \in Scenarios, m \in Nodes : Open(s, m)' <=> Open(s, m)
  BY <1>3 DEF Open
<1>7. \A s \in Scenarios, m \in Nodes : (s = lane /\ m = p) => Agree(s, m)'
  <2> SUFFICES ASSUME NEW s \in Scenarios, NEW m \in Nodes, s = lane, m = p PROVE Agree(s, m)'
    OBVIOUS
  <2>1. \A d \in Children(m) : d \in Nodes /\ d # p
    <3> TAKE d \in Children(m)
    <3>1. d \in Nodes /\ Depth[d] = Depth[m] + 1 /\ Depth[m] \in 0..H
      BY <1>2, ChildrenFact, DepthType
    <3> QED
      BY <3>1
  <2>2. LoSet(s, m)' = LoSet(s, m) /\ HiSet(s, m)' = HiSet(s, m)
    <3>1. \A d \in Children(m) :
            active'[s][d] = active[s][d] /\ lo'[s][d] = lo[s][d] /\ hi'[s][d] = hi[s][d]
      BY <1>3, <1>5, <2>1
    <3> QED
      BY <1>6, <3>1, SetsKept
  <2> QED
    BY <1>5, <2>2 DEF Agree
(* Nobody else's children change, but the parent's if the interval did.    *)
<1>8. \A s \in Scenarios, m \in Nodes :
         (/\ Depth[m] # H /\ (s # lane \/ m # p) /\ Agree(s, m)
          /\ \/ s # lane \/ p = 0 \/ m # Parent(p)
             \/ lo'[lane][p] = lo[lane][p] /\ hi'[lane][p] = hi[lane][p]) => Agree(s, m)'
  <2> SUFFICES ASSUME NEW s \in Scenarios, NEW m \in Nodes, Depth[m] # H, s # lane \/ m # p,
                      Agree(s, m),
                      \/ s # lane \/ p = 0 \/ m # Parent(p)
                      \/ lo'[lane][p] = lo[lane][p] /\ hi'[lane][p] = hi[lane][p]
               PROVE  Agree(s, m)'
    OBVIOUS
  <2>1. \A d \in Children(m) : d \in Nodes /\ d # 0 /\ Parent(d) = m
    BY ChildrenFact
  <2>2. \A d \in Children(m) :
          active'[s][d] = active[s][d] /\ lo'[s][d] = lo[s][d] /\ hi'[s][d] = hi[s][d]
    <3> TAKE d \in Children(m)
    <3>1. CASE s = lane /\ d = p
      BY <1>3, <2>1, <3>1
    <3>2. CASE ~(s = lane /\ d = p)
      BY <1>3, <1>5, <2>1, <3>2
    <3> QED
      BY <3>1, <3>2
  <2>3. lo'[s][m] = lo[s][m] /\ hi'[s][m] = hi[s][m]
    BY <1>5
  <2> QED
    BY <1>6, <2>2, <2>3, AgreeKept
<1>9. \A s \in Scenarios : \A m \in visited[s] :
         \/ Depth[m] = H /\ lo'[s][m] = H /\ hi'[s][m] = H
         \/ Depth[m] # H /\ (Pending(s, m)' \/ Agree(s, m)')
  <2> TAKE s \in Scenarios
  <2> TAKE m \in visited[s]
  <2>1. m \in Nodes
    BY <1>1, TypeParts DEF TreeTypes
  <2>2. CASE s = lane /\ m = p
    BY <1>2, <1>7, <2>1, <2>2
  <2>3. CASE ~(s = lane /\ m = p)
    <3>1. \/ Depth[m] = H /\ lo[s][m] = H /\ hi[s][m] = H
          \/ Depth[m] # H /\ Agree(s, m)
      BY <2>3 DEF DepthInv, Intervals, Pending, p
    <3>2. CASE Depth[m] = H /\ lo[s][m] = H /\ hi[s][m] = H
      BY <1>5, <2>1, <2>3, <3>2
    <3>3. CASE Depth[m] # H /\ Agree(s, m)
      <4>1. CASE \/ s # lane \/ p = 0 \/ m # Parent(p)
                 \/ lo'[lane][p] = lo[lane][p] /\ hi'[lane][p] = hi[lane][p]
        BY <1>8, <2>1, <2>3, <3>3, <4>1
      <4>2. CASE /\ s = lane /\ p # 0 /\ m = Parent(p)
                 /\ ~(lo'[lane][p] = lo[lane][p] /\ hi'[lane][p] = hi[lane][p])
        <5>1. cur' = p /\ pc' = "backup" /\ lane' = lane
          BY <1>1, <1>3, <4>2
        <5>2. Pending(s, m)'
          BY <4>2, <5>1 DEF Pending
        <5> QED
          BY <3>3, <5>2
      <4> QED
        BY <4>1, <4>2
    <3> QED
      BY <3>1, <3>2, <3>3
  <2> QED
    BY <2>2, <2>3
<1>10. \A s \in Scenarios : \A m \in Nodes \ visited[s] : lo'[s][m] = Unreached /\ hi'[s][m] = -1
  BY <1>2, <1>5 DEF DepthInv, Intervals
<1>11. Intervals'
  BY <1>3, <1>9, <1>10 DEF Intervals
<1> QED
  BY <1>4, <1>11 DEF DepthInv

LEMMA DepthStep ==
  ASSUME NEW L, OnPaths(L), SearchInv, SearchInv', DepthInv(L), [Next]_vars
  PROVE  DepthInv(L)'
<1>1. TypeInv
  BY DEF SearchInv
<1>2. CASE BeginSearch
  BY <1>2, BeginSearchDepth
<1>3. CASE EndSearch \/ BeginIteration \/ Stop \/ Descend
  <2>1. UNCHANGED tree /\ pc # "idle" /\ pc # "backup"
    BY <1>3 DEF EndSearch, BeginIteration, Stop, Descend
  <2> QED
    BY <1>1, <2>1, DepthKept
<1>4. CASE ExpandLeaf
  BY <1>4, ExpandLeafDepth
<1>5. CASE Expand
  BY <1>5, ExpandDepth
<1>6. CASE BackupLevel
  BY <1>6, BackupLevelDepth
<1>7. CASE UNCHANGED vars
  <2>1. RootOn(L)' /\ NodesOn(L)'
    BY <1>7 DEF DepthInv, RootOn, NodesOn, vars, tree, control
  <2>2. \A s \in Scenarios, n \in Nodes : Agree(s, n) => Agree(s, n)'
    <3> SUFFICES ASSUME NEW s \in Scenarios, NEW n \in Nodes, Agree(s, n) PROVE Agree(s, n)'
      OBVIOUS
    <3>1. Open(s, n)' <=> Open(s, n)
      BY <1>7 DEF Open, vars, tree
    <3> QED
      BY <1>7, <3>1, AgreeKept DEF vars, tree
  <2>3. \A s \in Scenarios : visited[s] \subseteq Nodes
    BY <1>1, TypeParts DEF TreeTypes
  <2>4. \A s \in Scenarios : \A n \in visited[s] : Pending(s, n)' <=> Pending(s, n)
    BY <1>7 DEF Pending, vars, control
  <2>5. Intervals'
    BY <1>7, <2>2, <2>3, <2>4 DEF DepthInv, Intervals, vars, tree
  <2> QED
    BY <2>1, <2>5 DEF DepthInv
<1> QED
  BY <1>2, <1>3, <1>4, <1>5, <1>6, <1>7 DEF Next, Work

(* The full recomputation by its recursive definition: a function that     *)
(* satisfies it exists, from the leaf layer upwards.                       *)
ActiveBelow(s, n) == {d \in Children(n) : d \in visited[s] /\ active[s][d]}

EndsBody(s, g, n) ==
  (IF Depth[n] = TreeHeight \/ Unvisited(s, n) # {} THEN {Depth[n]} ELSE {})
    \union (IF Depth[n] = TreeHeight THEN {} ELSE UNION {g[c] : c \in ActiveBelow(s, n)})

IsEnds(s, g) == g = [n \in Nodes |-> EndsBody(s, g, n)]

LEMMA EndsBodyLocal ==
  ASSUME NEW s, NEW g, NEW j, NEW n,
         Depth[n] = TreeHeight \/ \A c \in Children(n) : g[c] = j[c]
  PROVE  EndsBody(s, g, n) = EndsBody(s, j, n)
<1>1. CASE Depth[n] = TreeHeight
  BY <1>1 DEF EndsBody
<1>2. CASE \A c \in Children(n) : g[c] = j[c]
  <2>1. {g[c] : c \in ActiveBelow(s, n)} = {j[c] : c \in ActiveBelow(s, n)}
    BY <1>2 DEF ActiveBelow
  <2> QED
    BY <2>1 DEF EndsBody
<1> QED
  BY <1>1, <1>2

LEMMA EndsFact ==
  ASSUME NEW s
  PROVE  \A n \in Nodes : LeafDepths(s)[n] = EndsBody(s, LeafDepths(s), n)
<1> DEFINE Part(g, k) == /\ g = [n \in Nodes |-> g[n]]
                         /\ \A n \in Nodes : H <= Depth[n] + k => g[n] = EndsBody(s, g, n)
           S == {k \in Nat : \E g : Part(g, k)}
<1>1. 0 \in S
  <2> DEFINE g == [n \in Nodes |-> {Depth[n]}]
  <2>1. \A n \in Nodes : H <= Depth[n] + 0 => g[n] = EndsBody(s, g, n)
    <3> SUFFICES ASSUME NEW n \in Nodes, H <= Depth[n] + 0 PROVE g[n] = EndsBody(s, g, n)
      OBVIOUS
    <3>1. Depth[n] = TreeHeight
      BY DepthType, Sizes DEF H
    <3> QED
      BY <3>1 DEF EndsBody
  <2>2. Part(g, 0)
    BY <2>1
  <2> QED
    BY <2>2
<1>2. \A k \in Nat : k \in S => k + 1 \in S
  <2> SUFFICES ASSUME NEW k \in Nat, NEW g, Part(g, k)
               PROVE  \E j : Part(j, k + 1)
    OBVIOUS
  <2> DEFINE j == [n \in Nodes |-> IF H = Depth[n] + (k + 1) THEN EndsBody(s, g, n) ELSE g[n]]
  <2>1. ASSUME NEW n \in Nodes, H <= Depth[n] + (k + 1)
        PROVE  j[n] = EndsBody(s, j, n)
    <3>1. Depth[n] \in 0..H
      BY DepthType
    <3>2. Depth[n] = TreeHeight \/ \A c \in Children(n) : g[c] = j[c]
      <4> SUFFICES ASSUME Depth[n] # H, NEW c \in Children(n) PROVE g[c] = j[c]
        BY DEF H
      <4>1. c \in Nodes /\ Depth[c] = Depth[n] + 1
        BY ChildrenFact
      <4>2. H # Depth[c] + (k + 1)
        BY <2>1, <3>1, <4>1, Sizes
      <4> QED
        BY <4>1, <4>2
    <3> HIDE DEF j
    <3>3. EndsBody(s, g, n) = EndsBody(s, j, n)
      BY <3>2, EndsBodyLocal
    <3>4. j[n] = EndsBody(s, g, n)
      <4>1. CASE H = Depth[n] + (k + 1)
        BY <4>1 DEF j
      <4>2. CASE H # Depth[n] + (k + 1)
        <5>1. H <= Depth[n] + k
          BY <2>1, <3>1, <4>2, Sizes
        <5> QED
          BY <4>2, <5>1 DEF j
      <4> QED
        BY <4>1, <4>2
    <3> QED
      BY <3>3, <3>4
  <2>2. j = [n \in Nodes |-> j[n]]
    OBVIOUS
  <2> HIDE DEF j
  <2>3. Part(j, k + 1)
    BY <2>1, <2>2
  <2> QED
    BY <2>3
<1> HIDE DEF S
<1>3. \A k \in Nat : k \in S
  BY <1>1, <1>2, SetInduction
<1>4. H \in S
  BY <1>3, Sizes
<1>5. PICK g : Part(g, H)
  BY <1>4 DEF S
<1>6. IsEnds(s, g)
  <2>1. \A n \in Nodes : H <= Depth[n] + H
    BY DepthType, Sizes
  <2> QED
    BY <1>5, <2>1 DEF IsEnds
<1>7. LeafDepths(s) = CHOOSE f : IsEnds(s, f)
  BY DEF LeafDepths, IsEnds, EndsBody, ActiveBelow
<1>8. IsEnds(s, LeafDepths(s))
  BY <1>6, <1>7
<1> QED
  BY <1>8 DEF IsEnds

(* Agreement with the children, all the way down, is exactness.            *)
Exact(s, n) ==
  LET E == LeafDepths(s)[n] IN
  /\ E \subseteq 0..H
  /\ E # {} => lo[s][n] = Min(E) /\ hi[s][n] = Max(E)
  /\ E = {} => lo[s][n] > H /\ hi[s][n] <= 0

LEMMA LeafExact ==
  ASSUME TypeInv, NEW s \in Scenarios, NEW n \in Nodes, Depth[n] = H, lo[s][n] = H, hi[s][n] = H
  PROVE  Exact(s, n)
<1>1. LeafDepths(s)[n] = {H}
  BY EndsFact DEF EndsBody, H
<1>2. {H} \in SUBSET Int /\ H \in {H} /\ (\A x \in {H} : H <= x /\ x <= H) /\ H \in 0..H
  BY Sizes
<1>3. Min({H}) = H /\ Max({H}) = H
  BY <1>2, MinIs, MaxIs
<1> QED
  BY <1>1, <1>2, <1>3 DEF Exact

LEMMA InnerExact ==
  ASSUME TypeInv, TreeSound, Intervals, NEW s \in Scenarios, NEW n \in Nodes,
         Depth[n] # H, Agree(s, n),
         \A c \in Children(n) : c \in visited[s] => Exact(s, c)
  PROVE  Exact(s, n)
<1> DEFINE E == LeafDepths(s)[n]
           P == LoSet(s, n)
           Q == HiSet(s, n)
<1>1. Depth[n] \in 0..H /\ Depth[n] < H
  BY DepthType, Sizes
<1>2. E = Own(s, n) \union UNION {LeafDepths(s)[c] : c \in ActiveBelow(s, n)}
  BY EndsFact, OpenFact DEF EndsBody, H, Own
<1>3. \A c \in ActiveBelow(s, n) : c \in Children(n) /\ Exact(s, c) /\ active[s][c]
  BY DEF ActiveBelow
<1>4. \A x \in Own(s, n) : x = Depth[n]
  BY DEF Own
<1>5. E \subseteq 0..H
  BY <1>1, <1>2, <1>3, <1>4 DEF Exact
<1>6. /\ P \in SUBSET Int /\ (\A x \in P : 0 <= x) /\ P # {}
      /\ Q \in SUBSET Int /\ (\A x \in Q : x <= H) /\ Q # {} /\ H \in Int /\ 0 \in Int
  BY <1>1, SetsType
<1> DEFINE l == Min(P)
           h == Max(Q)
<1> HIDE DEF E, P, Q
<1>7. l \in P /\ (\A x \in P : l <= x) /\ h \in Q /\ (\A x \in Q : x <= h) /\ l \in Int /\ h \in Int
  <2>1. l \in P /\ \A x \in P : l <= x
    BY <1>6, MinFact
  <2>2. h \in Q /\ \A x \in Q : h >= x
    BY <1>6, MaxFact
  <2> QED
    BY <1>6, <2>1, <2>2
<1>8. lo[s][n] = l /\ hi[s][n] = h
  BY DEF Agree, P, Q
<1> HIDE DEF l, h
(* What a child contributes is one of its ends, or beyond all of them.     *)
<1>9. \A c \in Children(n) : /\ LoVal(s, c) > H \/ LoVal(s, c) \in E
                             /\ HiVal(s, c) <= 0 \/ HiVal(s, c) \in E
  <2> TAKE c \in Children(n)
  <2>1. c \in Nodes
    BY ChildrenFact
  <2>2. CASE ~active[s][c]
    BY <2>2, Sizes DEF LoVal, HiVal, Far, H
  <2>3. CASE active[s][c] /\ c \notin visited[s]
    BY <2>1, <2>3, Sizes DEF Intervals, LoVal, HiVal, Unreached, H
  <2>4. CASE active[s][c] /\ c \in visited[s]
    <3>1. Exact(s, c) /\ c \in ActiveBelow(s, n)
      BY <2>4 DEF ActiveBelow
    <3>2. LeafDepths(s)[c] \subseteq E
      BY <1>2, <3>1
    <3>3. CASE LeafDepths(s)[c] = {}
      BY <2>4, <3>1, <3>3 DEF Exact, LoVal, HiVal
    <3>4. CASE LeafDepths(s)[c] # {}
      <4> DEFINE K == LeafDepths(s)[c]
      <4>1. K \subseteq 0..H
        BY <3>1 DEF Exact
      <4>2. K \in SUBSET Int /\ K # {} /\ (\A x \in K : 0 <= x) /\ (\A x \in K : x <= H)
        BY <3>4, <4>1, Sizes
      <4>3. Min(K) \in K
        BY <1>6, <4>2, MinFact
      <4>4. Max(K) \in K
        BY <1>6, <4>2, MaxFact
      <4>5. LoVal(s, c) = Min(K) /\ HiVal(s, c) = Max(K)
        BY <2>4, <3>1, <3>4 DEF Exact, LoVal, HiVal
      <4> QED
        BY <3>2, <4>3, <4>4, <4>5
    <3> QED
      BY <3>3, <3>4
  <2> QED
    BY <2>2, <2>3, <2>4
<1>10. Own(s, n) \subseteq E
  BY <1>2
<1>11. /\ \A x \in P : x > H \/ x \in E
       /\ \A x \in Q : x <= 0 \/ x \in E
  <2>1. ASSUME NEW x \in P PROVE x > H \/ x \in E
    <3>1. CASE x \in Own(s, n)
      BY <1>10, <3>1
    <3>2. CASE \E c \in Children(n) : x = LoVal(s, c)
      <4>1. PICK c \in Children(n) : x = LoVal(s, c)
        BY <3>2
      <4>2. LoVal(s, c) > H \/ LoVal(s, c) \in E
        BY <1>9
      <4> QED
        BY <4>1, <4>2
    <3> QED
      BY <3>1, <3>2 DEF P, LoSet
  <2>2. ASSUME NEW x \in Q PROVE x <= 0 \/ x \in E
    <3>1. CASE x \in Own(s, n)
      BY <1>10, <3>1
    <3>2. CASE \E c \in Children(n) : x = HiVal(s, c)
      BY <1>9, <3>2
    <3> QED
      BY <3>1, <3>2 DEF Q, HiSet
  <2> QED
    BY <2>1, <2>2
(* Every end is its own contribution, or within what its child's says.     *)
<1>12. \A y \in E : (\E x \in P : x <= y) /\ (\E x \in Q : y <= x)
  <2> TAKE y \in E
  <2>1. CASE y \in Own(s, n)
    <3>1. y \in P /\ y \in Q /\ y \in Int
      BY <1>1, <1>4, <2>1 DEF P, Q, LoSet, HiSet
    <3> QED
      BY <3>1
  <2>2. CASE \E c \in ActiveBelow(s, n) : y \in LeafDepths(s)[c]
    <3>1. PICK c \in ActiveBelow(s, n) : y \in LeafDepths(s)[c]
      BY <2>2
    <3> DEFINE K == LeafDepths(s)[c]
    <3>2. c \in Children(n) /\ Exact(s, c) /\ active[s][c]
      BY <1>3
    <3>3. K \in SUBSET Int /\ K # {} /\ (\A x \in K : 0 <= x) /\ (\A x \in K : x <= H)
      BY <3>1, <3>2, Sizes DEF Exact
    <3>4. Min(K) <= y
      BY <1>6, <3>1, <3>3, MinFact
    <3>5. Max(K) >= y /\ Max(K) \in K
      BY <1>6, <3>1, <3>3, MaxFact
    <3>6. LoVal(s, c) = Min(K) /\ HiVal(s, c) = Max(K)
      BY <3>1, <3>2 DEF Exact, LoVal, HiVal
    <3>7. LoVal(s, c) \in P /\ HiVal(s, c) \in Q
      BY <3>2 DEF P, Q, LoSet, HiSet
    <3>8. y <= Max(K)
      BY <3>1, <3>3, <3>5
    <3> QED
      BY <3>4, <3>6, <3>7, <3>8
  <2> QED
    BY <1>2, <2>1, <2>2
<1>13. CASE E = {}
  <2>1. l > H /\ h <= 0
    BY <1>7, <1>11, <1>13
  <2> QED
    BY <1>5, <1>8, <1>13, <2>1 DEF Exact, E
<1>14. CASE E # {}
  <2>1. \A y \in E : y \in 0..H /\ l <= y /\ y <= h
    <3> TAKE y \in E
    <3>1. y \in 0..H
      BY <1>5
    <3>2. PICK x \in P : x <= y
      BY <1>12
    <3>3. PICK z \in Q : y <= z
      BY <1>12
    <3>4. l <= x /\ z <= h /\ x \in Int /\ z \in Int
      BY <1>6, <1>7
    <3> QED
      BY <1>7, <3>1, <3>2, <3>3, <3>4
  <2>2. PICK y \in E : y \in 0..H /\ l <= y /\ y <= h
    BY <1>14, <2>1
  <2>3. l \in E
    BY <1>6, <1>7, <1>11, <2>2
  <2>4. h \in E
    <3>1. CASE h \in E
      BY <3>1
    <3>2. CASE h <= 0
      <4>1. h = y
        BY <1>7, <2>2, <3>2
      <4> QED
        BY <2>2, <4>1
    <3> QED
      BY <1>7, <1>11, <3>1, <3>2
  <2>5. E \in SUBSET Int
    BY <1>5
  <2>6. Min(E) = l /\ Max(E) = h
    BY <2>1, <2>3, <2>4, <2>5, MinIs, MaxIs
  <2> QED
    BY <1>5, <1>8, <1>14, <2>6 DEF Exact, E
<1> QED
  BY <1>13, <1>14

LEMMA AllExact ==
  ASSUME TypeInv, TreeSound, Intervals, pc # "backup", NEW s \in Scenarios
  PROVE  \A n \in visited[s] : Exact(s, n)
<1> DEFINE S == {k \in Nat : \A n \in visited[s] : H = Depth[n] + k => Exact(s, n)}
<1>1. \A n \in visited[s] :
        /\ n \in Nodes /\ Depth[n] \in 0..H
        /\ \/ Depth[n] = H /\ lo[s][n] = H /\ hi[s][n] = H
           \/ Depth[n] # H /\ Agree(s, n)
  BY TypeParts, DepthType DEF TreeTypes, Intervals, Pending
<1>2. 0 \in S
  <2> SUFFICES ASSUME NEW n \in visited[s], H = Depth[n] + 0 PROVE Exact(s, n)
    OBVIOUS
  <2>1. Depth[n] = H
    BY <1>1
  <2> QED
    BY <1>1, <2>1, LeafExact
<1>3. \A k \in Nat : k \in S => k + 1 \in S
  <2> SUFFICES ASSUME NEW k \in Nat, k \in S, NEW n \in visited[s], H = Depth[n] + (k + 1)
               PROVE  Exact(s, n)
    OBVIOUS
  <2>1. Depth[n] # H /\ n \in Nodes /\ Depth[n] \in 0..H
    BY <1>1
  <2>2. \A c \in Children(n) : c \in visited[s] => Exact(s, c)
    <3> SUFFICES ASSUME NEW c \in Children(n), c \in visited[s] PROVE Exact(s, c)
      OBVIOUS
    <3>1. H = Depth[c] + k
      BY <2>1, ChildrenFact
    <3> QED
      BY <3>1
  <2> QED
    BY <1>1, <2>1, <2>2, InnerExact
<1> HIDE DEF S
<1>4. \A k \in Nat : k \in S
  BY <1>2, <1>3, SetInduction
<1>5. ASSUME NEW n \in visited[s] PROVE Exact(s, n)
  <2>1. H - Depth[n] \in Nat /\ H = Depth[n] + (H - Depth[n])
    BY <1>1, Sizes
  <2>2. H - Depth[n] \in S
    BY <1>4, <2>1
  <2> QED
    BY <2>1, <2>2 DEF S
<1> QED
  BY <1>5

(* Whatever the search has done, between two iterations the interval of    *)
(* every visited node is what a recomputation from the leaves up gives:    *)
(* leaving a climb at the first unchanged interval loses nothing, and the  *)
(* flags an earlier search left behind are outweighed by resetting the     *)
(* intervals.  It takes an ego that has a candidate wherever it can get.   *)
THEOREM IntervalsExact ==
  ASSUME NEW L, OnPaths(L)
  PROVE  Spec => []IntervalExact
<1>1. Init => DepthInv(L)
  BY InitDepth
<1>2. SearchInv /\ SearchInv' /\ DepthInv(L) /\ [Next]_vars => DepthInv(L)'
  BY DepthStep
<1>3. SearchInv /\ DepthInv(L) => IntervalExact
  <2> SUFFICES ASSUME SearchInv, DepthInv(L), pc = "loop" PROVE IntervalExact
    BY DEF IntervalExact
  <2>1. \A s \in Scenarios : \A n \in visited[s] : Exact(s, n)
    BY AllExact DEF SearchInv, DepthInv
  <2> QED
    BY <2>1 DEF IntervalExact, Exact
<1> QED
  BY InitSearch, SearchStep, <1>1, <1>2, <1>3, PTL DEF Spec
=============================================================================
