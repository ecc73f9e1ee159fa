------------------------- MODULE PlannerFrameProofs -------------------------
(***************************************************************************)
(* PlannerFrame for every map, route, scenario and sequence of frames.     *)
(* The drivable area: the two halves of the incremental update, one in     *)
(* Python and one in C++, never drift apart.  The lights: every path that  *)
(* is planned with shows those of its frame.  The current index and the    *)
(* last action: while the map leaves a path, both name one.  The tables of *)
(* every path that is planned with: however edges are strung together,     *)
(* they are of one size, and complete.                                     *)
(***************************************************************************)
EXTENDS PlannerFrame, DataLemmas

(* What makes DrivableMirrorsPython inductive: blocks Python believes      *)
(* constructed are among the edges it believes constructed, or a block     *)
(* that is kept would be taken to be here already when it is not.          *)
BlocksBuilt == UNION built.blocks \subseteq built.edges

DrivableInv == DrivableMirrorsPython /\ BlocksBuilt

(* What one call of GetDrivableMapObjects returns, whatever blocks it      *)
(* takes.                                                                  *)
Objects(taken, line, here) ==
  LET known == UNION (taken \intersect built.blocks)
      fresh == UNION (taken \ built.blocks)
      edges == known \union fresh \union line
  IN  [built  |-> [blocks |-> taken, edges |-> edges, at |-> here],
       insert |-> fresh \union (line \ known),
       delete |-> built.edges \ edges]

(* DrivableMapObjects is Objects of some set of blocks.                    *)
LEMMA SomeBlocks ==
  ASSUME NEW e, NEW line, NEW reach
  PROVE  \E taken : DrivableMapObjects(e, line, reach) = Objects(taken, line, BlockOf(e))
BY DEF DrivableMapObjects, Objects

(* Deleting and inserting what a call announces gives what Python then     *)
(* believes (UpdateDrivableMapObjects).                                    *)
LEMMA UpdateKeeps ==
  ASSUME DrivableInv, NEW e, NEW line, UpdateDrivableMapObjects(e, line)
  PROVE  DrivableInv'
<1>1. PICK reach \in BOOLEAN :
        /\ built' = DrivableMapObjects(e, line, reach).built
        /\ drivable' = (drivable \ DrivableMapObjects(e, line, reach).delete)
                         \union DrivableMapObjects(e, line, reach).insert
  BY DEF UpdateDrivableMapObjects
<1>2. PICK taken : DrivableMapObjects(e, line, reach) = Objects(taken, line, BlockOf(e))
  BY SomeBlocks
<1>3. /\ built'.blocks = taken
      /\ built'.edges = (UNION (taken \intersect built.blocks))
                          \union (UNION (taken \ built.blocks)) \union line
  BY <1>1, <1>2 DEF Objects
<1>4. drivable' = (drivable \ (built.edges \ built'.edges))
                    \union (UNION (taken \ built.blocks))
                    \union (line \ (UNION (taken \intersect built.blocks)))
  BY <1>1, <1>2, <1>3 DEF Objects
<1>5. UNION (taken \intersect built.blocks) \subseteq built.edges
  BY DEF DrivableInv, BlocksBuilt
<1>6. drivable' = built'.edges
  BY <1>3, <1>4, <1>5 DEF DrivableInv, DrivableMirrorsPython
<1>7. UNION built'.blocks \subseteq built'.edges
  BY <1>3
<1> QED
  BY <1>6, <1>7 DEF DrivableInv, DrivableMirrorsPython, BlocksBuilt

(* Nothing is constructed, here or there, when a planner is new.           *)
LEMMA DrivableInit == Init => DrivableInv
BY DEF Init, DrivableInv, DrivableMirrorsPython, BlocksBuilt

(* Neither half moves without the other.                                   *)
LEMMA DrivableStep == DrivableInv /\ [Next]_vars => DrivableInv'
<1> SUFFICES ASSUME DrivableInv, [Next]_vars PROVE DrivableInv'
  OBVIOUS
<1> USE DEF DrivableInv, DrivableMirrorsPython, BlocksBuilt
<1>1. CASE NextScenario
  BY <1>1 DEF NextScenario
<1>2. CASE Observe
  BY <1>2 DEF Observe
<1>3. CASE LocaliseFirst
  <2>1. \E e, line : UpdateDrivableMapObjects(e, line)
    BY <1>3 DEF LocaliseFirst
  <2> QED
    BY <2>1, UpdateKeeps
<1>4. CASE LocaliseNext
  <2>1. PICK e : LocaliseOn(e)
    BY <1>4 DEF LocaliseNext
  <2>2. CASE UNCHANGED <<built, drivable>>
    BY <2>2
  <2>3. CASE UpdateDrivableMapObjects(e, ego'.line)
    BY <2>3, UpdateKeeps
  <2> QED
    BY <2>1, <2>2, <2>3 DEF LocaliseOn
<1>5. CASE Plan
  BY <1>5 DEF Plan
<1>6. CASE UNCHANGED vars
  BY <1>6 DEF vars
<1> QED
  BY <1>1, <1>2, <1>3, <1>4, <1>5, <1>6 DEF Next

(* The polygons the occupancy map holds are the ones the Python side takes *)
(* to be there, over any sequence of frames, scenarios and routes.         *)
THEOREM DrivableMirrorsHolds == Spec => []DrivableMirrorsPython
<1>1. DrivableInv => DrivableMirrorsPython
  BY DEF DrivableInv
<1> QED
  BY <1>1, DrivableInit, DrivableStep, PTL DEF Spec

---------------------------------------------------------------------------
(* An edge, or none.                                                       *)
MaybeEdges == Edges \union {NoEdge}

(* SortedAt has an entry for each index.                                   *)
LEMMA SortedAtLen ==
  ASSUME NEW s, NEW at, NEW key, Cardinality(at) \in Nat
  PROVE  /\ DOMAIN SortedAt(s, at, key) = 1..Cardinality(at)
         /\ Len(SortedAt(s, at, key)) = Cardinality(at)
<1> DEFINE before(i, j) == key[s[i]] < key[s[j]] \/ (key[s[i]] = key[s[j]] /\ i < j)
           place(i)     == 1 + Cardinality({j \in at : before(j, i)})
           n == Cardinality(at)
           f == [k \in 1..n |-> s[CHOOSE i \in at : place(i) = k]]
<1>1. f \in Seq(ToSet(f)) /\ Len(f) = n
  <2>1. \A k \in 1..n : f[k] \in ToSet(f)
    BY DEF ToSet
  <2>2. f = [k \in 1..n |-> f[k]]
    OBVIOUS
  <2> HIDE DEF f, n
  <2> QED BY <2>1, <2>2 DEF n
<1>2. SortedAt(s, at, key) = SubSeq(f, 1, n)
  BY DEF SortedAt
<1>3. DOMAIN SubSeq(f, 1, n) = 1..n /\ Len(SubSeq(f, 1, n)) = n
  <2> HIDE DEF f
  <2> QED BY <1>1
<1> QED BY <1>2, <1>3

(* Indices of a sequence can be counted.                                   *)
LEMMA IndexSets ==
  ASSUME NEW m \in Nat, NEW at \in SUBSET (1..m)
  PROVE  /\ IsFiniteSet(at) /\ Cardinality(at) \in Nat
         /\ at # {} => Cardinality(at) >= 1
<1>1. IsFiniteSet(at)
  <2>1. IsFiniteSet(1..m)
    BY FS_Interval
  <2> QED BY <2>1, FS_Subset
<1> QED BY <1>1, FS_CardinalityType, FS_EmptySet

(* The entries of SortedAt are those at the indices. *)
LEMMA SortedAtEntries ==
  ASSUME NEW s, NEW m \in Nat, NEW at \in SUBSET (1..m), NEW key,
         \A i \in at : key[s[i]] \in Int
  PROVE  SortedAt(s, at, key) \in Seq({s[i] : i \in at})
<1> DEFINE v(i) == key[s[i]]
           before(i, j) == v(i) < v(j) \/ (v(i) = v(j) /\ i < j)
           ahead(i) == {j \in at : before(j, i)}
           place(i) == 1 + Cardinality(ahead(i))
           n == Cardinality(at)
           f == [i \in at |-> place(i)]
           sorted == [k \in 1..n |-> s[CHOOSE i \in at : place(i) = k]]
<1>1. IsFiniteSet(at) /\ n \in Nat
  <2>1. IsFiniteSet(1..m)
    BY FS_Interval
  <2> QED BY <2>1, FS_Subset, FS_CardinalityType
<1>a. \A i \in at : v(i) \in Int /\ i \in Int
  <2>1. \A i \in at : v(i) \in Int
    BY Zenon
  <2>2. \A i \in at : i \in Int
    OBVIOUS
  <2> QED BY <2>1, <2>2, Zenon
<1>b. SortedAt(s, at, key) = SubSeq(sorted, 1, n)
  BY DEF SortedAt
<1> HIDE DEF v
<1>2. \A i \in at : ~before(i, i)
  BY <1>a
<1>3. \A i, j \in at : i # j => before(i, j) \/ before(j, i)
  <2> TAKE i, j \in at
  <2>1. v(i) \in Int /\ v(j) \in Int /\ i \in Int /\ j \in Int
    BY <1>a, Zenon
  <2> QED BY <2>1
<1>4. \A i, j, k \in at : before(i, j) /\ before(j, k) => before(i, k)
  <2> TAKE i, j, k \in at
  <2>1. /\ v(i) \in Int /\ v(j) \in Int /\ v(k) \in Int
        /\ i \in Int /\ j \in Int /\ k \in Int
    BY <1>a, Zenon
  <2> QED BY <2>1
<1> HIDE DEF before
<1>5. \A i \in at : place(i) \in 1..n
  <2> SUFFICES ASSUME NEW i \in at PROVE place(i) \in 1..n
    OBVIOUS
  <2>1. ahead(i) \subseteq at \ {i}
    BY <1>2
  <2>2. IsFiniteSet(at \ {i}) /\ Cardinality(at \ {i}) = n - 1
    BY <1>1, FS_RemoveElement
  <2>3. IsFiniteSet(ahead(i)) /\ Cardinality(ahead(i)) <= n - 1
    BY <2>1, <2>2, FS_Subset
  <2> QED BY <1>1, <2>3, FS_CardinalityType
<1>6. \A i, j \in at : before(i, j) => place(i) < place(j)
  <2> SUFFICES ASSUME NEW i \in at, NEW j \in at, before(i, j) PROVE place(i) < place(j)
    OBVIOUS
  <2>1. IsFiniteSet(ahead(j)) /\ ahead(i) \subseteq ahead(j) /\ ahead(i) # ahead(j)
    BY <1>1, <1>2, <1>4, FS_Subset
  <2> HIDE DEF ahead
  <2>2. IsFiniteSet(ahead(i)) /\ Cardinality(ahead(i)) < Cardinality(ahead(j))
    <3>1. /\ IsFiniteSet(ahead(i)) /\ Cardinality(ahead(i)) <= Cardinality(ahead(j))
          /\ Cardinality(ahead(i)) = Cardinality(ahead(j)) => ahead(i) = ahead(j)
      BY <2>1, FS_Subset
    <3> QED BY <2>1, <3>1, FS_CardinalityType
  <2> QED BY <2>1, <2>2, FS_CardinalityType
<1>7. \A i, j \in at : place(i) = place(j) => i = j
  <2> HIDE DEF place
  <2> TAKE i, j \in at
  <2>1. place(i) \in Int /\ place(j) \in Int
    BY <1>1, <1>5
  <2>2. i # j => place(i) < place(j) \/ place(j) < place(i)
    BY <1>3, <1>6, Zenon
  <2> QED BY <2>1, <2>2
<1>8. \A k \in 1..n : \E i \in at : place(i) = k
  <2>1. f \in [at -> 1..n] /\ \A i, j \in at : f[i] = f[j] => i = j
    <3> HIDE DEF place
    <3> QED BY <1>5, <1>7
  <2>2. \A k \in 1..n : \E i \in at : f[i] = k
    <3> HIDE DEF f
    <3> QED BY <1>1, <2>1, OneToOneIsOnto
  <2> QED BY <2>2
<1>9. \A k \in 1..n : \E i \in at : sorted[k] = s[i]
  <2> HIDE DEF place
  <2> QED BY <1>8
<1> DEFINE V == {s[i] : i \in at}
<1>10. sorted \in Seq(V) /\ Len(sorted) = n
  <2>1. sorted = [k \in 1..n |-> sorted[k]]
    OBVIOUS
  <2>2. \A k \in 1..n : sorted[k] \in V
    BY <1>9
  <2> HIDE DEF sorted, n, V
  <2> QED BY <1>1, <2>1, <2>2
<1>11. SubSeq(sorted, 1, n) \in Seq(V)
  <2> HIDE DEF sorted, n, V
  <2> QED BY <1>1, <1>10
<1> QED BY <1>11, <1>b

(* ComputeLeftDepth ends: lanes do not lie side by side in a circle, so    *)
(* every set of edges has one whose left neighbour is not in it.           *)
LEMMA SomeLeftmost ==
  ASSUME NEW S \in SUBSET MaybeEdges, S # {}
  PROVE  \E e \in S : e = NoEdge \/ (e \in Edges /\ LeftOf[e] \notin S)
<1>1. CASE NoEdge \in S
  BY <1>1
<1>2. CASE NoEdge \notin S /\ S \intersect Lanes = {}
  <2>1. PICK e \in S : e \in Edges
    BY <1>2 DEF MaybeEdges
  <2>2. LeftOf[e] \in Lanes \union {NoEdge}
    BY <2>1, MapAssumption
  <2> QED BY <1>2, <2>1, <2>2
<1>3. CASE NoEdge \notin S /\ S \intersect Lanes # {}
  <2> DEFINE side == S \intersect Lanes
  <2>1. PICK e \in side : LeftOf[e] \notin side
    <3>1. side \in SUBSET Lanes /\ side # {}
      BY <1>3
    <3> HIDE DEF side
    <3> QED BY <3>1, MapAssumption, Zenon
  <2>2. e \in Edges /\ LeftOf[e] \in Lanes \union {NoEdge}
    <3>1. e \in Edges
      BY <2>1 DEF Edges
    <3> QED BY <3>1, MapAssumption
  <2> QED BY <1>3, <2>1, <2>2
<1> QED BY <1>1, <1>2, <1>3

(* One step of the recursion of LeftDepth.                                 *)
DepthBy(g, e) == IF e = NoEdge THEN 10 ELSE IF LeftOf[e] = NoEdge THEN 0 ELSE 1 + g[LeftOf[e]]

(* Depths of some edges and of all that lie to the left of them.           *)
Depths(D, g) ==
  /\ D \in SUBSET MaybeEdges /\ g \in [D -> Nat]
  /\ \A e \in D : /\ e = NoEdge \/ LeftOf[e] = NoEdge \/ LeftOf[e] \in D
                  /\ g[e] = DepthBy(g, e)

(* Depths that are counted from different edges agree where they meet.     *)
LEMMA DepthsAgree ==
  ASSUME NEW D, NEW g, NEW C, NEW h, Depths(D, g), Depths(C, h)
  PROVE  \A e \in D \intersect C : g[e] = h[e]
<1> DEFINE S == {e \in D \intersect C : g[e] # h[e]}
<1>1. SUFFICES ASSUME S # {} PROVE FALSE
  OBVIOUS
<1>2. S \in SUBSET MaybeEdges
  BY DEF Depths
<1>3. PICK e \in S : e = NoEdge \/ (e \in Edges /\ LeftOf[e] \notin S)
  <2> HIDE DEF S
  <2> QED BY <1>1, <1>2, SomeLeftmost
<1>4. g[e] = DepthBy(g, e) /\ h[e] = DepthBy(h, e)
  BY DEF Depths
<1>5. e # NoEdge /\ LeftOf[e] # NoEdge
  BY <1>4 DEF DepthBy
<1>6. LeftOf[e] \in D \intersect C
  BY <1>5 DEF Depths
<1>7. g[LeftOf[e]] = h[LeftOf[e]]
  BY <1>3, <1>5, <1>6
<1> QED BY <1>4, <1>5, <1>7 DEF DepthBy

(* Counting to the left ends, as lanes do not lie side by side in a        *)
(* circle; so every edge has a depth.                                      *)
LEMMA DepthsExist ==
  ASSUME NEW e \in MaybeEdges
  PROVE  \E D, g : e \in D /\ Depths(D, g)
<1> DEFINE S == {x \in MaybeEdges : ~\E D, g : x \in D /\ Depths(D, g)}
<1>1. SUFFICES ASSUME S # {} PROVE FALSE
  OBVIOUS
<1>2. PICK x \in S : x = NoEdge \/ (x \in Edges /\ LeftOf[x] \notin S)
  <2>1. S \in SUBSET MaybeEdges
    OBVIOUS
  <2> HIDE DEF S
  <2> QED BY <1>1, <2>1, SomeLeftmost
<1>3. CASE x = NoEdge \/ LeftOf[x] = NoEdge
  <2> DEFINE g == [y \in {x} |-> IF x = NoEdge THEN 10 ELSE 0]
  <2>1. g \in [{x} -> Nat] /\ g[x] = IF x = NoEdge THEN 10 ELSE 0
    OBVIOUS
  <2>2. Depths({x}, g)
    <3> HIDE DEF g
    <3> QED BY <1>2, <1>3, <2>1 DEF Depths, DepthBy
  <2> QED BY <2>2
<1>4. CASE x # NoEdge /\ LeftOf[x] # NoEdge
  <2>1. x \in Edges /\ LeftOf[x] \in MaybeEdges /\ LeftOf[x] \notin S
    <3>1. x \in Edges
      BY <1>2, <1>4 DEF MaybeEdges
    <3>2. LeftOf[x] \in MaybeEdges
      BY <3>1, MapAssumption DEF MaybeEdges, Edges
    <3> QED BY <1>2, <1>4, <3>1, <3>2
  <2>2. PICK D, g : LeftOf[x] \in D /\ Depths(D, g)
    BY <2>1
  <2>3. x \notin D
    BY <2>2
  <2> DEFINE C == D \union {x}
             h == [y \in C |-> IF y \in D THEN g[y] ELSE 1 + g[LeftOf[x]]]
  <2>4. h \in [C -> Nat] /\ (\A y \in D : h[y] = g[y]) /\ h[x] = 1 + g[LeftOf[x]]
    BY <2>2, <2>3 DEF Depths
  <2>5. C \in SUBSET MaybeEdges
    BY <2>2 DEF Depths
  <2>6. \A y \in C : /\ y = NoEdge \/ LeftOf[y] = NoEdge \/ LeftOf[y] \in C
                     /\ h[y] = DepthBy(h, y)
    <3> SUFFICES ASSUME NEW y \in C
                 PROVE  /\ y = NoEdge \/ LeftOf[y] = NoEdge \/ LeftOf[y] \in C
                        /\ h[y] = DepthBy(h, y)
      OBVIOUS
    <3> HIDE DEF h
    <3>1. CASE y \in D
      <4>1. /\ y = NoEdge \/ LeftOf[y] = NoEdge \/ LeftOf[y] \in D
            /\ g[y] = DepthBy(g, y)
        BY <2>2, <3>1 DEF Depths
      <4> QED BY <2>4, <3>1, <4>1 DEF DepthBy
    <3>2. CASE y = x
      BY <1>4, <2>2, <2>4, <3>2 DEF DepthBy
    <3> QED BY <3>1, <3>2
  <2>7. Depths(C, h)
    <3> HIDE DEF C, h
    <3> QED BY <2>4, <2>5, <2>6 DEF Depths
  <2> QED BY <2>7
<1> QED BY <1>3, <1>4

(* So ComputeLeftDepth gives a number for every edge.                      *)
LEMMA LeftDepthType == \A e \in MaybeEdges : LeftDepth[e] \in Nat
<1> DEFINE at(e) == CHOOSE g : \E D : e \in D /\ Depths(D, g)
           all == [e \in MaybeEdges |-> at(e)[e]]
<1>1. \A e \in MaybeEdges : \E D : e \in D /\ Depths(D, at(e))
  <2> TAKE e \in MaybeEdges
  <2>1. \E g : \E D : e \in D /\ Depths(D, g)
    BY DepthsExist
  <2> QED BY <2>1, Zenon
<1> HIDE DEF at
<1>2. \A e \in MaybeEdges : all[e] = DepthBy(all, e)
  <2> SUFFICES ASSUME NEW e \in MaybeEdges PROVE all[e] = DepthBy(all, e)
    OBVIOUS
  <2>1. PICK D : e \in D /\ Depths(D, at(e))
    BY <1>1
  <2>2. /\ e = NoEdge \/ LeftOf[e] = NoEdge \/ LeftOf[e] \in D
        /\ at(e)[e] = DepthBy(at(e), e)
    BY <2>1 DEF Depths
  <2>3. CASE e = NoEdge \/ LeftOf[e] = NoEdge
    BY <2>2, <2>3 DEF DepthBy
  <2>4. CASE e # NoEdge /\ LeftOf[e] # NoEdge
    <3> DEFINE f == LeftOf[e]
    <3>1. f \in D /\ f \in MaybeEdges
      BY <2>1, <2>2, <2>4 DEF Depths
    <3>2. PICK C : f \in C /\ Depths(C, at(f))
      BY <1>1, <3>1
    <3>3. at(e)[f] = at(f)[f]
      BY <2>1, <3>1, <3>2, DepthsAgree
    <3> QED BY <2>2, <2>4, <3>1, <3>3 DEF DepthBy
  <2> QED BY <2>3, <2>4
<1>3. all = [e \in MaybeEdges |-> DepthBy(all, e)]
  <2>1. all = [e \in MaybeEdges |-> all[e]]
    OBVIOUS
  <2> HIDE DEF all
  <2> QED BY <1>2, <2>1
<1> HIDE DEF all
<1>4. LeftDepth = [e \in MaybeEdges |-> DepthBy(LeftDepth, e)]
  <2>1. LeftDepth = CHOOSE f : f = [e \in MaybeEdges |-> DepthBy(f, e)]
    BY DEF LeftDepth, DepthBy, MaybeEdges
  <2> QED BY <1>3, <2>1, Zenon
<1>5. \A e \in MaybeEdges : LeftDepth[e] = DepthBy(LeftDepth, e)
  <2> DEFINE d == LeftDepth
  <2>1. d = [e \in MaybeEdges |-> DepthBy(d, e)]
    BY <1>4
  <2> HIDE DEF d
  <2>2. \A e \in MaybeEdges : d[e] = DepthBy(d, e)
    BY <2>1
  <2> QED BY <2>2 DEF d
<1> DEFINE S == {e \in MaybeEdges : LeftDepth[e] \notin Nat}
<1>6. SUFFICES ASSUME S # {} PROVE FALSE
  OBVIOUS
<1>7. PICK e \in S : e = NoEdge \/ (e \in Edges /\ LeftOf[e] \notin S)
  <2>1. S \in SUBSET MaybeEdges
    OBVIOUS
  <2> HIDE DEF S
  <2> QED BY <1>6, <2>1, SomeLeftmost
<1>8. e # NoEdge /\ LeftOf[e] # NoEdge
  BY <1>5 DEF DepthBy
<1>9. LeftOf[e] \in MaybeEdges
  BY <1>7, <1>8, MapAssumption DEF MaybeEdges, Edges
<1>10. LeftDepth[LeftOf[e]] \in Nat
  BY <1>7, <1>8, <1>9
<1> QED BY <1>5, <1>8, <1>10 DEF DepthBy

(* The entries of SortedAt are entries of the sequence. *)
LEMMA SortedAtSeq ==
  ASSUME NEW V, NEW s \in Seq(V), NEW at \in SUBSET DOMAIN s, NEW key,
         \A i \in at : key[s[i]] \in Int
  PROVE  /\ SortedAt(s, at, key) \in Seq({s[i] : i \in at})
         /\ SortedAt(s, at, key) \in Seq(V)
         /\ at # {} => SortedAt(s, at, key) # <<>>
<1> DEFINE t == SortedAt(s, at, key)
           W == {s[i] : i \in at}
           n == Cardinality(at)
<1>1. Len(s) \in Nat /\ at \in SUBSET (1..Len(s))
  OBVIOUS
<1>2. IsFiniteSet(at) /\ n \in Nat /\ (at # {} => n >= 1)
  BY <1>1, IndexSets
<1>3. Len(t) = n
  BY <1>2, SortedAtLen
<1>4. t \in Seq(W)
  BY <1>1, SortedAtEntries
<1>5. W \subseteq V
  OBVIOUS
<1> HIDE DEF t, W, n
<1> QED BY <1>2, <1>3, <1>4, <1>5 DEF t, W

(* What the cached tables of successors hold. *)
LEMMA SuccessorsType ==
  ASSUME route \in Routes, NEW e \in Edges
  PROVE  /\ RouteSuccessors(e) \in Seq(Edges)
         /\ Succ[e] # <<>> => RouteSuccessors(e) # <<>>
<1> DEFINE s == Succ[e]
           kept == {i \in DOMAIN s : LeadsOn(route, s[i])}
           at == IF kept = {} THEN DOMAIN s ELSE kept
           key == Miss
<1>1. RouteSuccessors(e) = SortedAt(s, at, key)
  BY DEF RouteSuccessors, SuccessorTable, GetRouteSuccessorIdsById
<1>2. s \in Seq(Edges)
  BY MapAssumption
<1>3. at \in SUBSET DOMAIN s /\ (at = {} <=> DOMAIN s = {})
  OBVIOUS
<1> HIDE DEF s, at
<1>4. \A i \in at : key[s[i]] \in Int
  <2> TAKE i \in at
  <2>1. s[i] \in Edges
    BY <1>2, <1>3
  <2> QED BY <2>1, MapAssumption
<1>5. DOMAIN s = {} <=> s = <<>>
  BY <1>2
<1> HIDE DEF key
<1>6. SortedAt(s, at, key) \in Seq(Edges) /\ (at # {} => SortedAt(s, at, key) # <<>>)
  BY <1>2, <1>3, <1>4, SortedAtSeq
<1>7. s # <<>> => RouteSuccessors(e) # <<>>
  BY <1>1, <1>3, <1>5, <1>6
<1> QED BY <1>1, <1>6, <1>7 DEF s

(* And of predecessors: each has the edge among its successors. *)
LEMMA PredecessorsType ==
  ASSUME route \in Routes, NEW e \in Edges
  PROVE  /\ RoutePredecessors(e) \in Seq(Edges)
         /\ RoutePredecessors(e) # <<>> => Succ[RoutePredecessors(e)[1]] # <<>>
<1> DEFINE s == Pred[e]
           W == {p \in Edges : Succ[p] # <<>>}
           kept == {i \in DOMAIN s : s[i] \in route}
           key == [x \in ToSet(s) |-> 0]
<1>1. RoutePredecessors(e) = IF kept = {} THEN s ELSE SortedAt(s, kept, key)
  BY DEF RoutePredecessors, PredecessorTable, GetRoutePredecessorIdsById, Kept
<1>2. s \in Seq(Edges)
  BY MapAssumption
<1>3. s \in Seq(W)
  <2>1. \A k \in 1..Len(s) : s[k] \in W
    <3> TAKE k \in 1..Len(s)
    <3>1. s[k] \in Edges /\ s[k] \in ToSet(s)
      BY <1>2 DEF ToSet
    <3>2. e \in ToSet(Succ[s[k]])
      BY <3>1, MapAssumption
    <3>3. Succ[s[k]] # <<>>
      BY <3>2 DEF ToSet
    <3> QED BY <3>1, <3>3
  <2> HIDE DEF s, W
  <2> QED BY <1>2, <2>1
<1>4. kept \in SUBSET DOMAIN s
  OBVIOUS
<1>5. \A i \in kept : key[s[i]] \in Int
  <2> TAKE i \in kept
  <2>1. s[i] \in ToSet(s)
    BY DEF ToSet
  <2> HIDE DEF s
  <2> QED BY <2>1
<1>6. SortedAt(s, kept, key) \in Seq(W)
  <2> HIDE DEF s, W, kept, key
  <2> QED BY <1>3, <1>4, <1>5, SortedAtSeq
<1>7. RoutePredecessors(e) \in Seq(W)
  BY <1>1, <1>3, <1>6
<1>8. \A t \in Seq(W) : t \in Seq(Edges) /\ (t # <<>> => t[1] \in W)
  OBVIOUS
<1> QED BY <1>7, <1>8

(* The next edge, if there is one, is an edge. *)
LEMMA NextType ==
  ASSUME route \in Routes, NEW e
  PROVE  NextOnRoute(e) \in MaybeEdges
<1>1. CASE e \in Edges
  BY <1>1, SuccessorsType DEF NextOnRoute, HeadOr, MaybeEdges
<1>2. CASE e \notin Edges
  BY <1>2 DEF NextOnRoute, HeadOr, RouteSuccessors, MaybeEdges
<1> QED BY <1>1, <1>2

(* FirstAt takes an entry, if there is any. *)
LEMMA FirstAtType ==
  ASSUME NEW s \in Seq(Edges), NEW at \in SUBSET DOMAIN s
  PROVE  FirstAt(s, at) \in MaybeEdges /\ (s # <<>> => FirstAt(s, at) \in Edges)
<1>1. at # {} => Min(at) \in DOMAIN s
  <2>1. 1 \in Int /\ at \in SUBSET Int /\ \A i \in at : 1 <= i
    OBVIOUS
  <2>2. at # {} => Min(at) \in at
    BY <2>1, MinFact
  <2> QED BY <2>2
<1> QED BY <1>1 DEF FirstAt, HeadOr, MaybeEdges

(* How far a path looks ahead. *)
LEMMA LookAheadType ==
  ASSUME route \in Routes, NEW e \in Edges
  PROVE  LookAhead(e) \in Nat \ {0} /\ Lookback \in Nat \ {0}
<1>1. NextOnRoute(e) # NoEdge => NextOnRoute(e) \in Edges
  BY NextType DEF MaybeEdges
<1>2. \A x \in Edges : Points[x] \in Nat \ {0}
  BY MapAssumption
<1>3. {Lookback, Ahead, Segment} \subseteq Nat \ {0}
  BY PathAssumption
<1> QED BY <1>1, <1>2, <1>3 DEF LookAhead

(* The chunks a path can be strung together from: points of one edge.      *)
Chunks == {c \in [id : Edges, src : Nat, at : Nat, count : Nat \ {0}] :
             c.src + c.count <= Points[c.id]}

(* A sequence of numbers that never go back. *)
Ascending(s) == \A i, j \in 1..Len(s) : i <= j => s[i] <= s[j]

(* GetRefLine: the segments of an edge never go back and end at its last   *)
(* point.                                                                  *)
LEMMA SegmentEndsFact ==
  ASSUME NEW e \in Edges
  PROVE  /\ SegmentEnds(e) \in Seq(Nat) /\ Len(SegmentEnds(e)) >= 1
         /\ DOMAIN SegmentEnds(e) = 1..Len(SegmentEnds(e))
         /\ Ascending(SegmentEnds(e))
         /\ SegmentEnds(e)[Len(SegmentEnds(e))] = Points[e] - 1
<1> DEFINE p == Points[e]
           s == Segment
           whole == p \div s
           n == IF whole > 1 THEN whole ELSE 1
           ends == [i \in 1..n |-> IF i < whole THEN i * s - 1 ELSE p - 1]
<1>1. p \in Nat \ {0} /\ s \in Nat \ {0}
  BY MapAssumption, PathAssumption
<1>2. SegmentEnds(e) = ends
  BY DEF SegmentEnds
<1> HIDE DEF p, s
<1>3. whole \in Nat /\ whole * s <= p
  BY <1>1, Floors
<1> HIDE DEF whole
<1>4. n \in Nat /\ n >= 1 /\ (n = whole \/ (n = 1 /\ whole <= 1))
  BY <1>3
<1>5. \A i \in 1..n : ends[i] = IF i < whole THEN i * s - 1 ELSE p - 1
  OBVIOUS
<1>6. \A i \in 1..n : i * s - 1 \in Nat
  BY <1>1, <1>4, Products
<1>7. \A i, j \in 1..n : i <= j => i * s - 1 <= j * s - 1
  <2> TAKE i, j \in 1..n
  <2>1. i \in Nat /\ j \in Nat
    BY <1>4
  <2>2. i * s \in Nat /\ j * s \in Nat /\ (i <= j => i * s <= j * s)
    BY <1>1, <2>1, Products
  <2> QED BY <2>2
<1>8. \A i \in 1..n : i < whole => i * s - 1 <= p - 1
  <2> SUFFICES ASSUME NEW i \in 1..n, i < whole PROVE i * s - 1 <= p - 1
    OBVIOUS
  <2>1. i * s \in Nat /\ whole * s \in Nat /\ i * s <= whole * s
    BY <1>1, <1>3, <1>4, Products
  <2> QED BY <1>1, <1>3, <2>1
<1>9. ends \in Seq(Nat) /\ Len(ends) = n /\ DOMAIN ends = 1..n
  <2>1. ends = [i \in 1..n |-> ends[i]] /\ \A i \in 1..n : ends[i] \in Nat
    BY <1>1, <1>6
  <2> HIDE DEF ends, n
  <2> QED BY <1>4, <2>1
<1>10. \A i, j \in 1..n : i <= j => ends[i] <= ends[j]
  <2> SUFFICES ASSUME NEW i \in 1..n, NEW j \in 1..n, i <= j PROVE ends[i] <= ends[j]
    OBVIOUS
  <2>0. i \in Int /\ j \in Int /\ whole \in Int
    BY <1>3, <1>4
  <2> HIDE DEF ends, n
  <2>1. CASE j < whole
    <3>1. i < whole
      BY <2>0, <2>1
    <3> QED BY <1>5, <1>7, <2>1, <3>1
  <2>2. CASE ~(j < whole) /\ i < whole
    BY <1>5, <1>8, <2>2
  <2>3. CASE ~(i < whole) /\ ~(j < whole)
    BY <1>1, <1>5, <2>3
  <2> QED BY <2>0, <2>1, <2>2, <2>3
<1>11. ends[n] = p - 1
  BY <1>3, <1>4, <1>5
<1> HIDE DEF ends, n
<1> QED BY <1>2, <1>4, <1>9, <1>10, <1>11 DEF Ascending, p

(* The anchors of a chunk leave none of its points out.                    *)
LEMMA AnchorsCover ==
  ASSUME NEW e, NEW at \in Nat, NEW count \in Nat \ {0}, NEW k \in at..(at + count - 1)
  PROVE  \E a \in AnchorSegments(e, at, count) : a[1] <= k /\ k <= a[2]
<1>1. CASE e \in Straight
  <2>1. <<at, at + count - 1>>[1] <= k /\ k <= <<at, at + count - 1>>[2]
    OBVIOUS
  <2>2. <<at, at + count - 1>> \in AnchorSegments(e, at, count)
    BY <1>1 DEF AnchorSegments
  <2> QED BY <2>1, <2>2
<1>2. CASE e \notin Straight
  <2> DEFINE s == Segment
             begins == {b \in 0..(count - 1) : b % s = 0 /\ b < count - s}
             rest == IF begins = {} THEN 0 ELSE Max(begins) + s
             anchors == {<<at + b, at + b + s>> : b \in begins}
                          \union {<<at + rest, at + count - 1>>}
  <2>1. AnchorSegments(e, at, count) = anchors
    BY <1>2 DEF AnchorSegments
  <2>2. s \in Nat \ {0}
    BY PathAssumption
  <2> HIDE DEF s
  <2>3. begins # {} => Max(begins) \in begins /\ \A b \in begins : Max(begins) >= b
    <3>1. count \in Int /\ begins \in SUBSET Int /\ \A b \in begins : b <= count
      OBVIOUS
    <3> HIDE DEF begins
    <3> QED BY <3>1, MaxFact
  <2>4. rest \in Nat
    BY <2>2, <2>3
  <2> DEFINE j == k - at
  <2>5. j \in Nat /\ j <= count - 1
    OBVIOUS
  <2>6. CASE rest <= j
    <3> DEFINE a == <<at + rest, at + count - 1>>
    <3>1. a[1] <= k /\ k <= a[2]
      <4> HIDE DEF rest
      <4> QED BY <2>4, <2>6
    <3>2. a \in anchors
      OBVIOUS
    <3> QED BY <2>1, <3>1, <3>2
  <2>7. CASE j < rest
    <3> DEFINE b == (j \div s) * s
               m == Max(begins)
               a == <<at + b, at + b + s>>
    <3>1. begins # {} /\ j < m + s
      BY <2>5, <2>7
    <3>2. m \in 0..(count - 1) /\ m % s = 0 /\ m < count - s
      BY <2>3, <3>1
    <3> HIDE DEF m
    <3>3. j \div s \in Nat /\ b <= j /\ j < b + s
      BY <2>2, <2>5, Floors
    <3>4. b \in Nat /\ b % s = 0
      BY <2>2, <3>3, Products
    <3>5. b <= m
      <4>1. m = (m \div s) * s /\ m \div s \in Nat
        BY <2>2, <3>2, Multiples
      <4>2. j \div s <= m \div s
        <5> SUFFICES ASSUME m \div s < j \div s PROVE FALSE
          BY <3>3, <4>1
        <5>1. (m \div s) * s + s <= b
          BY <2>2, <3>3, <4>1, Products
        <5> QED BY <2>2, <2>5, <3>1, <3>3, <3>4, <4>1, <5>1
      <4> QED BY <2>2, <3>3, <4>1, <4>2, Products
    <3> HIDE DEF b
    <3>6. b \in begins
      BY <2>2, <3>2, <3>4, <3>5
    <3>7. a \in anchors
      <4> HIDE DEF rest, begins
      <4> QED BY <3>6
    <3>8. a[1] <= k /\ k <= a[2]
      <4>1. k = at + j
        OBVIOUS
      <4> HIDE DEF j
      <4> QED BY <2>2, <2>5, <3>3, <3>4, <4>1
    <3> QED BY <2>1, <3>7, <3>8
  <2> HIDE DEF rest
  <2> QED BY <2>4, <2>5, <2>6, <2>7
<1> QED BY <1>1, <1>2

(* The fields of a chunk.                                                  *)
LEMMA ChunkFacts ==
  ASSUME NEW c \in Chunks
  PROVE  /\ c.id \in Edges /\ c.src \in Nat /\ c.at \in Nat /\ c.count \in Nat \ {0}
         /\ c.src + c.count <= Points[c.id] /\ Points[c.id] \in Nat \ {0}
         /\ PastEnd(c) \in Nat /\ PastEnd(c) = c.at + c.count /\ c.at < PastEnd(c)
<1>1. /\ c.id \in Edges /\ c.src \in Nat /\ c.at \in Nat /\ c.count \in Nat \ {0}
      /\ c.src + c.count <= Points[c.id]
  BY DEF Chunks
<1>2. Points[c.id] \in Nat \ {0}
  BY <1>1, MapAssumption
<1> QED BY <1>1, <1>2 DEF PastEnd

(* Any run of points of an edge is a chunk.                                *)
LEMMA ChunkIn ==
  ASSUME NEW e \in Edges, NEW src \in Nat, NEW at \in Nat, NEW count \in Nat \ {0},
         src + count <= Points[e]
  PROVE  /\ Chunk(e, src, at, count) \in Chunks
         /\ Chunk(e, src, at, count).id = e /\ Chunk(e, src, at, count).at = at
         /\ PastEnd(Chunk(e, src, at, count)) = at + count
BY DEF Chunk, Chunks, PastEnd

(* A chunk from the first point of an edge on.                             *)
LEMMA ChunkFromStart ==
  ASSUME NEW e, NEW at, NEW count,
         e \in Edges /\ at \in Nat /\ count \in Nat \ {0} /\ count <= Points[e]
  PROVE  /\ Chunk(e, 0, at, count) \in Chunks
         /\ Chunk(e, 0, at, count).at = at
         /\ PastEnd(Chunk(e, 0, at, count)) = at + count
BY DEF Chunk, Chunks, PastEnd

(* The segments of a chunk start in it, never go back and end at its last  *)
(* point (ExtendPath).                                                     *)
LEMMA SegmentsOfFact ==
  ASSUME NEW c \in Chunks
  PROVE  /\ SegmentsOf(c) \in Seq(Nat) /\ Len(SegmentsOf(c)) >= 1
         /\ Ascending(SegmentsOf(c))
         /\ \A k \in 1..Len(SegmentsOf(c)) : SegmentsOf(c)[k] >= c.at
         /\ \A k \in 1..Len(SegmentsOf(c)) : SegmentsOf(c)[k] <= PastEnd(c) - 1
         /\ SegmentsOf(c)[Len(SegmentsOf(c))] = PastEnd(c) - 1
<1> DEFINE ends == SegmentEnds(c.id)
           n == Len(ends)
           limit == PastEnd(c) - 1
           moved(k) == ends[k] - c.src + c.at
           reaching == {k \in DOMAIN ends : ends[k] >= c.src}
           cut == {k \in reaching : moved(k) >= limit}
           from == Min(reaching)
           last == Min(cut)
           m == last - from + 1
           s == [k \in 1..m |-> Least(moved(from + k - 1), limit)]
<1>1. SegmentsOf(c) = s
  BY DEF SegmentsOf, MovedEnd, Reaching
<1>2. /\ c.id \in Edges /\ c.src \in Nat /\ c.at \in Nat /\ c.count \in Nat \ {0}
      /\ c.src + c.count <= Points[c.id] /\ Points[c.id] \in Nat
      /\ limit = c.at + c.count - 1
  BY ChunkFacts
<1>3. /\ n \in Nat /\ n >= 1 /\ DOMAIN ends = 1..n /\ (\A k \in 1..n : ends[k] \in Nat)
      /\ (\A i, j \in 1..n : i <= j => ends[i] <= ends[j]) /\ ends[n] = Points[c.id] - 1
  <2>1. /\ ends \in Seq(Nat) /\ n >= 1 /\ DOMAIN ends = 1..n
        /\ Ascending(ends) /\ ends[n] = Points[c.id] - 1
    BY <1>2, SegmentEndsFact
  <2> HIDE DEF ends
  <2> QED BY <2>1 DEF Ascending
<1> HIDE DEF ends, limit
<1>4. reaching \in SUBSET (1..n) /\ n \in reaching
  BY <1>2, <1>3
<1>5. from \in reaching /\ \A k \in reaching : from <= k
  <2>1. 1 \in Int /\ reaching \in SUBSET Int /\ reaching # {} /\ \A k \in reaching : 1 <= k
    BY <1>3, <1>4
  <2> HIDE DEF reaching
  <2> QED BY <2>1, MinFact
<1>6. cut \in SUBSET reaching /\ n \in cut
  <2>1. moved(n) >= limit
    <3>1. moved(n) = (Points[c.id] - 1) - c.src + c.at
      <4> HIDE DEF n
      <4> QED BY <1>3
    <3>2. limit <= (Points[c.id] - 1) - c.src + c.at
      BY <1>2
    <3> HIDE DEF moved, n
    <3>3. (Points[c.id] - 1) - c.src + c.at \in Int /\ limit \in Int
      BY <1>2
    <3> QED BY <3>1, <3>2, <3>3
  <2> HIDE DEF moved, reaching, n
  <2> QED BY <1>4, <2>1
<1>7. last \in cut /\ \A k \in cut : last <= k
  <2>1. 1 \in Int /\ cut \in SUBSET Int /\ cut # {} /\ \A k \in cut : 1 <= k
    <3> HIDE DEF reaching, cut
    <3> QED BY <1>3, <1>4, <1>6
  <2> HIDE DEF cut
  <2> QED BY <2>1, MinFact
<1>8. from \in 1..n /\ last \in 1..n /\ from <= last
  <2> HIDE DEF from, last, reaching, cut
  <2> QED BY <1>4, <1>5, <1>6, <1>7
<1>9. moved(last) >= limit
  <2> HIDE DEF last, moved
  <2> QED BY <1>7
<1>10. ends[from] >= c.src
  <2> HIDE DEF from
  <2> QED BY <1>5
<1> HIDE DEF from, last, n
<1>11. m \in Nat /\ m >= 1 /\ \A k \in 1..m : from + k - 1 \in from..last
  BY <1>3, <1>8
<1>12. \A i \in from..last : moved(i) \in Nat /\ moved(i) >= c.at
  <2> SUFFICES ASSUME NEW i \in from..last PROVE moved(i) \in Nat /\ moved(i) >= c.at
    OBVIOUS
  <2>1. i \in 1..n /\ from <= i
    BY <1>3, <1>8
  <2>2. ends[i] \in Nat /\ ends[from] \in Nat /\ ends[from] <= ends[i]
    BY <1>3, <1>8, <2>1
  <2> QED BY <1>2, <1>10, <2>2
<1>13. \A i, j \in from..last : i <= j => moved(i) <= moved(j)
  <2> SUFFICES ASSUME NEW i \in from..last, NEW j \in from..last, i <= j PROVE moved(i) <= moved(j)
    OBVIOUS
  <2>1. i \in 1..n /\ j \in 1..n
    BY <1>3, <1>8
  <2>2. ends[i] \in Nat /\ ends[j] \in Nat /\ ends[i] <= ends[j]
    BY <1>3, <2>1
  <2> QED BY <1>2, <2>2
<1> HIDE DEF moved
<1>14. limit \in Nat /\ limit >= c.at
  BY <1>2
<1>15. \A k \in 1..m : s[k] = Least(moved(from + k - 1), limit)
  OBVIOUS
<1>16. \A k \in 1..m : s[k] \in Nat /\ s[k] >= c.at /\ s[k] <= limit
  <2> SUFFICES ASSUME NEW k \in 1..m PROVE s[k] \in Nat /\ s[k] >= c.at /\ s[k] <= limit
    OBVIOUS
  <2> HIDE DEF s, m
  <2>1. moved(from + k - 1) \in Nat /\ moved(from + k - 1) >= c.at
    BY <1>11, <1>12
  <2> QED BY <1>14, <1>15, <2>1 DEF Least
<1>17. \A i, j \in 1..m : i <= j => s[i] <= s[j]
  <2> SUFFICES ASSUME NEW i \in 1..m, NEW j \in 1..m, i <= j PROVE s[i] <= s[j]
    OBVIOUS
  <2>0. i \in Int /\ j \in Int /\ from \in Int
    BY <1>3, <1>8
  <2> HIDE DEF s, m
  <2> DEFINE a == from + i - 1
             b == from + j - 1
  <2>1. a \in from..last /\ b \in from..last /\ a <= b
    BY <1>11, <2>0
  <2>2. s[i] = Least(moved(a), limit) /\ s[j] = Least(moved(b), limit)
    BY <1>15
  <2> HIDE DEF a, b
  <2>3. moved(a) \in Nat /\ moved(b) \in Nat /\ moved(a) <= moved(b)
    BY <1>12, <1>13, <2>1
  <2> QED BY <1>14, <2>2, <2>3 DEF Least
<1>18. s[m] = limit
  <2>1. from + m - 1 = last /\ m \in 1..m
    BY <1>3, <1>8, <1>11
  <2>2. last \in from..last
    BY <1>3, <1>8
  <2>3. moved(last) \in Nat
    BY <1>12, <2>2
  <2> HIDE DEF s, m
  <2>4. s[m] = Least(moved(last), limit)
    BY <1>15, <2>1
  <2> QED BY <1>9, <1>14, <2>3, <2>4 DEF Least
<1>19. s \in Seq(Nat) /\ Len(s) = m
  <2>1. s = [k \in 1..m |-> s[k]] /\ \A k \in 1..m : s[k] \in Nat
    BY <1>16
  <2> HIDE DEF s, m
  <2> QED BY <1>11, <2>1
<1> HIDE DEF s, m
<1> QED BY <1>1, <1>11, <1>16, <1>17, <1>18, <1>19 DEF Ascending, limit

(* The path so far: chunks one behind the other, from the own edge on.     *)
Reaches(v, from, to) == \A j \in from..(to - 1) : \E c \in ToSet(v) : c.at <= j /\ j < PastEnd(c)

(* They lie one behind the other, and no point of a path of that size is   *)
(* left out between the own edge and their end.                            *)
Chains(own, size) ==
  {v \in Seq(Chunks) :
     /\ Len(v) >= 1 /\ v[1] = own
     /\ \A k \in 1..(Len(v) - 1) : v[k + 1].at = PastEnd(v[k])
     /\ PastEnd(v[Len(v)]) <= size
     /\ Len(v) > 1 => PastEnd(own) < PastEnd(v[Len(v)])
     /\ Reaches(v, own.at, PastEnd(v[Len(v)]))}

(* A chunk more at the end.                                                *)
LEMMA AppendSeq ==
  ASSUME NEW V, NEW v \in Seq(V), NEW c \in V
  PROVE  /\ Append(v, c) \in Seq(V) /\ Len(Append(v, c)) = Len(v) + 1 /\ Len(v) \in Nat
         /\ \A k \in 1..Len(v) : Append(v, c)[k] = v[k]
         /\ Append(v, c)[Len(v) + 1] = c
         /\ ToSet(Append(v, c)) = ToSet(v) \union {c}
<1> DEFINE w == Append(v, c)
<1>1. /\ w \in Seq(V) /\ Len(w) = Len(v) + 1 /\ Len(v) \in Nat
      /\ \A k \in 1..Len(v) : w[k] = v[k]
      /\ w[Len(v) + 1] = c
      /\ DOMAIN v = 1..Len(v) /\ DOMAIN w = 1..(Len(v) + 1)
  OBVIOUS
<1> HIDE DEF w
<1>2. ToSet(w) = ToSet(v) \union {c}
  BY <1>1 DEF ToSet
<1> QED BY <1>1, <1>2 DEF w

(* A path starts with the own edge alone, to either side.                  *)
LEMMA OwnChain ==
  ASSUME NEW own \in Chunks, NEW size \in Nat, PastEnd(own) <= size
  PROVE  <<own>> \in Chains(own, size)
<1> DEFINE v == <<own>>
<1>1. v \in Seq(Chunks) /\ Len(v) = 1 /\ v[1] = own /\ ToSet(v) = {own}
  BY DEF ToSet
<1> HIDE DEF v
<1>2. Reaches(v, own.at, PastEnd(own))
  BY <1>1, ChunkFacts DEF Reaches
<1> QED BY <1>1, <1>2 DEF Chains, v

(* A successor that is put behind the last chunk.                          *)
LEMMA WithSuccessorChain ==
  ASSUME route \in Routes, NEW own \in Chunks, NEW size \in Nat, NEW successor \in MaybeEdges,
         NEW v \in Chains(own, size)
  PROVE  /\ WithSuccessor(v, successor, size) \in Chains(own, size)
         /\ Len(WithSuccessor(v, successor, size)) >= Len(v)
         /\ (successor # NoEdge /\ PastEnd(own) < size)
              => Len(WithSuccessor(v, successor, size)) >= 2
<1> DEFINE last == v[Len(v)]
           at == PastEnd(last)
           id == IF Len(v) = 1 THEN successor ELSE NextOnRoute(last.id)
           count == Least(Points[id], size - at)
           c == Chunk(id, 0, at, count)
           w == Append(v, c)
<1>1. /\ v \in Seq(Chunks) /\ Len(v) >= 1 /\ Len(v) \in Nat /\ v[1] = own
      /\ \A k \in 1..(Len(v) - 1) : v[k + 1].at = PastEnd(v[k])
      /\ PastEnd(last) <= size
      /\ Len(v) > 1 => PastEnd(own) < PastEnd(last)
      /\ Reaches(v, own.at, PastEnd(last))
  BY DEF Chains
<1>0. Len(v) = 1 \/ Len(v) > 1
  <2>1. \A n \in Nat : n >= 1 => n = 1 \/ n > 1
    OBVIOUS
  <2> QED BY <1>1, <2>1
<1>2. WithSuccessor(v, successor, size) = IF at = size \/ id = NoEdge THEN v ELSE w
  BY DEF WithSuccessor, Last
<1>3. last \in Chunks /\ at \in Nat /\ at <= size
  <2>1. last \in Chunks
    BY <1>1
  <2> QED BY <1>1, <2>1, ChunkFacts
<1>4. id \in MaybeEdges
  BY NextType
<1> HIDE DEF last, id
<1>5. CASE ~(at = size \/ id = NoEdge)
  <2>1. id \in Edges /\ size - at \in Nat \ {0}
    BY <1>3, <1>4, <1>5 DEF MaybeEdges
  <2>2. Points[id] \in Nat \ {0}
    BY <2>1, MapAssumption
  <2>3. count \in Nat \ {0} /\ count <= Points[id] /\ at + count <= size
    BY <1>3, <2>1, <2>2 DEF Least
  <2> HIDE DEF count
  <2>4. c \in Chunks /\ c.at = at /\ PastEnd(c) = at + count
    <3> HIDE DEF at
    <3>1. id \in Edges /\ at \in Nat /\ count \in Nat \ {0} /\ count <= Points[id]
      BY <1>3, <2>1, <2>3
    <3>3. /\ Chunk(id, 0, at, count) \in Chunks /\ Chunk(id, 0, at, count).at = at
          /\ PastEnd(Chunk(id, 0, at, count)) = at + count
      BY <3>1, ChunkFromStart
    <3> QED BY <3>3
  <2> HIDE DEF c
  <2>5. /\ w \in Seq(Chunks) /\ Len(w) = Len(v) + 1
        /\ \A k \in 1..Len(v) : w[k] = v[k]
        /\ w[Len(v) + 1] = c /\ ToSet(w) = ToSet(v) \union {c}
    BY <1>1, <2>4, AppendSeq
  <2> HIDE DEF w
  <2>6. w[1] = own
    BY <1>1, <2>5
  <2>7. \A k \in 1..(Len(w) - 1) : w[k + 1].at = PastEnd(w[k])
    <3> SUFFICES ASSUME NEW k \in 1..Len(v) PROVE w[k + 1].at = PastEnd(w[k])
      BY <1>1, <2>5
    <3>1. CASE k = Len(v)
      BY <2>4, <2>5, <3>1 DEF last
    <3>2. CASE k \in 1..(Len(v) - 1)
      <4>1. k \in 1..Len(v) /\ k + 1 \in 1..Len(v)
        BY <1>1, <3>2
      <4> QED BY <1>1, <2>5, <3>2, <4>1
    <3> QED BY <1>1, <3>1, <3>2
  <2>8. PastEnd(w[Len(w)]) = at + count
    BY <1>1, <2>4, <2>5
  <2>9. PastEnd(own) < at + count
    <3>1. CASE Len(v) = 1
      <4>1. last = own
        BY <1>1, <3>1 DEF last
      <4> QED BY <1>3, <2>3, <4>1
    <3>2. CASE Len(v) > 1
      <4>1. PastEnd(own) \in Nat
        BY ChunkFacts
      <4> QED BY <1>1, <1>3, <2>3, <3>2, <4>1
    <3> QED BY <1>0, <3>1, <3>2
  <2>10. Reaches(w, own.at, at + count)
    <3> SUFFICES \A j \in own.at..((at + count) - 1) : \E x \in ToSet(w) : x.at <= j /\ j < PastEnd(x)
      BY Zenon DEF Reaches
    <3> TAKE j \in own.at..((at + count) - 1)
    <3>0. own.at \in Nat
      BY ChunkFacts
    <3>1. CASE j >= at
      <4>1. c.at <= j /\ j < PastEnd(c)
        BY <1>3, <2>3, <2>4, <3>0, <3>1
      <4> QED BY <2>5, <4>1
    <3>2. CASE j < at
      <4>1. j \in own.at..(at - 1)
        BY <1>3, <3>0, <3>2
      <4>2. PICK x \in ToSet(v) : x.at <= j /\ j < PastEnd(x)
        BY <1>1, <4>1 DEF Reaches
      <4> QED BY <2>5, <4>2
    <3> QED BY <1>3, <3>0, <3>1, <3>2
  <2>11. w \in Chains(own, size)
    BY <1>1, <2>3, <2>5, <2>6, <2>7, <2>8, <2>9, <2>10 DEF Chains
  <2>12. WithSuccessor(v, successor, size) = w
    BY <1>2, <1>5
  <2> QED BY <1>1, <2>5, <2>11, <2>12
<1>6. CASE at = size \/ id = NoEdge
  <2>1. WithSuccessor(v, successor, size) = v
    BY <1>2, <1>6
  <2>2. (successor # NoEdge /\ PastEnd(own) < size) => Len(v) >= 2
    <3>1. CASE Len(v) = 1
      <4>1. last = own /\ id = successor
        BY <1>1, <3>1 DEF last, id
      <4>2. PastEnd(own) \in Nat
        BY ChunkFacts
      <4> QED BY <1>6, <4>1, <4>2
    <3>2. CASE Len(v) > 1
      BY <1>1, <3>2
    <3> QED BY <1>0, <3>1, <3>2
  <2> QED BY <1>1, <2>1, <2>2
<1> QED BY <1>5, <1>6

(* The own edge and its successors (ExtendPath).                           *)
LEMMA OnwardFact ==
  ASSUME route \in Routes, NEW own \in Chunks, NEW size \in Nat \ {0}, PastEnd(own) <= size,
         NEW successor \in MaybeEdges
  PROVE  /\ Onward(own, successor, size) \in Chains(own, size)
         /\ (successor # NoEdge /\ PastEnd(own) < size) => Len(Onward(own, successor, size)) >= 2
<1> DEFINE V == Chains(own, size)
           n == size
           next(v) == WithSuccessor(v, successor, size)
           upTo == CHOOSE g : g = [k \in 0..n |-> IF k = 0 THEN <<own>> ELSE next(g[k - 1])]
           h == [k \in 1..n |-> [v \in V |-> next(v)]]
<1>1. Onward(own, successor, size) = upTo[n]
  BY DEF Onward
<1>2. /\ <<own>> \in V
      /\ \A v \in V : next(v) \in V /\ Len(next(v)) >= Len(v)
      /\ \A v \in V : (successor # NoEdge /\ PastEnd(own) < size) => Len(next(v)) >= 2
      /\ \A v \in V : Len(v) \in Nat
  BY OwnChain, WithSuccessorChain DEF Chains
<1>0. n \in Nat /\ n >= 1 /\ (PastEnd(own) < n <=> PastEnd(own) < size)
  OBVIOUS
<1> HIDE DEF V, next, n
<1>3. \E g : g = [k \in 0..n |-> IF k = 0 THEN <<own>> ELSE next(g[k - 1])]
  <2>1. h \in [1..n -> [V -> V]]
    BY <1>2
  <2>2. PICK g \in [0..n -> V] : g[0] = <<own>> /\ \A k \in 1..n : g[k] = h[k][g[k - 1]]
    <3> DEFINE a == <<own>>
    <3>1. a \in V /\ n \in Nat
      BY <1>0, <1>2
    <3> HIDE DEF h, a
    <3>2. \E g \in [0..n -> V] : g[0] = a /\ \A k \in 1..n : g[k] = h[k][g[k - 1]]
      BY <2>1, <3>1, LoopExists
    <3> QED BY <3>2 DEF a
  <2>3. \A k \in 0..n : g[k] = IF k = 0 THEN <<own>> ELSE next(g[k - 1])
    <3> TAKE k \in 0..n
    <3>1. CASE k = 0
      BY <2>2, <3>1
    <3>2. CASE k # 0
      <4>1. k \in 1..n /\ k - 1 \in 0..n
        BY <1>0, <3>2
      <4>2. g[k] = h[k][g[k - 1]] /\ g[k - 1] \in V
        BY <1>0, <2>2, <4>1
      <4> QED BY <3>2, <4>1, <4>2
    <3> QED BY <3>1, <3>2
  <2>4. g = [k \in 0..n |-> IF k = 0 THEN <<own>> ELSE next(g[k - 1])]
    BY <2>2, <2>3
  <2> QED BY <2>4, Zenon
<1>4. upTo = [k \in 0..n |-> IF k = 0 THEN <<own>> ELSE next(upTo[k - 1])]
  BY <1>3, Zenon
<1> HIDE DEF upTo
<1>5. upTo[0] = <<own>> /\ \A k \in 0..n : k + 1 \in 0..n => upTo[k + 1] = next(upTo[k])
  BY <1>0, <1>4
<1> DEFINE S == {k \in Nat : k <= n =>
                   /\ upTo[k] \in V
                   /\ (k >= 1 /\ successor # NoEdge /\ PastEnd(own) < size) => Len(upTo[k]) >= 2}
<1>6. 0 \in S
  BY <1>2, <1>5
<1>7. ASSUME NEW k \in Nat, k \in S PROVE k + 1 \in S
  <2> SUFFICES ASSUME k + 1 <= n
               PROVE  /\ upTo[k + 1] \in V
                      /\ (successor # NoEdge /\ PastEnd(own) < size) => Len(upTo[k + 1]) >= 2
    OBVIOUS
  <2>1. k \in 0..n /\ k + 1 \in 0..n /\ upTo[k] \in V
    BY <1>0, <1>7
  <2>2. upTo[k + 1] = next(upTo[k])
    BY <1>5, <2>1
  <2> QED BY <1>2, <2>1, <2>2
<1>8. n \in S
  <2> HIDE DEF S
  <2>1. \A k \in Nat : k \in S
    BY <1>6, <1>7, SetInduction
  <2> QED BY <1>0, <2>1
<1> QED BY <1>0, <1>1, <1>8 DEF V

(* The own edge and its predecessors, from the back.                       *)
Backs(own) ==
  {v \in Seq(Chunks) :
     /\ Len(v) >= 1 /\ v[1] = own
     /\ v[Len(v)].at <= own.at
     /\ Reaches(v, v[Len(v)].at, PastEnd(own))}

(* A predecessor that is put before the first chunk.                       *)
LEMMA WithPredecessorBack ==
  ASSUME route \in Routes, NEW own \in Chunks, NEW v \in Backs(own)
  PROVE  WithPredecessor(v) \in Backs(own)
<1> DEFINE front == v[Len(v)]
           ids == RoutePredecessors(front.id)
           id == ids[1]
           count == Least(Points[id], front.at)
           c == Chunk(id, Points[id] - count, front.at - count, count)
           w == Append(v, c)
<1>1. /\ v \in Seq(Chunks) /\ Len(v) >= 1 /\ Len(v) \in Nat /\ v[1] = own
      /\ front.at <= own.at
      /\ Reaches(v, front.at, PastEnd(own))
  BY DEF Backs
<1>2. WithPredecessor(v) = IF front.at = 0 \/ ids = <<>> THEN v ELSE w
  BY DEF WithPredecessor, Last
<1>3. front \in Chunks
  BY <1>1
<1>4. /\ front.at \in Nat /\ PastEnd(front) = front.at + front.count /\ front.count \in Nat \ {0}
      /\ own.at \in Nat /\ PastEnd(own) \in Nat
  BY <1>3, ChunkFacts
<1>5. ids \in Seq(Edges)
  BY <1>3, ChunkFacts, PredecessorsType
<1> HIDE DEF front, ids
<1>6. CASE ~(front.at = 0 \/ ids = <<>>)
  <2>1. id \in Edges
    BY <1>5, <1>6
  <2> HIDE DEF id
  <2>2. Points[id] \in Nat \ {0}
    BY <2>1, MapAssumption
  <2>3. count \in Nat \ {0} /\ count <= Points[id] /\ count <= front.at /\ front.at - count \in Nat
    BY <1>4, <1>6, <2>2 DEF Least
  <2> HIDE DEF count
  <2>4. /\ c \in Chunks /\ c.at = front.at - count /\ PastEnd(c) = front.at
    <3> DEFINE a == front.at - count
               src == Points[id] - count
    <3>1. a \in Nat /\ a + count = front.at
      BY <1>4, <2>3
    <3>2. src \in Nat /\ src + count <= Points[id]
      BY <2>2, <2>3
    <3> HIDE DEF a, src
    <3>3. /\ Chunk(id, src, a, count) \in Chunks /\ Chunk(id, src, a, count).at = a
          /\ PastEnd(Chunk(id, src, a, count)) = a + count
      <4>1. id \in Edges /\ a \in Nat /\ count \in Nat \ {0}
        BY <2>1, <2>3, <3>1
      <4> QED BY <3>2, <4>1 DEF Chunk, Chunks, PastEnd
    <3> QED BY <3>1, <3>3 DEF a, src
  <2> HIDE DEF c
  <2>5. /\ w \in Seq(Chunks) /\ Len(w) = Len(v) + 1
        /\ \A k \in 1..Len(v) : w[k] = v[k]
        /\ w[Len(v) + 1] = c /\ ToSet(w) = ToSet(v) \union {c}
    BY <1>1, <2>4, AppendSeq
  <2> HIDE DEF w
  <2>6. w[1] = own
    BY <1>1, <2>5
  <2>7. w[Len(w)] = c /\ c.at <= own.at
    BY <1>1, <1>4, <2>3, <2>4, <2>5
  <2>8. Reaches(w, c.at, PastEnd(own))
    <3> SUFFICES \A j \in (c.at)..(PastEnd(own) - 1) : \E x \in ToSet(w) : x.at <= j /\ j < PastEnd(x)
      BY Zenon DEF Reaches
    <3> TAKE j \in (c.at)..(PastEnd(own) - 1)
    <3>1. CASE j < front.at
      BY <1>4, <2>3, <2>4, <2>5, <3>1
    <3>2. CASE j >= front.at
      <4>1. j \in (front.at)..(PastEnd(own) - 1)
        BY <1>4, <2>3, <2>4, <3>2
      <4>2. PICK x \in ToSet(v) : x.at <= j /\ j < PastEnd(x)
        BY <1>1, <4>1 DEF Reaches
      <4> QED BY <2>5, <4>2
    <3> QED BY <1>4, <2>3, <2>4, <3>1, <3>2
  <2>9. w \in Backs(own)
    BY <1>1, <2>5, <2>6, <2>7, <2>8 DEF Backs
  <2> QED BY <1>2, <1>6, <2>9
<1>7. CASE front.at = 0 \/ ids = <<>>
  BY <1>2, <1>7
<1> QED BY <1>6, <1>7

(* And so do the points behind it.                                         *)
LEMMA OwnBack ==
  ASSUME NEW own \in Chunks
  PROVE  <<own>> \in Backs(own)
<1> DEFINE v == <<own>>
<1>1. v \in Seq(Chunks) /\ Len(v) = 1 /\ v[1] = own /\ ToSet(v) = {own}
  BY DEF ToSet
<1> HIDE DEF v
<1>2. Reaches(v, own.at, PastEnd(own))
  BY <1>1, ChunkFacts DEF Reaches
<1>3. own.at <= own.at
  BY ChunkFacts
<1> QED BY <1>1, <1>2, <1>3 DEF Backs, v

(* The edges before the own one (constructRefPath, backwards) leave no     *)
(* point out between the first of them and it.                             *)
LEMMA BehindFact ==
  ASSUME route \in Routes, NEW own \in Chunks
  PROVE  Behind(own) \in Backs(own)
<1> DEFINE V == Backs(own)
           n == own.at
           next(v) == WithPredecessor(v)
           upTo == CHOOSE g : g = [k \in 0..n |-> IF k = 0 THEN <<own>> ELSE next(g[k - 1])]
           h == [k \in 1..n |-> [v \in V |-> next(v)]]
<1>0. n \in Nat
  BY ChunkFacts
<1>1. Behind(own) = upTo[n]
  BY DEF Behind
<1>2. <<own>> \in V /\ \A v \in V : next(v) \in V
  BY OwnBack, WithPredecessorBack
<1> HIDE DEF V, next, n
<1>3. \E g : g = [k \in 0..n |-> IF k = 0 THEN <<own>> ELSE next(g[k - 1])]
  <2>1. h \in [1..n -> [V -> V]]
    BY <1>2
  <2>2. PICK g \in [0..n -> V] : g[0] = <<own>> /\ \A k \in 1..n : g[k] = h[k][g[k - 1]]
    <3> DEFINE a == <<own>>
    <3>1. a \in V /\ n \in Nat
      BY <1>0, <1>2
    <3> HIDE DEF h, a
    <3>2. \E g \in [0..n -> V] : g[0] = a /\ \A k \in 1..n : g[k] = h[k][g[k - 1]]
      BY <2>1, <3>1, LoopExists
    <3> QED BY <3>2 DEF a
  <2>3. \A k \in 0..n : g[k] = IF k = 0 THEN <<own>> ELSE next(g[k - 1])
    <3> TAKE k \in 0..n
    <3>1. CASE k = 0
      BY <2>2, <3>1
    <3>2. CASE k # 0
      <4>1. k \in 1..n /\ k - 1 \in 0..n
        BY <1>0, <3>2
      <4>2. g[k] = h[k][g[k - 1]] /\ g[k - 1] \in V
        BY <2>2, <4>1
      <4> QED BY <3>2, <4>1, <4>2
    <3> QED BY <3>1, <3>2
  <2>4. g = [k \in 0..n |-> IF k = 0 THEN <<own>> ELSE next(g[k - 1])]
    BY <2>2, <2>3
  <2> QED BY <2>4, Zenon
<1>4. upTo = [k \in 0..n |-> IF k = 0 THEN <<own>> ELSE next(upTo[k - 1])]
  BY <1>3, Zenon
<1> HIDE DEF upTo
<1>5. upTo[0] = <<own>> /\ \A k \in 0..n : k + 1 \in 0..n => upTo[k + 1] = next(upTo[k])
  BY <1>0, <1>4
<1> DEFINE S == {k \in Nat : k <= n => upTo[k] \in V}
<1>6. 0 \in S
  BY <1>2, <1>5
<1>7. ASSUME NEW k \in Nat, k \in S PROVE k + 1 \in S
  <2> SUFFICES ASSUME k + 1 <= n PROVE upTo[k + 1] \in V
    OBVIOUS
  <2>1. k \in 0..n /\ k + 1 \in 0..n /\ upTo[k] \in V
    BY <1>0, <1>7
  <2>2. upTo[k + 1] = next(upTo[k])
    BY <1>5, <2>1
  <2> QED BY <1>2, <2>1, <2>2
<1>8. n \in S
  <2> HIDE DEF S
  <2>1. \A k \in Nat : k \in S
    BY <1>6, <1>7, SetInduction
  <2> QED BY <1>0, <2>1
<1> QED BY <1>0, <1>1, <1>8 DEF V

(* One table of segments behind the other.                                 *)
LEMMA AscendingConcat ==
  ASSUME NEW u \in Seq(Nat), NEW v \in Seq(Nat), Ascending(u), Ascending(v), Len(v) >= 1,
         \A i \in 1..Len(u), j \in 1..Len(v) : u[i] <= v[j]
  PROVE  /\ u \o v \in Seq(Nat) /\ Len(u \o v) = Len(u) + Len(v) /\ Ascending(u \o v)
         /\ Len(u \o v) >= 1 /\ (u \o v)[Len(u \o v)] = v[Len(v)]
<1> DEFINE w == u \o v
           m == Len(u)
           n == Len(v)
<1>1. /\ m \in Nat /\ n \in Nat /\ n >= 1 /\ w \in Seq(Nat) /\ Len(w) = m + n
      /\ \A k \in 1..m : w[k] = u[k]
      /\ \A k \in (m + 1)..(m + n) : w[k] = v[k - m]
      /\ \A k \in 1..m : u[k] \in Nat
      /\ \A k \in 1..n : v[k] \in Nat
  OBVIOUS
<1> HIDE DEF w, m, n
<1>2. \A i, j \in 1..(m + n) : i <= j => w[i] <= w[j]
  <2> SUFFICES ASSUME NEW i \in 1..(m + n), NEW j \in 1..(m + n), i <= j PROVE w[i] <= w[j]
    OBVIOUS
  <2>0. i \in Int /\ j \in Int
    OBVIOUS
  <2>1. CASE j <= m
    <3>1. i \in 1..m /\ j \in 1..m
      BY <1>1, <2>0, <2>1
    <3> QED BY <1>1, <3>1 DEF Ascending, m
  <2>2. CASE i <= m /\ m < j
    <3>1. i \in 1..m /\ j \in (m + 1)..(m + n) /\ j - m \in 1..n
      BY <1>1, <2>0, <2>2
    <3>2. w[i] = u[i] /\ w[j] = v[j - m]
      BY <1>1, <3>1
    <3> QED BY <3>1, <3>2 DEF m, n
  <2>3. CASE m < i
    <3>1. /\ i \in (m + 1)..(m + n) /\ j \in (m + 1)..(m + n)
          /\ i - m \in 1..n /\ j - m \in 1..n /\ i - m <= j - m
      BY <1>1, <2>0, <2>3
    <3>2. w[i] = v[i - m] /\ w[j] = v[j - m]
      BY <1>1, <3>1
    <3> QED BY <3>1, <3>2 DEF Ascending, n
  <2> QED BY <1>1, <2>0, <2>1, <2>2, <2>3
<1>3. w[m + n] = v[n]
  <2>1. m + n \in (m + 1)..(m + n) /\ (m + n) - m = n
    BY <1>1
  <2> QED BY <1>1, <2>1
<1> QED BY <1>1, <1>2, <1>3 DEF Ascending, w, m, n

(* The segments of a chain, one table behind the other.                    *)
LEMMA SegmentsAlongFact ==
  ASSUME NEW own \in Chunks, NEW size \in Nat, NEW chain \in Chains(own, size)
  PROVE  /\ SegmentsAlong(chain) \in Seq(Nat) /\ Len(SegmentsAlong(chain)) >= 1
         /\ Ascending(SegmentsAlong(chain))
         /\ SegmentsAlong(chain)[Len(SegmentsAlong(chain))] = PastEnd(chain[Len(chain)]) - 1
<1> DEFINE n == Len(chain)
           V == Seq(Nat)
           a == <<>>
           next(k, v) == v \o SegmentsOf(chain[k])
           upTo == CHOOSE g : g = [k \in 0..n |-> IF k = 0 THEN a ELSE next(k, g[k - 1])]
           h == [k \in 1..n |-> [v \in V |-> next(k, v)]]
<1>1. SegmentsAlong(chain) = upTo[n]
  BY DEF SegmentsAlong
<1>0. /\ n \in Nat /\ n >= 1
      /\ \A k \in 1..n : chain[k] \in Chunks
      /\ \A k \in 1..(n - 1) : chain[k + 1].at = PastEnd(chain[k])
  <2>1. /\ chain \in Seq(Chunks) /\ Len(chain) >= 1
        /\ \A k \in 1..(Len(chain) - 1) : chain[k + 1].at = PastEnd(chain[k])
    BY DEF Chains
  <2>2. Len(chain) \in Nat /\ \A k \in 1..Len(chain) : chain[k] \in Chunks
    BY <2>1
  <2> QED BY <2>1, <2>2
<1> HIDE DEF n
<1>2. \A k \in 1..n : /\ SegmentsOf(chain[k]) \in Seq(Nat) /\ Len(SegmentsOf(chain[k])) >= 1
                      /\ Ascending(SegmentsOf(chain[k]))
                      /\ \A i \in 1..Len(SegmentsOf(chain[k])) : SegmentsOf(chain[k])[i] >= chain[k].at
                      /\ SegmentsOf(chain[k])[Len(SegmentsOf(chain[k]))] = PastEnd(chain[k]) - 1
  BY <1>0, SegmentsOfFact
<1>3. a \in V /\ \A k \in 1..n : \A v \in V : next(k, v) \in V
  <2> SUFFICES ASSUME NEW k \in 1..n, NEW v \in V PROVE next(k, v) \in V
    OBVIOUS
  <2> DEFINE s == SegmentsOf(chain[k])
  <2>1. s \in Seq(Nat)
    BY <1>2
  <2> HIDE DEF s
  <2>2. v \o s \in Seq(Nat)
    BY <2>1
  <2> QED BY <2>2 DEF s
<1> HIDE DEF V, next, a
<1>4. \E g : g = [k \in 0..n |-> IF k = 0 THEN a ELSE next(k, g[k - 1])]
  <2>1. h \in [1..n -> [V -> V]]
    BY <1>3
  <2>2. PICK g \in [0..n -> V] : g[0] = a /\ \A k \in 1..n : g[k] = h[k][g[k - 1]]
    <3> HIDE DEF h, upTo
    <3>1. n \in Nat /\ a \in V /\ h \in [1..n -> [V -> V]]
      BY <1>0, <1>3, <2>1
    <3>2. HasLoop(V, a, n, h)
      BY <3>1, LoopFound
    <3> QED BY <3>2 DEF HasLoop
  <2>3. \A k \in 0..n : g[k] = IF k = 0 THEN a ELSE next(k, g[k - 1])
    <3> TAKE k \in 0..n
    <3>1. CASE k = 0
      BY <2>2, <3>1
    <3>2. CASE k # 0
      <4>1. k \in 1..n /\ k - 1 \in 0..n
        BY <1>0, <3>2
      <4>2. g[k] = h[k][g[k - 1]] /\ g[k - 1] \in V
        BY <2>2, <4>1
      <4> QED BY <3>2, <4>1, <4>2
    <3> QED BY <3>1, <3>2
  <2>4. g = [k \in 0..n |-> IF k = 0 THEN a ELSE next(k, g[k - 1])]
    BY <2>2, <2>3
  <2> QED BY <2>4, Zenon
<1>5. upTo = [k \in 0..n |-> IF k = 0 THEN a ELSE next(k, upTo[k - 1])]
  BY <1>4, Zenon
<1> HIDE DEF upTo
<1>10. upTo[0] = a /\ \A k \in 1..n : upTo[k] = next(k, upTo[k - 1])
  BY <1>0, <1>5
<1> DEFINE Full(k) == /\ upTo[k] \in Seq(Nat) /\ Len(upTo[k]) >= 1 /\ Ascending(upTo[k])
                      /\ upTo[k][Len(upTo[k])] = PastEnd(chain[k]) - 1
           S == {k \in Nat : k + 1 <= n => Full(k + 1)}
<1>6. 0 \in S
  <2> DEFINE s == SegmentsOf(chain[1])
  <2>1. s \in Seq(Nat) /\ Len(s) >= 1 /\ Ascending(s) /\ s[Len(s)] = PastEnd(chain[1]) - 1
    BY <1>0, <1>2
  <2>2. upTo[1] = <<>> \o s
    <3>1. 1 \in 1..n /\ 1 - 1 = 0
      BY <1>0
    <3>2. upTo[1] = next(1, a)
      BY <1>10, <3>1
    <3> QED BY <3>2 DEF next, a
  <2> HIDE DEF s
  <2>3. upTo[1] = s
    BY <2>1, <2>2
  <2> QED BY <2>1, <2>3
<1>7. ASSUME NEW k \in Nat, k \in S PROVE k + 1 \in S
  <2> SUFFICES ASSUME k + 2 <= n PROVE Full(k + 2)
    OBVIOUS
  <2> DEFINE u == upTo[k + 1]
             s == SegmentsOf(chain[k + 2])
  <2>1. k + 1 \in 1..(n - 1) /\ k + 1 \in 1..n /\ k + 2 \in 1..n /\ (k + 2) - 1 = k + 1 /\ (k + 1) + 1 = k + 2
    BY <1>0
  <2>2. u \in Seq(Nat) /\ Len(u) >= 1 /\ Ascending(u) /\ u[Len(u)] = PastEnd(chain[k + 1]) - 1
    BY <1>7, <2>1
  <2>3. /\ s \in Seq(Nat) /\ Len(s) >= 1 /\ Ascending(s) /\ s[Len(s)] = PastEnd(chain[k + 2]) - 1
        /\ \A i \in 1..Len(s) : s[i] >= chain[k + 2].at
    BY <1>2, <2>1
  <2>4. upTo[k + 2] = u \o s
    <3>1. upTo[k + 2] = next(k + 2, upTo[k + 1])
      BY <1>10, <2>1
    <3> QED BY <3>1 DEF next
  <2>5. chain[k + 2].at = PastEnd(chain[k + 1])
    BY <1>0, <2>1
  <2>6. PastEnd(chain[k + 1]) \in Nat
    BY <1>0, <2>1, ChunkFacts
  <2> HIDE DEF u, s
  <2>7. \A i \in 1..Len(u), j \in 1..Len(s) : u[i] <= s[j]
    <3> TAKE i \in 1..Len(u), j \in 1..Len(s)
    <3>1. u[i] \in Nat /\ u[Len(u)] \in Nat /\ s[j] \in Nat /\ Len(u) \in 1..Len(u) /\ i <= Len(u)
      <4>1. Len(u) \in Nat /\ Len(u) \in 1..Len(u) /\ i <= Len(u)
        BY <2>2
      <4>2. \A x \in 1..Len(u) : u[x] \in Nat
        BY <2>2
      <4>3. \A x \in 1..Len(s) : s[x] \in Nat
        BY <2>3
      <4> QED BY <4>1, <4>2, <4>3
    <3>2. u[i] <= u[Len(u)]
      BY <2>2, <3>1 DEF Ascending
    <3>3. s[j] >= PastEnd(chain[k + 1])
      BY <2>3, <2>5
    <3> QED BY <2>2, <2>6, <3>1, <3>2, <3>3
  <2>8. /\ u \o s \in Seq(Nat) /\ Ascending(u \o s)
        /\ Len(u \o s) >= 1 /\ (u \o s)[Len(u \o s)] = s[Len(s)]
    BY <2>2, <2>3, <2>7, AscendingConcat
  <2> QED BY <2>3, <2>4, <2>8
<1>8. n - 1 \in S /\ n - 1 \in Nat
  <2> HIDE DEF S
  <2>1. \A k \in Nat : k \in S
    BY <1>6, <1>7, SetInduction
  <2> QED BY <1>0, <2>1
<1>9. Full(n)
  <2>1. (n - 1) + 1 = n
    BY <1>0
  <2> QED BY <1>0, <1>8, <2>1
<1> QED BY <1>1, <1>9 DEF n

(* What PathTablesComplete asks of a path of n points.                     *)
Whole(p, n) ==
  /\ p.size = n
  /\ \A k \in 1..(Len(p.segments) - 1) : p.segments[k] <= p.segments[k + 1]
  /\ Last(p.segments) = n - 1
  /\ \A k \in 0..(n - 1) : k \in p.blank \/ \E a \in p.anchors : a[1] <= k /\ k <= a[2]

(* The own edge lies before the ego's first point if the path starts       *)
(* before a connector, and from it on otherwise.                           *)
LEMMA OwnChunkFact ==
  ASSUME NEW e \in Edges, NEW back \in Nat \ {0}, NEW ahead \in Nat \ {0}, NEW forLane \in BOOLEAN
  PROVE  LET own == OwnChunk(e, back, ahead, forLane)
         IN  /\ own \in Chunks /\ own.at <= back /\ PastEnd(own) <= back + ahead
             /\ forLane => PastEnd(own) > back
             /\ ~forLane => PastEnd(own) = back
<1>1. Points[e] \in Nat \ {0}
  BY MapAssumption
<1>2. CASE forLane
  <2> DEFINE count == Least(Points[e], ahead)
  <2>1. count \in Nat \ {0} /\ count <= ahead /\ count <= Points[e]
    BY <1>1 DEF Least
  <2>2. OwnChunk(e, back, ahead, forLane) = Chunk(e, 0, back, count)
    BY <1>2 DEF OwnChunk
  <2> HIDE DEF count
  <2>3. e \in Edges /\ 0 + count <= Points[e] /\ 0 \in Nat /\ back \in Nat /\ count \in Nat \ {0}
    BY <1>1, <2>1
  <2>4. /\ Chunk(e, 0, back, count) \in Chunks /\ Chunk(e, 0, back, count).at = back
        /\ PastEnd(Chunk(e, 0, back, count)) = back + count
    BY <2>3, ChunkIn
  <2> DEFINE own == Chunk(e, 0, back, count)
  <2> HIDE DEF own
  <2>5. own \in Chunks /\ own.at <= back /\ PastEnd(own) <= back + ahead /\ PastEnd(own) > back
    BY <2>1, <2>4 DEF own
  <2> QED BY <1>2, <2>2, <2>5 DEF own
<1>3. CASE ~forLane
  <2> DEFINE count == Least(Points[e], back)
             src == Points[e] - count
             at == back - count
  <2>1. /\ count \in Nat \ {0} /\ src \in Nat /\ src + count <= Points[e]
        /\ at \in Nat /\ at + count = back /\ at <= back /\ back <= back + ahead
    BY <1>1 DEF Least
  <2>2. OwnChunk(e, back, ahead, forLane) = Chunk(e, src, at, count)
    BY <1>3 DEF OwnChunk
  <2> HIDE DEF count, src, at
  <2>4. /\ Chunk(e, src, at, count) \in Chunks /\ Chunk(e, src, at, count).at = at
        /\ PastEnd(Chunk(e, src, at, count)) = at + count
    BY <2>1, ChunkIn
  <2> QED BY <1>3, <2>1, <2>2, <2>4
<1> QED BY <1>2, <1>3

(* ExtendPath: the tables of a path along a lane, or into a connector, are *)
(* complete.                                                               *)
LEMMA ExtendWhole ==
  ASSUME route \in Routes, NEW e \in Edges, NEW successor \in MaybeEdges,
         NEW back \in Nat \ {0}, NEW ahead \in Nat \ {0}, NEW forLane \in BOOLEAN,
         forLane \/ successor # NoEdge
  PROVE  Whole(ExtendPath(e, successor, back, ahead, forLane), back + ahead)
<1> DEFINE size == back + ahead
           own == OwnChunk(e, back, ahead, forLane)
           behind == Behind(own)
           chain == Onward(own, successor, size)
           need == behind[Len(behind)].at
           end == PastEnd(chain[Len(chain)])
           p == ExtendPath(e, successor, back, ahead, forLane)
           along == SegmentsAlong(chain)
           rest == HasBackGap(end, back, size)
           tail == IF rest THEN <<size - 1>> ELSE <<>>
           chunks == ToSet(behind) \union ToSet(chain)
           anchors == (UNION {AnchorSegments(c.id, c.at, c.count) : c \in chunks})
                        \union FrontGap(need, back)
                        \union (IF rest THEN {<<end, size - 1>>} ELSE {})
           blank == (IF need = chain[1].at THEN 0..(need - 1) ELSE {})
                      \union (IF end = back THEN back..(size - 1) ELSE {})
<1>1. p.size = size /\ p.segments = along \o tail /\ p.anchors = anchors /\ p.blank = blank
  BY DEF ExtendPath, Around, Assemble, Tabulate, Last
<1>2. /\ own \in Chunks /\ own.at <= back /\ PastEnd(own) <= size
      /\ forLane => PastEnd(own) > back
      /\ ~forLane => PastEnd(own) = back
  BY OwnChunkFact
<1>3. size \in Nat \ {0} /\ size > back
  OBVIOUS
<1> HIDE DEF own, size, p, tail, anchors, blank
<1>4. own.at \in Nat /\ PastEnd(own) \in Nat /\ own.at < PastEnd(own)
  BY <1>2, ChunkFacts
<1>5. behind \in Backs(own)
  BY <1>2, BehindFact
<1>6. /\ chain \in Chains(own, size)
      /\ (successor # NoEdge /\ PastEnd(own) < size) => Len(chain) >= 2
  BY <1>2, <1>3, OnwardFact
<1>7. /\ along \in Seq(Nat) /\ Len(along) >= 1 /\ Ascending(along) /\ along[Len(along)] = end - 1
  BY <1>2, <1>3, <1>6, SegmentsAlongFact
<1> HIDE DEF along, rest
<1>8. /\ behind \in Seq(Chunks) /\ Len(behind) >= 1 /\ Len(behind) \in Nat
      /\ need <= own.at /\ Reaches(behind, need, PastEnd(own))
  BY <1>5 DEF Backs
<1>9. /\ chain \in Seq(Chunks) /\ Len(chain) >= 1 /\ Len(chain) \in Nat /\ chain[1] = own
      /\ end <= size /\ (Len(chain) > 1 => PastEnd(own) < end) /\ Reaches(chain, own.at, end)
  BY <1>6 DEF Chains
<1> HIDE DEF behind, chain
<1>10. need \in Nat /\ end \in Nat
  <2>1. behind[Len(behind)] \in Chunks /\ chain[Len(chain)] \in Chunks
    BY <1>8, <1>9
  <2> QED BY <2>1, ChunkFacts
<1> HIDE DEF need, end
<1>11. end > back
  <2>1. CASE forLane
    <3>1. PastEnd(own) > back
      BY <1>2, <2>1
    <3>2. \A n \in Nat : n >= 1 => n = 1 \/ n > 1
      OBVIOUS
    <3>3. CASE Len(chain) = 1
      <4>1. chain[Len(chain)] = own
        BY <1>9, <3>3
      <4> QED BY <3>1, <4>1 DEF end
    <3>4. CASE Len(chain) > 1
      BY <1>4, <1>9, <1>10, <3>1, <3>4
    <3> QED BY <1>9, <3>2, <3>3, <3>4
  <2>2. CASE ~forLane
    <3>1. PastEnd(own) = back /\ successor # NoEdge
      BY <1>2, <2>2
    <3>2. Len(chain) >= 2
      BY <1>3, <1>6, <3>1
    <3> QED BY <1>4, <1>9, <1>10, <3>1, <3>2
  <2> QED BY <2>1, <2>2
<1>12. rest <=> end < size
  BY <1>10, <1>11 DEF rest, HasBackGap
<1>13. /\ along \o tail \in Seq(Nat) /\ Ascending(along \o tail) /\ Len(along \o tail) >= 1
       /\ (along \o tail)[Len(along \o tail)] = size - 1
  <2>1. CASE rest
    <3> DEFINE t == <<size - 1>>
    <3>1. tail = t
      BY <2>1 DEF tail
    <3>2. t \in Seq(Nat) /\ Len(t) = 1 /\ t[1] = size - 1
      BY <1>3
    <3> HIDE DEF t
    <3>3. Ascending(t)
      BY <1>3, <3>2 DEF Ascending
    <3>4. \A i \in 1..Len(along), j \in 1..Len(t) : along[i] <= t[j]
      <4> TAKE i \in 1..Len(along), j \in 1..Len(t)
      <4>1. /\ along[i] \in Nat /\ along[Len(along)] \in Nat /\ Len(along) \in 1..Len(along)
            /\ i <= Len(along) /\ j = 1
        BY <1>7, <3>2
      <4>2. along[i] <= along[Len(along)]
        BY <1>7, <4>1 DEF Ascending
      <4> QED BY <1>3, <1>7, <1>10, <1>12, <2>1, <3>2, <4>1, <4>2
    <3>5. /\ along \o t \in Seq(Nat) /\ Ascending(along \o t)
          /\ Len(along \o t) >= 1 /\ (along \o t)[Len(along \o t)] = t[Len(t)]
      <4>1. Len(t) >= 1
        BY <3>2
      <4> QED BY <1>7, <3>2, <3>3, <3>4, <4>1, AscendingConcat
    <3> QED BY <3>1, <3>2, <3>5
  <2>2. CASE ~rest
    <3>1. tail = <<>>
      BY <2>2 DEF tail
    <3>2. along \o tail = along
      BY <1>7, <3>1
    <3>3. end = size
      BY <1>3, <1>9, <1>10, <1>12, <2>2
    <3> QED BY <1>7, <3>2, <3>3
  <2> QED BY <2>1, <2>2
<1>14. \A c \in chunks : c \in Chunks
  BY <1>8, <1>9 DEF ToSet
<1>15. \A k \in Nat : (\E c \in chunks : c.at <= k /\ k < PastEnd(c)) =>
                        \E a \in anchors : a[1] <= k /\ k <= a[2]
  <2> SUFFICES ASSUME NEW k \in Nat, NEW c \in chunks, c.at <= k, k < PastEnd(c)
               PROVE  \E a \in anchors : a[1] <= k /\ k <= a[2]
    OBVIOUS
  <2>1. c.at \in Nat /\ c.count \in Nat \ {0} /\ PastEnd(c) = c.at + c.count
    BY <1>14, ChunkFacts
  <2>2. k \in (c.at)..(c.at + c.count - 1)
    BY <2>1
  <2>3. PICK a \in AnchorSegments(c.id, c.at, c.count) : a[1] <= k /\ k <= a[2]
    BY <2>1, <2>2, AnchorsCover
  <2> HIDE DEF chunks
  <2>4. a \in anchors
    BY DEF anchors
  <2> QED BY <2>3, <2>4
<1>16. \A k \in 0..(size - 1) : k \in blank \/ \E a \in anchors : a[1] <= k /\ k <= a[2]
  <2> SUFFICES ASSUME NEW k \in 0..(size - 1)
               PROVE  k \in blank \/ \E a \in anchors : a[1] <= k /\ k <= a[2]
    OBVIOUS
  <2>0. k \in Nat /\ k < size
    BY <1>3
  <2>1. CASE k < need /\ need = own.at
    <3>1. k \in 0..(need - 1)
      BY <1>10, <2>0, <2>1
    <3> QED BY <1>9, <2>1, <3>1 DEF blank
  <2>2. CASE k < need /\ need # own.at
    <3>1. 0 < need /\ need < back
      BY <1>2, <1>4, <1>8, <1>10, <2>0, <2>2
    <3> DEFINE a == <<0, need>>
    <3>2. a \in anchors
      BY <3>1 DEF anchors, FrontGap
    <3>3. a[1] <= k /\ k <= a[2]
      BY <1>10, <2>0, <2>2
    <3> QED BY <3>2, <3>3
  <2>3. CASE need <= k /\ k < PastEnd(own)
    <3>1. k \in need..(PastEnd(own) - 1)
      BY <1>4, <1>10, <2>0, <2>3
    <3>2. \E c \in ToSet(behind) : c.at <= k /\ k < PastEnd(c)
      BY <1>8, <3>1 DEF Reaches
    <3> QED BY <1>15, <2>0, <3>2
  <2>4. CASE own.at <= k /\ k < end
    <3>1. k \in (own.at)..(end - 1)
      BY <1>4, <1>10, <2>0, <2>4
    <3>2. \E c \in ToSet(chain) : c.at <= k /\ k < PastEnd(c)
      BY <1>9, <3>1 DEF Reaches
    <3> QED BY <1>15, <2>0, <3>2
  <2>5. CASE end <= k
    <3> DEFINE a == <<end, size - 1>>
    <3>1. rest
      BY <1>3, <1>10, <1>12, <2>0, <2>5
    <3>2. a \in anchors
      BY <3>1 DEF anchors
    <3>3. a[1] <= k /\ k <= a[2]
      BY <1>3, <2>0, <2>5
    <3> QED BY <3>2, <3>3
  <2> QED BY <1>4, <1>8, <1>10, <2>0, <2>1, <2>2, <2>3, <2>4, <2>5
<1> DEFINE s == along \o tail
<1>17. \A k \in 1..(Len(s) - 1) : s[k] <= s[k + 1]
  <2>1. s \in Seq(Nat) /\ Ascending(s)
    BY <1>13
  <2> HIDE DEF s
  <2> TAKE k \in 1..(Len(s) - 1)
  <2>2. k \in 1..Len(s) /\ k + 1 \in 1..Len(s) /\ k <= k + 1
    BY <2>1
  <2> QED BY <2>1, <2>2 DEF Ascending
<1>18. Last(s) = size - 1
  BY <1>13 DEF Last
<1>19. Whole(p, size)
  <2> HIDE DEF s
  <2>1. p.segments = s
    BY <1>1 DEF s
  <2> QED BY <1>1, <1>16, <1>17, <1>18, <2>1 DEF Whole
<1> QED BY <1>19 DEF p, size

---------------------------------------------------------------------------
(* A path has the fields Tabulate gives it.                                *)
IsPath(p) ==
  p = [lane |-> p.lane, size |-> p.size, rank |-> p.rank, offRoute |-> p.offRoute,
       ids |-> p.ids, starts |-> p.starts, loop |-> p.loop, goal |-> p.goal, red |-> p.red,
       segments |-> p.segments, anchors |-> p.anchors, blank |-> p.blank]

(* Where the first red light along a path is.                              *)
RedOf(p) ==
  LET reds == {k \in DOMAIN p.ids : HasRedTrafficLight(p.ids[k])}
  IN  IF reds = {} THEN Far ELSE p.starts[Min(reds)]

(* What is asked of a path beside its fields: the current light, and the   *)
(* tables of a path of so many points.                                     *)
Shaped   == [lit |-> FALSE, size |-> 0]
Shown    == [lit |-> TRUE, size |-> 0]
Sized(n) == [lit |-> FALSE, size |-> n]

(* Such a path.                                                            *)
Made(p, want) ==
  /\ IsPath(p)
  /\ want.lit = TRUE => p.red = RedOf(p)
  /\ want.size # 0 => Whole(p, want.size)

(* A slot is empty, or its path is such a one.                             *)
Fine(p, want) == p = None \/ Made(p, want)

(* For tables of a given size, the edges a path is strung together from    *)
(* have to be on the map, and the path has to have that size.              *)
OnMap(want, e, ahead) ==
  want.size # 0 => route \in Routes /\ e \in Edges /\ ahead \in Nat \ {0} /\ want.size = Lookback + ahead

(* The same for a path into a successor; one that starts before a          *)
(* connector has one.                                                      *)
Extends(want, e, successor, ahead, forLane) ==
  /\ OnMap(want, e, ahead)
  /\ want.size # 0 => successor \in MaybeEdges /\ forLane \in BOOLEAN /\ (forLane \/ successor # NoEdge)

(* And for paths into several.                                             *)
Leads(want, e, succs, ahead, forLane) ==
  /\ OnMap(want, e, ahead)
  /\ want.size # 0 => succs \in Seq(Edges) /\ forLane \in BOOLEAN /\ (forLane \/ succs # <<>>)

(* A path is not mistaken for an empty slot.                               *)
LEMMA NotNone == ASSUME NEW p, IsPath(p) PROVE p # None
<1>1. "size" \in DOMAIN p
  BY DEF IsPath
<1>2. "size" \notin DOMAIN None
  BY DEF None
<1> QED BY <1>1, <1>2

(* Tabulate makes a path, and its red light is the first along it: the     *)
(* light it reads from the chunks is the one its tables of edges and       *)
(* starts give.                                                            *)
LEMMA TabulateMade ==
  ASSUME NEW e, NEW behind, NEW chain, NEW need, NEW end, NEW back, NEW size
  PROVE  LET p == Tabulate(e, behind, chain, need, end, back, size)
         IN  IsPath(p) /\ p.red = RedOf(p)
<1> DEFINE p == Tabulate(e, behind, chain, need, end, back, size)
           ids == [k \in 1..Len(chain) |-> chain[k].id]
           starts == [k \in 1..Len(chain) |-> chain[k].at]
           reds == {k \in 1..Len(chain) : HasRedTrafficLight(chain[k].id)}
<1>1. /\ IsPath(p) /\ p.ids = ids /\ p.starts = starts
      /\ p.red = IF reds = {} THEN Far ELSE chain[Min(reds)].at
  BY DEF Tabulate, IsPath
<1>2. {k \in DOMAIN ids : HasRedTrafficLight(ids[k])} = reds
  OBVIOUS
<1>3. reds # {} => Min(reds) \in 1..Len(chain)
  <2>1. 1 \in Int /\ reds \in SUBSET Int /\ \A k \in reds : 1 <= k
    OBVIOUS
  <2> QED BY <2>1, MinFact
<1>4. RedOf(p) = IF reds = {} THEN Far ELSE starts[Min(reds)]
  <2> HIDE DEF p, ids, starts, reds
  <2> QED BY <1>1, <1>2 DEF RedOf
<1>5. reds # {} => starts[Min(reds)] = chain[Min(reds)].at
  BY <1>3
<1>6. IsPath(p) /\ p.red = RedOf(p)
  <2> HIDE DEF p, ids, starts, reds
  <2> QED BY <1>1, <1>4, <1>5
<1> QED BY <1>6

(* So ExtendPath does, whatever edges it strings together; its tables are  *)
(* complete if those are on the map.                                       *)
LEMMA ExtendMade ==
  ASSUME NEW e, NEW successor, NEW ahead, NEW forLane, NEW want,
         Extends(want, e, successor, ahead, forLane)
  PROVE  Made(ExtendPath(e, successor, Lookback, ahead, forLane), want)
<1> DEFINE p == ExtendPath(e, successor, Lookback, ahead, forLane)
<1>1. IsPath(p) /\ p.red = RedOf(p)
  BY TabulateMade DEF ExtendPath, Around, Assemble
<1>2. ASSUME want.size # 0 PROVE Whole(p, want.size)
  <2>1. /\ route \in Routes /\ e \in Edges /\ successor \in MaybeEdges
        /\ ahead \in Nat \ {0} /\ forLane \in BOOLEAN /\ (forLane \/ successor # NoEdge)
        /\ want.size = Lookback + ahead
    BY <1>2 DEF Extends, OnMap
  <2>2. Lookback \in Nat \ {0}
    BY PathAssumption
  <2>3. Whole(p, Lookback + ahead)
    BY <2>1, <2>2, ExtendWhole
  <2> QED BY <2>1, <2>3
<1> HIDE DEF p
<1>3. Made(p, want)
  BY <1>1, <1>2 DEF Made
<1> QED BY <1>3 DEF p

(* Nothing is asked of the map for paths of no given size.                 *)
LEMMA Anywhere ==
  ASSUME NEW want, want.size = 0
  PROVE  /\ \A e, ahead : OnMap(want, e, ahead)
         /\ \A e, s, ahead, forLane : Extends(want, e, s, ahead, forLane)
         /\ \A e, succs, ahead, forLane : Leads(want, e, succs, ahead, forLane)
BY DEF OnMap, Extends, Leads

(* What is asked of a path is not about its rank, goal and route flag.     *)
LEMMA SameMade ==
  ASSUME NEW p, NEW q, NEW want, Made(p, want), IsPath(q),
         q.ids = p.ids, q.starts = p.starts, q.red = p.red, q.size = p.size,
         q.segments = p.segments, q.anchors = p.anchors, q.blank = p.blank
  PROVE  Made(q, want)
<1>1. RedOf(q) = RedOf(p)
  BY DEF RedOf
<1>2. \A n : Whole(p, n) => Whole(q, n)
  BY DEF Whole
<1> QED BY <1>1, <1>2 DEF Made

(* Ranks, goals and the route flag are written without touching the light  *)
(* or the tables.                                                          *)
LEMMA RankMade ==
  ASSUME NEW p, NEW want, NEW x, Made(p, want)
  PROVE  Made([p EXCEPT !.rank = x], want)
<1> DEFINE q == [p EXCEPT !.rank = x]
<1>1. /\ IsPath(q) /\ q.ids = p.ids /\ q.starts = p.starts /\ q.red = p.red /\ q.size = p.size
      /\ q.segments = p.segments /\ q.anchors = p.anchors /\ q.blank = p.blank
  BY DEF Made, IsPath
<1> HIDE DEF q
<1>2. Made(q, want)
  BY <1>1, SameMade
<1> QED BY <1>2 DEF q

(* The goal.                                                               *)
LEMMA GoalMade ==
  ASSUME NEW p, NEW want, NEW x, Made(p, want)
  PROVE  Made([p EXCEPT !.goal = x], want)
<1> DEFINE q == [p EXCEPT !.goal = x]
<1>1. /\ IsPath(q) /\ q.ids = p.ids /\ q.starts = p.starts /\ q.red = p.red /\ q.size = p.size
      /\ q.segments = p.segments /\ q.anchors = p.anchors /\ q.blank = p.blank
  BY DEF Made, IsPath
<1> HIDE DEF q
<1>2. Made(q, want)
  BY <1>1, SameMade
<1> QED BY <1>2 DEF q

(* The route flag.                                                         *)
LEMMA OffMade ==
  ASSUME NEW p, NEW want, NEW x, Made(p, want)
  PROVE  Made([p EXCEPT !.offRoute = x], want)
<1> DEFINE q == [p EXCEPT !.offRoute = x]
<1>1. /\ IsPath(q) /\ q.ids = p.ids /\ q.starts = p.starts /\ q.red = p.red /\ q.size = p.size
      /\ q.segments = p.segments /\ q.anchors = p.anchors /\ q.blank = p.blank
  BY DEF Made, IsPath
<1> HIDE DEF q
<1>2. Made(q, want)
  BY <1>1, SameMade
<1> QED BY <1>2 DEF q

(* Rank and goal.                                                          *)
LEMMA RankedMade ==
  ASSUME NEW p, NEW want, NEW x, NEW y, Made(p, want)
  PROVE  Made([p EXCEPT !.rank = x, !.goal = y], want)
<1>1. [p EXCEPT !.rank = x, !.goal = y] = [[p EXCEPT !.rank = x] EXCEPT !.goal = y]
  BY DEF Made, IsPath
<1> QED BY <1>1, RankMade, GoalMade

(* The path into a successor (buildSortedPaths, addNeighborPaths).         *)
LEMMA PathIntoMade ==
  ASSUME NEW start, NEW s, NEW ahead, NEW forLane, NEW want, Extends(want, start, s, ahead, forLane)
  PROVE  Made(PathInto(start, s, ahead, forLane), want)
BY ExtendMade, OffMade DEF PathInto

(* Wherever it leads, what is built is a path.                             *)
LEMMA PathsShaped ==
  ASSUME NEW start, NEW s, NEW ahead, NEW forLane
  PROVE  /\ Made(PathInto(start, s, ahead, forLane), Shaped)
         /\ Made(ExtendPath(start, s, Lookback, ahead, forLane), Shaped)
         /\ PathInto(start, s, ahead, forLane) # None
         /\ ExtendPath(start, s, Lookback, ahead, forLane) # None
<1>1. Extends(Shaped, start, s, ahead, forLane)
  BY DEF Extends, OnMap, Shaped
<1>2. /\ Made(PathInto(start, s, ahead, forLane), Shaped)
      /\ Made(ExtendPath(start, s, Lookback, ahead, forLane), Shaped)
  BY <1>1, PathIntoMade, ExtendMade
<1>3. \A p : Made(p, Shaped) => p # None
  BY NotNone DEF Made
<1> QED BY <1>2, <1>3

(* The three slots hold paths or nothing.                                  *)
SlotsFine(paths, want) ==
  paths = [i \in Slots |-> paths[i]] /\ \A i \in Slots : Fine(paths[i], want)

(* Every extra path is one.                                                *)
ExtrasFine(extra, want) ==
  extra \in Seq(ToSet(extra)) /\ \A k \in DOMAIN extra : Made(extra[k], want)

(* What a builder returns, and what the ego keeps.                         *)
BuiltFine(b, want) ==
  /\ b = [paths |-> b.paths, idx |-> b.idx, extra |-> b.extra]
  /\ SlotsFine(b.paths, want) /\ ExtrasFine(b.extra, want)

(* The ego, with everything it keeps beside them.                          *)
EgoFine(b, want) ==
  /\ b = [paths |-> b.paths, extra |-> b.extra, idx |-> b.idx, close |-> b.close,
          line |-> b.line, terminal |-> b.terminal, size |-> b.size]
  /\ want.size # 0 => b.size = want.size
  /\ SlotsFine(b.paths, want) /\ ExtrasFine(b.extra, want)

(* Three paths or empty slots fill the slots.                              *)
LEMMA ThreeFine ==
  ASSUME NEW a, NEW b, NEW c, NEW want, Fine(a, want), Fine(b, want), Fine(c, want)
  PROVE  SlotsFine(Triple(a, b, c), want)
BY DEF SlotsFine, Slots, Triple

(* A path that does not fit becomes an extra one (addNeighborPaths).       *)
LEMMA AppendFine ==
  ASSUME NEW extra, NEW p, NEW want, ExtrasFine(extra, want), Made(p, want)
  PROVE  ExtrasFine(Append(extra, p), want)
<1> DEFINE S == ToSet(extra) \union {p}
           longer == Append(extra, p)
<1>1. extra \in Seq(S) /\ p \in S
  BY DEF ExtrasFine
<1>2. /\ longer \in Seq(S) /\ Len(longer) = Len(extra) + 1
      /\ \A k \in 1..Len(extra) : longer[k] = extra[k]
      /\ longer[Len(extra) + 1] = p
      /\ Len(extra) \in Nat /\ DOMAIN extra = 1..Len(extra) /\ DOMAIN longer = 1..(Len(extra) + 1)
  BY <1>1
<1>3. \A k \in DOMAIN longer : Made(longer[k], want)
  BY <1>2 DEF ExtrasFine
<1>4. longer \in Seq(ToSet(longer))
  <2> HIDE DEF longer
  <2>1. \A k \in 1..Len(longer) : longer[k] \in ToSet(longer)
    BY <1>2 DEF ToSet
  <2> QED BY <1>2, <2>1
<1> QED BY <1>3, <1>4 DEF ExtrasFine

(* An extra path is taken out (UpdateEgoRefPaths).                         *)
LEMMA RemoveFine ==
  ASSUME NEW extra, NEW n \in DOMAIN extra, NEW want, ExtrasFine(extra, want)
  PROVE  ExtrasFine(RemoveAt(extra, n), want)
<1> DEFINE S == ToSet(extra)
           less == RemoveAt(extra, n)
<1>1. extra \in Seq(S) /\ n \in 1..Len(extra) /\ Len(extra) \in Nat
  BY DEF ExtrasFine
<1>2. /\ SubSeq(extra, 1, n - 1) \in Seq(S) /\ SubSeq(extra, n + 1, Len(extra)) \in Seq(S)
  BY <1>1
<1>3. less \in Seq(S)
  BY <1>2 DEF RemoveAt
<1>4. \A k \in DOMAIN less : less[k] \in S
  BY <1>3
<1>5. \A x \in S : Made(x, want)
  BY DEF ExtrasFine, ToSet
<1>6. less \in Seq(ToSet(less))
  <2> HIDE DEF less
  <2>1. \A k \in 1..Len(less) : less[k] \in ToSet(less)
    BY <1>3 DEF ToSet
  <2> QED BY <1>3, <2>1
<1> QED BY <1>4, <1>5, <1>6 DEF ExtrasFine

(* Empty slots, no extra paths.                                            *)
LEMMA NoPathsFine ==
  ASSUME NEW want PROVE SlotsFine(NoPaths, want) /\ ExtrasFine(<<>>, want)
BY DEF NoPaths, SlotsFine, Fine, ExtrasFine

(* A neighbour's path keeps the shape, in whichever slot it lands.         *)
LEMMA AddPathFine ==
  ASSUME NEW b, NEW p, NEW onLeft, NEW want, BuiltFine(b, want), Made(p, want)
  PROVE  BuiltFine(AddPath(b, p, onLeft), want)
<1> DEFINE n == Cardinality(Valid(b.paths))
<1>0. Fine(p, want)
  BY DEF Fine
<1>1. CASE n = 3
  <2>1. Made([p EXCEPT !.rank = IF onLeft THEN 0 ELSE 4], want)
    BY RankMade
  <2>2. ExtrasFine(Append(b.extra, [p EXCEPT !.rank = IF onLeft THEN 0 ELSE 4]), want)
    BY <2>1, AppendFine DEF BuiltFine
  <2> DEFINE longer == Append(b.extra, [p EXCEPT !.rank = IF onLeft THEN 0 ELSE 4])
  <2>3. AddPath(b, p, onLeft) = [b EXCEPT !.extra = longer]
    BY <1>1 DEF AddPath
  <2> HIDE DEF longer
  <2>4. BuiltFine([b EXCEPT !.extra = longer], want)
    <3>1. ExtrasFine(longer, want)
      BY <2>2 DEF longer
    <3> QED BY <3>1 DEF BuiltFine
  <2> QED BY <2>3, <2>4
<1>2. CASE n # 3 /\ n < 3 /\ onLeft
  <2> DEFINE q == IF b.paths[0] = None THEN [b.paths EXCEPT ![0] = p]
                  ELSE Triple(p, b.paths[0], b.paths[1])
  <2>1. SlotsFine([b.paths EXCEPT ![0] = p], want)
    BY <1>0 DEF BuiltFine, SlotsFine, Slots
  <2>2. SlotsFine(Triple(p, b.paths[0], b.paths[1]), want)
    <3>1. Fine(b.paths[0], want) /\ Fine(b.paths[1], want)
      BY DEF BuiltFine, SlotsFine, Slots
    <3> QED BY <1>0, <3>1, ThreeFine
  <2>3. SlotsFine(q, want)
    BY <2>1, <2>2
  <2>4. AddPath(b, p, onLeft) = [b EXCEPT !.paths = q, !.idx = IF @ < 2 THEN 1 ELSE @]
    BY <1>2 DEF AddPath
  <2> HIDE DEF q
  <2> QED BY <2>3, <2>4 DEF BuiltFine
<1>3. CASE n # 3 /\ ~(n < 3 /\ onLeft)
  <2>1. SlotsFine([b.paths EXCEPT ![n] = p], want)
    BY <1>0 DEF BuiltFine, SlotsFine, Slots
  <2>2. AddPath(b, p, onLeft) = [b EXCEPT !.paths[n] = p]
    BY <1>3 DEF AddPath
  <2> HIDE DEF n
  <2> QED BY <2>1, <2>2 DEF BuiltFine
<1> QED BY <1>1, <1>2, <1>3

(* What addNeighborPaths finds.                                            *)
Found(center, succs) ==
  LET into(lane, side) == FilteredNeighborSuccessor(lane, side, succs)
  IN  ByMiss(Neighbor(LeftOf[center], into(LeftOf[center], LeftNeighbor), TRUE)
             \o Neighbor(RightOf[center], into(RightOf[center], RightNeighbor), FALSE))

(* A neighbour that can be changed to, and its successor, are on the map.  *)
LEMMA NeighborOnMap ==
  ASSUME route \in Routes, NEW lane, NEW side, NEW succs
  PROVE  LET s == FilteredNeighborSuccessor(lane, side, succs)
         IN  s \in MaybeEdges /\ (s # NoEdge => lane \in Edges)
<1> DEFINE r == RouteSuccessors(lane)
           nexts == {NextOnRoute(c) : c \in ToSet(succs)}
           fits(x) == /\ NextOnRoute(x) # NoEdge
                      /\ IF Len(succs) = 1 THEN NextOnRoute(x) = side[NextOnRoute(succs[1])]
                                           ELSE NextOnRoute(x) \notin nexts
           at == {i \in DOMAIN r : succs # <<>> /\ fits(r[i])}
           s == FilteredNeighborSuccessor(lane, side, succs)
<1>0. route \in SUBSET Edges
  BY MapAssumption
<1>1. s = IF lane \notin route THEN NoEdge ELSE FirstAt(r, at)
  BY DEF FilteredNeighborSuccessor
<1>2. at \in SUBSET DOMAIN r
  OBVIOUS
<1> HIDE DEF at, s
<1>3. lane \in route => r \in Seq(Edges)
  BY <1>0, SuccessorsType
<1> HIDE DEF r
<1>4. lane \in route => FirstAt(r, at) \in MaybeEdges
  BY <1>2, <1>3, FirstAtType
<1>5. s \in MaybeEdges /\ (s # NoEdge => lane \in Edges)
  BY <1>0, <1>1, <1>4 DEF MaybeEdges
<1> QED BY <1>5 DEF s

(* The neighbours that addNeighborPaths finds, and their successors, are   *)
(* edges of the map.                                                       *)
LEMMA FoundExtend ==
  ASSUME NEW center, NEW succs, NEW ahead, NEW forLane, NEW want,
         want.size # 0 => /\ route \in Routes /\ ahead \in Nat \ {0} /\ forLane \in BOOLEAN
                          /\ want.size = Lookback + ahead,
         NEW found, found = Found(center, succs), NEW k \in DOMAIN found
  PROVE  Extends(want, found[k].lane, found[k].successor, ahead, forLane)
<1>1. CASE want.size = 0
  BY <1>1, Anywhere
<1>2. CASE want.size # 0
  <2> DEFINE V == [lane : Edges, successor : Edges, left : BOOLEAN]
             beside(lane, side, onLeft) == Neighbor(lane, FilteredNeighborSuccessor(lane, side, succs), onLeft)
  <2>0. route \in Routes /\ route \in SUBSET Edges
    BY <1>2, MapAssumption
  <2>1. ASSUME NEW lane, NEW side, NEW onLeft \in BOOLEAN PROVE beside(lane, side, onLeft) \in Seq(V)
    <3> DEFINE s == FilteredNeighborSuccessor(lane, side, succs)
    <3>1. s \in MaybeEdges /\ (s # NoEdge => lane \in Edges)
      BY <2>0, NeighborOnMap
    <3> HIDE DEF s
    <3>2. Neighbor(lane, s, onLeft) \in Seq(V)
      <4> DEFINE x == [lane |-> lane, successor |-> s, left |-> onLeft]
      <4>1. s # NoEdge => x \in V
        BY <3>1 DEF MaybeEdges
      <4>2. Neighbor(lane, s, onLeft) = IF s = NoEdge THEN <<>> ELSE <<x>>
        BY DEF Neighbor
      <4> HIDE DEF x, V
      <4>3. s # NoEdge => <<x>> \in Seq(V)
        BY <4>1
      <4> QED BY <4>2, <4>3
    <3> QED BY <3>2 DEF s
  <2> DEFINE u == beside(LeftOf[center], LeftNeighbor, TRUE)
             v == beside(RightOf[center], RightNeighbor, FALSE)
             w == u \o v
             at == DOMAIN w
             key == [f \in ToSet(w) |-> Miss[f.lane]]
  <2>2. u \in Seq(V) /\ v \in Seq(V)
    BY <2>1
  <2>3. found = SortedAt(w, at, key)
    BY DEF Found, ByMiss, SortedBy
  <2> HIDE DEF u, v
  <2>4. w \in Seq(V)
    BY <2>2
  <2> HIDE DEF w
  <2>5. at \in SUBSET DOMAIN w /\ \A i \in at : key[w[i]] \in Int
    <3>0. \A i \in DOMAIN w : w[i] \in ToSet(w) /\ w[i] \in V
      <4> HIDE DEF V
      <4> QED BY <2>4 DEF ToSet
    <3>1. \A i \in DOMAIN w : w[i] \in ToSet(w) /\ w[i].lane \in Edges
      BY <3>0
    <3>2. \A e \in Edges : Miss[e] \in Nat
      BY MapAssumption
    <3>3. \A i \in DOMAIN w : key[w[i]] = Miss[w[i].lane]
      BY <3>1
    <3> HIDE DEF key
    <3> QED BY <3>1, <3>2, <3>3
  <2> HIDE DEF at, key, V
  <2>6. found \in Seq(V)
    BY <2>3, <2>4, <2>5, SortedAtSeq
  <2>7. found[k] \in V
    BY <2>6
  <2>8. found[k].lane \in Edges /\ found[k].successor \in Edges
    BY <2>7 DEF V
  <2>9. found[k].successor # NoEdge
    BY <2>8, MapAssumption
  <2> QED BY <1>2, <2>8, <2>9 DEF Extends, OnMap, MaybeEdges
<1> QED BY <1>1, <1>2

(* addNeighborPaths.                                                       *)
LEMMA NeighborsFine ==
  ASSUME NEW b, NEW center, NEW succs, NEW ahead, NEW forLane, NEW want, BuiltFine(b, want),
         want.size # 0 => /\ route \in Routes /\ ahead \in Nat \ {0} /\ forLane \in BOOLEAN
                          /\ want.size = Lookback + ahead
  PROVE  BuiltFine(AddNeighborPaths(b, center, succs, ahead, forLane), want)
<1> DEFINE found == Found(center, succs)
<1>0. \A k \in DOMAIN found : Extends(want, found[k].lane, found[k].successor, ahead, forLane)
  BY FoundExtend
<1> HIDE DEF found
<1>1. ASSUME NEW c, NEW k, BuiltFine(c, want)
      PROVE  BuiltFine(AddNeighbor(c, found, k, ahead, forLane), want)
  <2>1. CASE k \notin DOMAIN found
    BY <1>1, <2>1 DEF AddNeighbor
  <2>2. CASE k \in DOMAIN found
    <3> DEFINE p == PathInto(found[k].lane, found[k].successor, ahead, forLane)
    <3>1. Made(p, want)
      BY <1>0, <2>2, PathIntoMade
    <3>2. AddNeighbor(c, found, k, ahead, forLane) = AddPath(c, p, found[k].left)
      BY <2>2 DEF AddNeighbor
    <3> HIDE DEF p
    <3>3. BuiltFine(AddPath(c, p, found[k].left), want)
      BY <1>1, <3>1, AddPathFine
    <3> QED BY <3>2, <3>3
  <2> QED BY <2>1, <2>2
<1>2. BuiltFine(AddNeighbor(b, found, 1, ahead, forLane), want)
  BY <1>1
<1>3. BuiltFine(AddNeighbor(AddNeighbor(b, found, 1, ahead, forLane), found, 2, ahead, forLane), want)
  BY <1>1, <1>2
<1> QED BY <1>3 DEF AddNeighborPaths, Found, found

(* An empty slot needs no light.                                           *)
LEMMA NoneFine == \A want : Fine(None, want)
BY DEF Fine

(* buildSortedPaths, with a successor left.                                *)
LEMMA SortedFine ==
  ASSUME NEW kept, NEW start, NEW here, NEW candidates, NEW ahead, NEW forLane, NEW want,
         \A i \in Slots : i < Least(Len(kept), 3) => Extends(want, start, kept[i + 1], ahead, forLane)
  PROVE  BuiltFine(Sorted(kept, start, here, candidates, ahead, forLane), want)
<1> DEFINE n == Least(Len(kept), 3)
           paths == [i \in Slots |->
                       IF i < n THEN PathInto(start, kept[i + 1], ahead, forLane) ELSE None]
           b == Sorted(kept, start, here, candidates, ahead, forLane)
<1>1. \A i \in Slots : Fine(paths[i], want)
  BY PathIntoMade DEF Fine
<1>2. SlotsFine(paths, want)
  <2>1. paths = [i \in Slots |-> paths[i]]
    OBVIOUS
  <2> HIDE DEF paths
  <2> QED BY <1>1, <2>1 DEF SlotsFine
<1>3. /\ b = [paths |-> b.paths, idx |-> b.idx, extra |-> b.extra]
      /\ b.paths = paths /\ b.extra = <<>>
  BY DEF Sorted
<1>4. BuiltFine(b, want)
  <2> HIDE DEF b, paths
  <2> QED BY <1>2, <1>3, NoPathsFine DEF BuiltFine
<1> QED BY <1>4

(* A single path, in slot 0.                                               *)
LEMMA OneFine ==
  ASSUME NEW p, NEW want, Made(p, want)
  PROVE  BuiltFine([paths |-> [NoPaths EXCEPT ![0] = p], idx |-> 0, extra |-> <<>>], want)
<1>1. Fine(p, want)
  BY DEF Fine
<1>2. SlotsFine([NoPaths EXCEPT ![0] = p], want)
  BY <1>1, NoneFine DEF SlotsFine, NoPaths, Slots
<1> QED BY <1>2, NoPathsFine DEF BuiltFine

(* buildSortedPaths, with all successors filtered out.                     *)
LEMMA FallbackFine ==
  ASSUME NEW start, NEW succs, NEW here, NEW ahead, NEW forLane, NEW want,
         Leads(want, start, succs, ahead, forLane)
  PROVE  BuiltFine(Fallback(start, succs, here, ahead, forLane), want)
<1> DEFINE first3 == SubSeq(succs, 1, Least(Len(succs), 3))
           into == IF ~forLane /\ here \in ToSet(first3) THEN here ELSE HeadOr(succs)
<1>1. Extends(want, start, into, ahead, forLane)
  <2>1. CASE want.size = 0
    BY <2>1, Anywhere
  <2>2. CASE want.size # 0
    <3>1. OnMap(want, start, ahead) /\ succs \in Seq(Edges) /\ forLane \in BOOLEAN /\ (forLane \/ succs # <<>>)
      BY <2>2 DEF Leads
    <3>2. first3 \in Seq(Edges)
      <4>1. Len(succs) \in Nat
        BY <3>1
      <4>2. Least(Len(succs), 3) \in Int /\ Least(Len(succs), 3) <= Len(succs)
        BY <4>1 DEF Least
      <4> DEFINE m == Least(Len(succs), 3)
      <4> HIDE DEF m
      <4>3. SubSeq(succs, 1, m) \in Seq(Edges)
        BY <3>1, <4>1, <4>2 DEF m
      <4> QED BY <4>3 DEF m
    <3> HIDE DEF first3
    <3>3. ToSet(first3) \subseteq Edges
      BY <3>2 DEF ToSet
    <3>4. succs # <<>> => HeadOr(succs) \in Edges
      BY <3>1 DEF HeadOr
    <3>5. succs = <<>> => HeadOr(succs) = NoEdge
      BY DEF HeadOr
    <3>6. NoEdge \notin Edges
      BY MapAssumption
    <3>7. into \in MaybeEdges /\ (forLane \/ into # NoEdge)
      BY <3>1, <3>3, <3>4, <3>5, <3>6 DEF MaybeEdges
    <3> HIDE DEF into
    <3> QED BY <3>1, <3>7 DEF Extends
  <2> QED BY <2>1, <2>2
<1> HIDE DEF into
<1>2. Made(ExtendPath(start, into, Lookback, ahead, forLane), want)
  BY <1>1, ExtendMade
<1>3. Fallback(start, succs, here, ahead, forLane)
        = [paths |-> [NoPaths EXCEPT ![0] = ExtendPath(start, into, Lookback, ahead, forLane)],
           idx |-> 0, extra |-> <<>>]
  BY DEF Fallback, into
<1> QED BY <1>2, <1>3, OneFine

(* A lane or connector on its own.                                         *)
LEMMA AloneFine ==
  ASSUME NEW e, NEW ahead, NEW want, OnMap(want, e, ahead)
  PROVE  BuiltFine(Alone(e, ahead), want)
<1>1. Extends(want, e, NextOnRoute(e), ahead, TRUE)
  BY NextType DEF Extends, OnMap
<1>2. Made(ExtendPath(e, NextOnRoute(e), Lookback, ahead, TRUE), want)
  BY <1>1, ExtendMade
<1> QED BY <1>2, OneFine DEF Alone

(* buildSortedPaths.                                                       *)
LEMMA BuildSortedFine ==
  ASSUME NEW start, NEW succs, NEW e, NEW last, NEW candidates, NEW ahead, NEW forLane, NEW want,
         Leads(want, start, succs, ahead, forLane)
  PROVE  BuiltFine(BuildSortedPaths(start, succs, e, last, candidates, ahead, forLane), want)
<1> DEFINE allowed(s) == Succ[s] = <<>> \/ /\ Succ[s][1] \notin {last, start}
                                           /\ ~ShouldReplaceSuccessorWithNeighbor(start, s)
           leftmost == [s \in ToSet(succs) |-> LeftDepth[HeadOr(Succ[s])]]
           next == {i \in DOMAIN succs : allowed(succs[i])}
           kept == SortedAt(succs, next, leftmost)
<1>1. \A i \in Slots : i < Least(Len(kept), 3) => Extends(want, start, kept[i + 1], ahead, forLane)
  <2>1. CASE want.size = 0
    BY <2>1, Anywhere
  <2>2. CASE want.size # 0
    <3>1. OnMap(want, start, ahead) /\ succs \in Seq(Edges) /\ forLane \in BOOLEAN
      BY <2>2 DEF Leads
    <3>2. next \in SUBSET DOMAIN succs
      OBVIOUS
    <3>3. \A i \in next : leftmost[succs[i]] \in Int
      <4> SUFFICES ASSUME NEW i \in next PROVE leftmost[succs[i]] \in Int
        OBVIOUS
      <4> DEFINE s == succs[i]
      <4>1. s \in ToSet(succs) /\ s \in Edges
        BY <3>1, <3>2 DEF ToSet
      <4> HIDE DEF s
      <4>2. Succ[s] \in Seq(Edges)
        BY <4>1, MapAssumption
      <4>3. HeadOr(Succ[s]) \in MaybeEdges
        BY <4>2 DEF HeadOr, MaybeEdges
      <4>4. LeftDepth[HeadOr(Succ[s])] \in Nat
        BY <4>3, LeftDepthType
      <4>5. leftmost[s] = LeftDepth[HeadOr(Succ[s])]
        BY <4>1
      <4> QED BY <4>4, <4>5 DEF s
    <3> HIDE DEF next, leftmost
    <3>4. kept \in Seq(Edges)
      BY <3>1, <3>2, <3>3, SortedAtSeq
    <3> HIDE DEF kept
    <3>5. \A i \in Slots : i < Least(Len(kept), 3) => kept[i + 1] \in Edges
      <4>1. Len(kept) \in Nat /\ \A k \in 1..Len(kept) : kept[k] \in Edges
        BY <3>4
      <4>2. \A i \in Slots : i \in Nat
        BY DEF Slots
      <4> QED BY <4>1, <4>2 DEF Least
    <3>6. NoEdge \notin Edges
      BY MapAssumption
    <3> QED BY <3>1, <3>5, <3>6 DEF Extends, MaybeEdges
  <2> QED BY <2>1, <2>2
<1> HIDE DEF kept
<1>2. BuiltFine(Sorted(kept, start, e, candidates, ahead, forLane), want)
  BY <1>1, SortedFine
<1>3. BuiltFine(Fallback(start, succs, e, ahead, forLane), want)
  BY FallbackFine
<1> QED BY <1>2, <1>3 DEF BuildSortedPaths, kept

(* The paths of a junction.                                                *)
LEMMA JunctionFine ==
  ASSUME NEW start, NEW e, NEW last, NEW candidates, NEW ahead, NEW forLane, NEW want,
         Leads(want, start, RouteSuccessors(start), ahead, forLane)
  PROVE  BuiltFine(JunctionPaths(start, e, last, candidates, ahead, forLane), want)
<1> DEFINE succs == RouteSuccessors(start)
<1>1. BuiltFine(BuildSortedPaths(start, succs, e, last, candidates, ahead, forLane), want)
  BY BuildSortedFine
<1>2. want.size # 0 => /\ route \in Routes /\ ahead \in Nat \ {0} /\ forLane \in BOOLEAN
                       /\ want.size = Lookback + ahead
  BY DEF Leads, OnMap
<1> HIDE DEF succs
<1>3. BuiltFine(AddNeighborPaths(
        BuildSortedPaths(start, succs, e, last, candidates, ahead, forLane),
        start, succs, ahead, forLane), want)
  BY <1>1, <1>2, NeighborsFine
<1> QED BY <1>3 DEF JunctionPaths, succs

(* The paths of a lane and its neighbours.                                 *)
LEMMA ThreePathsFine ==
  ASSUME NEW e, NEW own, NEW left, NEW right, NEW ahead, NEW want,
         Extends(want, e, own, ahead, TRUE),
         left # NoEdge => Extends(want, LeftOf[e], left, ahead, TRUE),
         right # NoEdge => Extends(want, RightOf[e], right, ahead, TRUE)
  PROVE  BuiltFine(ThreePaths(e, own, left, right, ahead), want)
<1> DEFINE beside(lane, s) == IF s = NoEdge THEN None ELSE PathInto(lane, s, ahead, TRUE)
           a == beside(LeftOf[e], left)
           m == PathInto(e, own, ahead, TRUE)
           c == beside(RightOf[e], right)
<1>1. Fine(a, want) /\ Fine(m, want) /\ Fine(c, want)
  BY PathIntoMade DEF Fine
<1>2. SlotsFine(Triple(a, m, c), want)
  <2> HIDE DEF a, m, c
  <2> QED BY <1>1, ThreeFine
<1>3. ThreePaths(e, own, left, right, ahead)
        = [paths |-> Triple(a, m, c), idx |-> 1, extra |-> <<>>]
  BY DEF ThreePaths
<1> QED
  <2> HIDE DEF a, m, c
  <2> QED BY <1>2, <1>3, NoPathsFine DEF BuiltFine

(* A lane whose end is far.                                                *)
LEMMA LaneChangeFine ==
  ASSUME NEW e, NEW ahead, NEW want, OnMap(want, e, ahead)
  PROVE  BuiltFine(LaneChangePaths(e, ahead), want)
<1> DEFINE succs == RouteSuccessors(e)
           left == FilteredNeighborSuccessor(LeftOf[e], LeftNeighbor, succs)
           right == FilteredNeighborSuccessor(RightOf[e], RightNeighbor, succs)
           own == FilteredCurrentSuccessor(succs, left, right)
<1>1. LaneChangePaths(e, ahead) = ThreePaths(e, own, left, right, ahead)
  BY DEF LaneChangePaths, BesidePaths
<1>2. /\ Extends(want, e, own, ahead, TRUE)
      /\ left # NoEdge => Extends(want, LeftOf[e], left, ahead, TRUE)
      /\ right # NoEdge => Extends(want, RightOf[e], right, ahead, TRUE)
  <2>1. CASE want.size = 0
    BY <2>1, Anywhere
  <2>2. CASE want.size # 0
    <3>1. /\ route \in Routes /\ e \in Edges /\ ahead \in Nat \ {0}
          /\ want.size = Lookback + ahead
      BY <2>2 DEF OnMap
    <3>2. own \in MaybeEdges
      <4> DEFINE beside == {NextOnRoute(left), NextOnRoute(right)} \ {NoEdge}
                 at == {i \in DOMAIN succs : NextOnRoute(succs[i]) \notin beside}
      <4>1. own = FirstAt(succs, at)
        BY DEF FilteredCurrentSuccessor
      <4>2. at \in SUBSET DOMAIN succs
        OBVIOUS
      <4>3. succs \in Seq(Edges)
        BY <3>1, SuccessorsType
      <4> HIDE DEF own, at, succs
      <4> QED BY <4>1, <4>2, <4>3, FirstAtType
    <3>3. left \in MaybeEdges /\ (left # NoEdge => LeftOf[e] \in Edges)
      BY <3>1, NeighborOnMap
    <3>4. right \in MaybeEdges /\ (right # NoEdge => RightOf[e] \in Edges)
      BY <3>1, NeighborOnMap
    <3> HIDE DEF left, right, own
    <3> QED BY <3>1, <3>2, <3>3, <3>4 DEF Extends, OnMap
  <2> QED BY <2>1, <2>2
<1> HIDE DEF own, left, right
<1>3. BuiltFine(ThreePaths(e, own, left, right, ahead), want)
  BY <1>2, ThreePathsFine
<1> QED BY <1>1, <1>3

(* All that GetEgoRefPaths makes, on a lane or a connector.                *)
LEMMA PathsFromFine ==
  ASSUME NEW e, NEW last, NEW candidates, NEW soon, NEW ahead, NEW want, OnMap(want, e, ahead)
  PROVE  BuiltFine(PathsFrom(StartOf(e), e, last, candidates, soon, ahead), want)
<1> DEFINE start == StartOf(e)
           forLane == e \in Lanes
<1>1. BuiltFine(LaneChangePaths(e, ahead), want)
  BY LaneChangeFine
<1>2. BuiltFine(Alone(e, ahead), want)
  BY AloneFine
<1>3. ASSUME RouteSuccessors(start) # <<>>
      PROVE  BuiltFine(JunctionPaths(start, e, last, candidates, ahead, forLane), want)
  <2>1. Leads(want, start, RouteSuccessors(start), ahead, forLane)
    <3>1. CASE want.size = 0
      BY <3>1, Anywhere
    <3>2. CASE want.size # 0
      <4>1. /\ route \in Routes /\ e \in Edges /\ ahead \in Nat \ {0}
            /\ want.size = Lookback + ahead
        BY <3>2 DEF OnMap
      <4>2. start \in Edges
        <5>1. start \in Edges \/ start = NoEdge
          <6>1. RoutePredecessors(e) \in Seq(Edges)
            BY <4>1, PredecessorsType
          <6> QED BY <4>1, <6>1 DEF StartOf, HeadOr
        <5>2. NoEdge \notin Edges
          BY MapAssumption
        <5>3. RouteSuccessors(NoEdge) = <<>>
          BY <5>2 DEF RouteSuccessors
        <5> HIDE DEF start
        <5> QED BY <1>3, <5>1, <5>3
      <4> HIDE DEF start
      <4>3. RouteSuccessors(start) \in Seq(Edges)
        BY <4>1, <4>2, SuccessorsType
      <4> QED BY <1>3, <4>1, <4>2, <4>3 DEF Leads, OnMap
    <3> QED BY <3>1, <3>2
  <2> HIDE DEF start, forLane
  <2> QED BY <2>1, JunctionFine
<1> QED BY <1>1, <1>2, <1>3 DEF PathsFrom

(* Dropping a path empties its slot and moves the index, nothing else.     *)
LEMMA DropLoopFine ==
  ASSUME NEW b, NEW i \in Slots, NEW want, EgoFine(b, want)
  PROVE  EgoFine(DropLoop(b, i), want)
<1> DEFINE more == {j \in Valid(b.paths) : j > i}
           less == {j \in Valid(b.paths) : j < i}
           next == IF b.idx # i THEN b.idx ELSE IF more # {} THEN Min(more)
                   ELSE IF less # {} THEN Max(less) ELSE 0
           q == [b.paths EXCEPT ![i] = None]
<1>1. SlotsFine(q, want)
  BY NoneFine DEF EgoFine, SlotsFine
<1>2. DropLoop(b, i) = b \/ DropLoop(b, i) = [b EXCEPT !.paths = q, !.idx = next]
  BY DEF DropLoop, EgoFine
<1>3. [b EXCEPT !.paths = q, !.idx = next]
        = [paths |-> q, extra |-> b.extra, idx |-> next, close |-> b.close,
           line |-> b.line, terminal |-> b.terminal, size |-> b.size]
  <2> HIDE DEF q, next
  <2> DEFINE c == [b EXCEPT !.paths = q]
  <2>1. [b EXCEPT !.paths = q, !.idx = next] = [c EXCEPT !.idx = next]
    BY DEF EgoFine
  <2>2. c = [paths |-> q, extra |-> b.extra, idx |-> b.idx, close |-> b.close,
             line |-> b.line, terminal |-> b.terminal, size |-> b.size]
    BY DEF EgoFine
  <2>3. [c EXCEPT !.idx = next] =
            [paths |-> q, extra |-> b.extra, idx |-> next, close |-> b.close,
             line |-> b.line, terminal |-> b.terminal, size |-> b.size]
    <3> HIDE DEF c
    <3> QED BY <2>2
  <2> QED BY <2>1, <2>3
<1>4. EgoFine([b EXCEPT !.paths = q, !.idx = next], want)
  <2> HIDE DEF q, next
  <2> QED BY <1>1, <1>3 DEF EgoFine
<1> QED BY <1>2, <1>4

(* Dropping them one by one.                                               *)
LEMMA WithoutLoopsFine ==
  ASSUME NEW b, NEW want, EgoFine(b, want)
  PROVE  EgoFine(WithoutLoops(b), want)
<1>1. 0 \in Slots /\ 1 \in Slots /\ 2 \in Slots
  BY DEF Slots
<1>2. EgoFine(DropLoop(b, 0), want)
  BY <1>1, DropLoopFine
<1>3. EgoFine(DropLoop(DropLoop(b, 0), 1), want)
  BY <1>1, <1>2, DropLoopFine
<1>4. EgoFine(DropLoop(DropLoop(DropLoop(b, 0), 1), 2), want)
  BY <1>1, <1>3, DropLoopFine
<1> QED BY <1>4 DEF WithoutLoops

(* Extra paths whose rank is rewritten.                                    *)
LEMMA RelabelFine ==
  ASSUME NEW extra, NEW f, NEW want, ExtrasFine(extra, want),
         f = [k \in DOMAIN extra |-> f[k]], \A k \in DOMAIN extra : Made(f[k], want)
  PROVE  ExtrasFine(f, want)
<1>1. DOMAIN extra = 1..Len(extra) /\ Len(extra) \in Nat
  BY DEF ExtrasFine
<1>2. \A k \in 1..Len(extra) : f[k] \in ToSet(f)
  BY <1>1 DEF ToSet
<1>3. f \in Seq(ToSet(f))
  BY <1>1, <1>2
<1> QED BY <1>1, <1>3 DEF ExtrasFine

(* Ranks and goals are given to all paths.                                 *)
LEMMA FinishFine ==
  ASSUME NEW b, NEW want, EgoFine(b, want)
  PROVE  EgoFine(Finish(b), want)
<1> DEFINE p == b.paths
           atGoal == b.terminal \/ \E i \in Valid(p) : p[i].goal > 0
           last == IF Valid(p) = {} THEN 1 ELSE RankOf(p, Max(Valid(p)))
           slot(i) == IF p[i] = None THEN None ELSE
                      [p[i] EXCEPT !.rank = RankOf(p, i), !.goal = IF atGoal /\ @ = 0 THEN Far ELSE @]
           extra == [k \in DOMAIN b.extra |->
                       IF b.extra[k].rank = 4 THEN [b.extra[k] EXCEPT !.rank = last + 1] ELSE b.extra[k]]
           q == Triple(slot(0), slot(1), slot(2))
<1>1. \A i \in Slots : Fine(slot(i), want)
  <2> SUFFICES ASSUME NEW i \in Slots PROVE Fine(slot(i), want)
    OBVIOUS
  <2> DEFINE goal == IF atGoal /\ p[i].goal = 0 THEN Far ELSE p[i].goal
  <2>1. Fine(p[i], want)
    BY DEF EgoFine, SlotsFine
  <2>2. p[i] # None => Made([p[i] EXCEPT !.rank = RankOf(p, i), !.goal = goal], want)
    <3> HIDE DEF goal
    <3> QED BY <2>1, RankedMade DEF Fine
  <2> QED BY <2>2 DEF Fine
<1>2. SlotsFine(q, want)
  <2>1. Fine(slot(0), want) /\ Fine(slot(1), want) /\ Fine(slot(2), want)
    BY <1>1 DEF Slots
  <2> HIDE DEF slot
  <2> QED BY <2>1, ThreeFine
<1>3. ExtrasFine(extra, want)
  <2>1. \A k \in DOMAIN b.extra : Made(extra[k], want)
    <3> HIDE DEF last
    <3>1. \A k \in DOMAIN b.extra : Made(b.extra[k], want)
      BY DEF EgoFine, ExtrasFine
    <3> QED BY <3>1, RankMade
  <2>2. extra = [k \in DOMAIN b.extra |-> extra[k]]
    OBVIOUS
  <2>3. ExtrasFine(b.extra, want)
    BY DEF EgoFine
  <2> HIDE DEF extra
  <2> QED BY <2>1, <2>2, <2>3, RelabelFine
<1>4. Finish(b) = [b EXCEPT !.terminal = atGoal, !.paths = q, !.extra = extra]
  BY DEF Finish, SlotWise
<1>5. [b EXCEPT !.terminal = atGoal, !.paths = q, !.extra = extra]
        = [paths |-> q, extra |-> extra, idx |-> b.idx, close |-> b.close,
           line |-> b.line, terminal |-> atGoal, size |-> b.size]
  <2> HIDE DEF atGoal, q, extra
  <2> DEFINE c == [b EXCEPT !.terminal = atGoal]
             d == [c EXCEPT !.paths = q]
  <2>1. [b EXCEPT !.terminal = atGoal, !.paths = q, !.extra = extra] = [d EXCEPT !.extra = extra]
    BY DEF EgoFine
  <2>2. c = [paths |-> b.paths, extra |-> b.extra, idx |-> b.idx, close |-> b.close,
             line |-> b.line, terminal |-> atGoal, size |-> b.size]
    BY DEF EgoFine
  <2>3. d = [paths |-> q, extra |-> b.extra, idx |-> b.idx, close |-> b.close,
             line |-> b.line, terminal |-> atGoal, size |-> b.size]
    <3> HIDE DEF c
    <3>1. [c EXCEPT !.paths = q] = [paths |-> q, extra |-> b.extra, idx |-> b.idx, close |-> b.close,
             line |-> b.line, terminal |-> atGoal, size |-> b.size]
      BY <2>2
    <3> QED BY <3>1 DEF c
  <2>4. [d EXCEPT !.extra = extra] =
            [paths |-> q, extra |-> extra, idx |-> b.idx, close |-> b.close,
             line |-> b.line, terminal |-> atGoal, size |-> b.size]
    <3> HIDE DEF d
    <3> QED BY <2>3
  <2> QED BY <2>1, <2>4
<1>6. EgoFine([paths |-> q, extra |-> extra, idx |-> b.idx, close |-> b.close,
               line |-> b.line, terminal |-> atGoal, size |-> b.size], want)
  <2> HIDE DEF atGoal, q, extra
  <2> QED BY <1>2, <1>3 DEF EgoFine
<1> QED
  <2> HIDE DEF atGoal, q, extra
  <2> QED BY <1>4, <1>5, <1>6

(* GetEgoRefPaths gives paths that show the lights of this frame.          *)
LEMMA RefPathsFine ==
  ASSUME NEW e, NEW last, NEW candidates, NEW soon, NEW close, NEW terminal, NEW want,
         OnMap(want, e, LookAhead(e))
  PROVE  EgoFine(GetEgoRefPaths(e, last, candidates, soon, close, terminal), want)
<1> DEFINE b == PathsFrom(StartOf(e), e, last, candidates, soon, LookAhead(e))
           all == Renewed(b, LookAhead(e), IF e \in Lanes THEN soon ELSE close, terminal)
<1>1. BuiltFine(b, want)
  BY PathsFromFine
<1>2. EgoFine(all, want)
  <2>1. want.size # 0 => want.size = Lookback + LookAhead(e)
    BY DEF OnMap
  <2> HIDE DEF b
  <2> QED BY <1>1, <2>1 DEF Renewed, BuiltFine, EgoFine
<1>3. EgoFine(Completed(all, e \in Lanes /\ soon /\ RouteSuccessors(e) = <<>>), want)
  <2> HIDE DEF all
  <2> QED BY <1>2, WithoutLoopsFine, FinishFine DEF Completed
<1> QED BY <1>3 DEF GetEgoRefPaths

(* Their shape and their lights do not depend on the map.                  *)
LEMMA RefPathsShown ==
  ASSUME NEW e, NEW last, NEW candidates, NEW soon, NEW close, NEW terminal
  PROVE  EgoFine(GetEgoRefPaths(e, last, candidates, soon, close, terminal), Shown)
<1>1. OnMap(Shown, e, LookAhead(e))
  BY DEF OnMap, Shown
<1> QED BY <1>1, RefPathsFine

(* A path put beside an outer one.                                         *)
LEMMA ShiftedFine ==
  ASSUME NEW b, NEW p, NEW want, EgoFine(b, want), Made(p, want)
  PROVE  SlotsFine(Shifted(b, p), want)
<1>1. Fine(p, want) /\ Fine(b.paths[0], want) /\ Fine(b.paths[1], want) /\ Fine(b.paths[2], want)
  BY DEF EgoFine, SlotsFine, Fine, Slots
<1> QED BY <1>1, ThreeFine DEF Shifted

(* An extra path becomes one of the three.                                 *)
LEMMA WithExtraFine ==
  ASSUME NEW b, NEW n \in DOMAIN b.extra, NEW want, EgoFine(b, want)
  PROVE  EgoFine(WithExtra(b, n), want)
<1> DEFINE q == Shifted(b, b.extra[n])
           less == RemoveAt(b.extra, n)
           c == [b EXCEPT !.paths = q]
           d == [c EXCEPT !.idx = 1]
<1>1. SlotsFine(q, want) /\ ExtrasFine(less, want)
  BY ShiftedFine, RemoveFine DEF EgoFine, ExtrasFine
<1>2. WithExtra(b, n) = [d EXCEPT !.extra = less]
  <2> HIDE DEF q, less
  <2>1. [b EXCEPT !.paths = q, !.idx = 1, !.extra = less] = [d EXCEPT !.extra = less]
    BY DEF EgoFine
  <2> QED BY <2>1 DEF WithExtra, q, less
<1>3. c = [paths |-> q, extra |-> b.extra, idx |-> b.idx, close |-> b.close,
           line |-> b.line, terminal |-> b.terminal, size |-> b.size]
  <2> HIDE DEF q
  <2> QED BY DEF EgoFine
<1>4. d = [paths |-> q, extra |-> b.extra, idx |-> 1, close |-> b.close,
           line |-> b.line, terminal |-> b.terminal, size |-> b.size]
  <2> HIDE DEF c, q
  <2>1. [c EXCEPT !.idx = 1] = [paths |-> q, extra |-> b.extra, idx |-> 1, close |-> b.close,
           line |-> b.line, terminal |-> b.terminal, size |-> b.size]
    BY <1>3
  <2> QED BY <2>1
<1>5. [d EXCEPT !.extra = less] =
          [paths |-> q, extra |-> less, idx |-> 1, close |-> b.close,
           line |-> b.line, terminal |-> b.terminal, size |-> b.size]
  <2> HIDE DEF d, q, less
  <2> QED BY <1>4
<1>6. EgoFine([paths |-> q, extra |-> less, idx |-> 1, close |-> b.close,
               line |-> b.line, terminal |-> b.terminal, size |-> b.size], want)
  <2> HIDE DEF q, less
  <2> QED BY <1>1 DEF EgoFine
<1> QED
  <2> HIDE DEF d, q, less
  <2> QED BY <1>2, <1>5, <1>6

(* A path made anew becomes one of the three.                              *)
LEMMA WithMadeFine ==
  ASSUME NEW b, NEW made, NEW want, EgoFine(b, want), Made(made, want)
  PROVE  EgoFine(WithMade(b, made), want)
<1> DEFINE q == Shifted(b, made)
           line == b.line \union ToSet(made.ids)
           c == [b EXCEPT !.paths = q]
           d == [c EXCEPT !.line = line]
           f == Finish(d)
           g == [f EXCEPT !.idx = 1]
<1>1. SlotsFine(q, want)
  BY ShiftedFine
<1>2. c = [paths |-> q, extra |-> b.extra, idx |-> b.idx, close |-> b.close,
           line |-> b.line, terminal |-> b.terminal, size |-> b.size]
  <2> HIDE DEF q
  <2> QED BY DEF EgoFine
<1>3. d = [paths |-> q, extra |-> b.extra, idx |-> b.idx, close |-> b.close,
           line |-> line, terminal |-> b.terminal, size |-> b.size]
  <2> HIDE DEF c, q, line
  <2>1. [c EXCEPT !.line = line] =
          [paths |-> q, extra |-> b.extra, idx |-> b.idx, close |-> b.close,
           line |-> line, terminal |-> b.terminal, size |-> b.size]
    BY <1>2
  <2> QED BY <2>1
<1>4. EgoFine(d, want)
  <2> HIDE DEF d, q, line
  <2> QED BY <1>1, <1>3 DEF EgoFine
<1>5. EgoFine(f, want)
  <2> HIDE DEF d
  <2> QED BY <1>4, FinishFine
<1>6. WithMade(b, made) = [g EXCEPT !.extra = b.extra]
  <2>1. [b EXCEPT !.paths = q, !.line = line] = d
    <3> HIDE DEF q, line
    <3> QED BY DEF EgoFine
  <2>2. WithMade(b, made) = [f EXCEPT !.idx = 1, !.extra = b.extra]
    <3>1. WithMade(b, made)
            = [Finish([b EXCEPT !.paths = q, !.line = line]) EXCEPT !.idx = 1, !.extra = b.extra]
      BY DEF WithMade
    <3> HIDE DEF d
    <3> QED BY <2>1, <3>1
  <2>3. [f EXCEPT !.idx = 1, !.extra = b.extra] = [g EXCEPT !.extra = b.extra]
    <3> HIDE DEF f
    <3> QED BY <1>5 DEF EgoFine
  <2> HIDE DEF f, g
  <2> QED BY <2>2, <2>3
<1>7. g = [paths |-> f.paths, extra |-> f.extra, idx |-> 1, close |-> f.close,
           line |-> f.line, terminal |-> f.terminal, size |-> f.size]
  <2> HIDE DEF f
  <2> QED BY <1>5 DEF EgoFine
<1>8. [g EXCEPT !.extra = b.extra] =
          [paths |-> f.paths, extra |-> b.extra, idx |-> 1, close |-> f.close,
           line |-> f.line, terminal |-> f.terminal, size |-> f.size]
  <2> HIDE DEF f, g
  <2> QED BY <1>7
<1> QED
  <2> HIDE DEF f, g
  <2> QED BY <1>5, <1>6, <1>8 DEF EgoFine

(* The points behind the ego leave room for points ahead.                  *)
Roomy(want) == want.size # 0 => route \in Routes /\ want.size - Lookback \in Nat \ {0} /\ want.size \in Nat

(* The neighbour beyond an outer path, from wherever it comes.             *)
LEMMA BeyondFine ==
  ASSUME NEW b, NEW here, NEW side, NEW want, EgoFine(b, want), Roomy(want)
  PROVE  EgoFine(Beyond(b, here, side), want)
<1> DEFINE beyond == side[here[1]]
           ready  == {k \in DOMAIN b.extra : b.extra[k].lane = beyond}
<1>1. ready # {} => Min(ready) \in DOMAIN b.extra
  <2>1. 1 \in Int /\ ready \in SUBSET Int /\ \A k \in ready : 1 <= k
    BY DEF EgoFine, ExtrasFine
  <2> HIDE DEF ready
  <2>2. ready # {} => Min(ready) \in ready
    BY <2>1, MinFact
  <2> QED BY <2>2 DEF ready
<1>2. ready # {} => EgoFine(WithExtra(b, Min(ready)), want)
  <2> HIDE DEF ready
  <2> QED BY <1>1, WithExtraFine
<1>3. ASSUME NEW wanted, RouteSuccessors(beyond) # <<>>
      PROVE  EgoFine(MakeBeyond(b, beyond, RouteSuccessors(beyond), wanted), want)
  <2> DEFINE succs == RouteSuccessors(beyond)
             at == {i \in DOMAIN succs : wanted # NoEdge /\ NextOnRoute(succs[i]) = wanted}
             into == FirstAt(succs, at)
             room == b.size - Lookback
  <2>1. Extends(want, beyond, into, room, FALSE)
    <3>1. CASE want.size = 0
      BY <3>1, Anywhere
    <3>2. CASE want.size # 0
      <4>1. route \in Routes /\ room \in Nat \ {0} /\ want.size = Lookback + room
        <5>1. b.size = want.size /\ want.size \in Nat /\ want.size - Lookback \in Nat \ {0} /\ route \in Routes
          BY <3>2 DEF EgoFine, Roomy
        <5>2. Lookback \in Nat
          BY PathAssumption
        <5> QED BY <5>1, <5>2
      <4>2. beyond \in Edges
        BY <1>3 DEF RouteSuccessors
      <4>3. succs \in Seq(Edges) /\ at \in SUBSET DOMAIN succs
        BY <4>1, <4>2, SuccessorsType
      <4>4. into \in Edges
        <5> HIDE DEF succs, at
        <5>1. succs # <<>>
          BY <1>3 DEF succs
        <5> QED BY <4>3, <5>1, FirstAtType
      <4>5. NoEdge \notin Edges
        BY MapAssumption
      <4> HIDE DEF into, room
      <4> QED BY <4>1, <4>2, <4>4, <4>5 DEF Extends, OnMap, MaybeEdges
    <3> QED BY <3>1, <3>2
  <2>2. MakeBeyond(b, beyond, succs, wanted) = WithMade(b, ExtendPath(beyond, into, Lookback, room, FALSE))
    BY DEF MakeBeyond
  <2> HIDE DEF into, room, succs
  <2>3. Made(ExtendPath(beyond, into, Lookback, room, FALSE), want)
    BY <2>1, ExtendMade
  <2>4. EgoFine(WithMade(b, ExtendPath(beyond, into, Lookback, room, FALSE)), want)
    BY <2>3, WithMadeFine
  <2> QED BY <2>2, <2>4 DEF succs
<1> QED BY <1>2, <1>3 DEF Beyond

(* UpdateEgoRefPaths.                                                      *)
LEMMA UpdatePathsFine ==
  ASSUME NEW b, NEW want, EgoFine(b, want), Roomy(want)
  PROVE  EgoFine(UpdateEgoRefPaths(b), want)
BY BeyondFine DEF UpdateEgoRefPaths

(* Writing the first red light of a path makes it show it, and leaves its  *)
(* tables alone.                                                           *)
Lighted(want) == [lit |-> TRUE, size |-> want.size]

(* The path itself.                                                        *)
LEMMA LitMade ==
  ASSUME NEW p, NEW want, Made(p, want)
  PROVE  Made([p EXCEPT !.red = RedOf(p)], Lighted(want))
<1> DEFINE q == [p EXCEPT !.red = RedOf(p)]
<1>1. /\ IsPath(q) /\ q.ids = p.ids /\ q.starts = p.starts /\ q.red = RedOf(p) /\ q.size = p.size
      /\ q.segments = p.segments /\ q.anchors = p.anchors /\ q.blank = p.blank
  BY DEF Made, IsPath
<1>2. Made(q, Lighted(want))
  <2> HIDE DEF q
  <2>1. RedOf(q) = RedOf(p)
    BY <1>1 DEF RedOf
  <2>2. \A n : Whole(p, n) => Whole(q, n)
    BY <1>1 DEF Whole
  <2> QED BY <1>1, <2>1, <2>2 DEF Made, Lighted
<1> QED BY <1>2

(* A path as UpdateTrafficInfo leaves it.                                  *)
Lit(p) == IF p = None THEN None ELSE [p EXCEPT !.red = RedOf(p)]

(* UpdateTrafficInfo, slot by slot.                                        *)
LEMMA TrafficInfo ==
  ASSUME NEW paths
  PROVE  UpdateTrafficInfo(paths) = Triple(Lit(paths[0]), Lit(paths[1]), Lit(paths[2]))
BY DEF UpdateTrafficInfo, SlotWise, Lit, RedOf

(* Whatever lights paths showed before, afterwards they show the current.  *)
LEMMA TrafficFine ==
  ASSUME NEW paths, NEW want, SlotsFine(paths, want)
  PROVE  SlotsFine(UpdateTrafficInfo(paths), Lighted(want))
<1>1. \A i \in Slots : Fine(Lit(paths[i]), Lighted(want))
  <2> SUFFICES ASSUME NEW i \in Slots, paths[i] # None PROVE Made(Lit(paths[i]), Lighted(want))
    BY DEF Fine, Lit
  <2> DEFINE p == paths[i]
  <2>1. Made(p, want)
    BY DEF SlotsFine, Fine
  <2> HIDE DEF p
  <2>2. Made([p EXCEPT !.red = RedOf(p)], Lighted(want))
    BY <2>1, LitMade
  <2> QED BY <2>2 DEF Lit, p
<1>2. /\ Fine(Lit(paths[0]), Lighted(want)) /\ Fine(Lit(paths[1]), Lighted(want))
      /\ Fine(Lit(paths[2]), Lighted(want))
  <2>1. 0 \in Slots /\ 1 \in Slots /\ 2 \in Slots
    BY DEF Slots
  <2> QED BY <1>1, <2>1, Zenon
<1> QED BY <1>2, TrafficInfo, ThreeFine

(* And there is nothing left to update.                                    *)
LEMMA TrafficSettled ==
  ASSUME NEW paths, NEW want, want.lit = TRUE, SlotsFine(paths, want)
  PROVE  UpdateTrafficInfo(paths) = paths
<1>1. \A i \in Slots : Lit(paths[i]) = paths[i]
  <2> SUFFICES ASSUME NEW i \in Slots, paths[i] # None PROVE Lit(paths[i]) = paths[i]
    BY DEF Lit
  <2>1. IsPath(paths[i]) /\ paths[i].red = RedOf(paths[i])
    BY DEF SlotsFine, Fine, Made
  <2>2. [paths[i] EXCEPT !.red = RedOf(paths[i])] = paths[i]
    BY <2>1 DEF IsPath
  <2> QED BY <2>2 DEF Lit
<1>2. Triple(Lit(paths[0]), Lit(paths[1]), Lit(paths[2])) = Triple(paths[0], paths[1], paths[2])
  BY <1>1 DEF Slots
<1>3. Triple(paths[0], paths[1], paths[2]) = paths
  BY DEF SlotsFine, Triple, Slots
<1> QED BY <1>2, <1>3, TrafficInfo

(* Whatever else is asked of the ego, its shape is.                        *)
LEMMA FineLess ==
  ASSUME NEW b, NEW want, EgoFine(b, want)
  PROVE  EgoFine(b, Shaped) /\ EgoFine(b, Sized(want.size))
BY DEF EgoFine, SlotsFine, ExtrasFine, Fine, Made, Shaped, Sized

(* The same of the ego.                                                    *)
LEMMA RelitFine ==
  ASSUME NEW b, NEW want, EgoFine(b, want)
  PROVE  /\ EgoFine(Relit(b), Shaped) /\ EgoFine(Relit(b), Sized(want.size))
         /\ UpdateTrafficInfo(Relit(b).paths) = Relit(b).paths
<1> DEFINE q == UpdateTrafficInfo(b.paths)
           c == [b EXCEPT !.paths = q]
<1>1. SlotsFine(q, Lighted(want))
  BY TrafficFine DEF EgoFine
<1>2. UpdateTrafficInfo(q) = q
  <2>1. Lighted(want).lit = TRUE
    BY DEF Lighted
  <2> QED BY <1>1, <2>1, TrafficSettled
<1>3. c = [paths |-> q, extra |-> b.extra, idx |-> b.idx, close |-> b.close,
           line |-> b.line, terminal |-> b.terminal, size |-> b.size]
  <2> HIDE DEF q
  <2> QED BY DEF EgoFine
<1>4. SlotsFine(q, Sized(want.size)) /\ ExtrasFine(b.extra, Sized(want.size))
  <2> HIDE DEF q
  <2> QED BY <1>1 DEF SlotsFine, Fine, Made, EgoFine, ExtrasFine, Lighted, Sized
<1>5. EgoFine(c, Sized(want.size)) /\ c.paths = q
  <2>1. want.size # 0 => b.size = want.size
    BY DEF EgoFine
  <2> HIDE DEF c, q
  <2> QED BY <1>3, <1>4, <2>1 DEF EgoFine, Sized
<1>6. Relit(b) = c
  BY DEF Relit
<1> QED
  <2> HIDE DEF c, q
  <2> QED BY <1>2, <1>5, <1>6, FineLess

---------------------------------------------------------------------------
(* The shape does not depend on the lights.                                *)
LEMMA FineShape ==
  ASSUME NEW b
  PROVE  EgoFine(b, Shaped) <=>
           /\ b = [paths |-> b.paths, extra |-> b.extra, idx |-> b.idx, close |-> b.close,
                   line |-> b.line, terminal |-> b.terminal, size |-> b.size]
           /\ b.paths = [i \in Slots |-> b.paths[i]]
           /\ \A i \in Slots : b.paths[i] = None \/ IsPath(b.paths[i])
           /\ b.extra \in Seq(ToSet(b.extra))
           /\ \A k \in DOMAIN b.extra : IsPath(b.extra[k])
BY DEF EgoFine, SlotsFine, ExtrasFine, Fine, Made, Shaped

(* The ego's paths have their shape, and the current lights when it plans. *)
EgoShape ==
  /\ ego = [paths |-> ego.paths, extra |-> ego.extra, idx |-> ego.idx, close |-> ego.close,
            line |-> ego.line, terminal |-> ego.terminal, size |-> ego.size]
  /\ ego.paths = [i \in Slots |-> ego.paths[i]]
  /\ \A i \in Slots : ego.paths[i] = None \/ IsPath(ego.paths[i])
  /\ ego.extra \in Seq(ToSet(ego.extra))
  /\ \A k \in DOMAIN ego.extra : IsPath(ego.extra[k])

(* The paths have their shape and show the current lights.                 *)
LightsInv == EgoShape /\ LightsCurrent

(* EgoShape is the shape of the ego.                                       *)
LEMMA EgoIsFine == EgoShape <=> EgoFine(ego, Shaped)
BY FineShape DEF EgoShape

(* Fields beside the paths are written without harm to them.               *)
LEMMA WithFields ==
  ASSUME NEW b, NEW c, NEW x, NEW t, NEW want, EgoFine(b, want)
  PROVE  /\ EgoFine([b EXCEPT !.close = c, !.idx = x], want)
         /\ EgoFine([b EXCEPT !.close = c, !.terminal = t], want)
<1> DEFINE d == [b EXCEPT !.close = c]
<1>1. d = [paths |-> b.paths, extra |-> b.extra, idx |-> b.idx, close |-> c,
           line |-> b.line, terminal |-> b.terminal, size |-> b.size]
  BY DEF EgoFine
<1>2. /\ [b EXCEPT !.close = c, !.idx = x] = [d EXCEPT !.idx = x]
      /\ [b EXCEPT !.close = c, !.terminal = t] = [d EXCEPT !.terminal = t]
  BY DEF EgoFine
<1>3. /\ [d EXCEPT !.idx = x] =
           [paths |-> b.paths, extra |-> b.extra, idx |-> x, close |-> c,
            line |-> b.line, terminal |-> b.terminal, size |-> b.size]
      /\ [d EXCEPT !.terminal = t] =
           [paths |-> b.paths, extra |-> b.extra, idx |-> b.idx, close |-> c,
            line |-> b.line, terminal |-> t, size |-> b.size]
  <2> HIDE DEF d
  <2> QED BY <1>1
<1>4. EgoFine([d EXCEPT !.idx = x], want) /\ EgoFine([d EXCEPT !.terminal = t], want)
  <2> HIDE DEF d
  <2> QED BY <1>3 DEF EgoFine
<1> QED BY <1>2, <1>4

(* A new planner.                                                          *)
LEMMA NewEgoFine == EgoFine(NewEgo, Shaped)
BY NoPathsFine DEF NewEgo, EgoFine, Shaped

(* A new planner has no paths.                                             *)
LEMMA LightsInit == Init => LightsInv
<1> SUFFICES ASSUME Init PROVE LightsInv
  OBVIOUS
<1>1. EgoFine(ego, Shaped)
  BY NewEgoFine DEF Init
<1> QED BY <1>1, EgoIsFine DEF Init, LightsInv, LightsCurrent

(* An action that makes the paths anew, and one that updates their lights, *)
(* establish the invariant.                                                *)
LEMMA AnewKeeps ==
  ASSUME NEW b, EgoFine(b, Shown), ego' = b, UNCHANGED lights
  PROVE  LightsInv'
<1>1. UpdateTrafficInfo(b.paths) = b.paths
  <2>1. SlotsFine(b.paths, Shown) /\ Shown.lit = TRUE
    BY DEF EgoFine, Shown
  <2> QED BY <2>1, TrafficSettled
<1>2. LightsCurrent'
  <2>1. UpdateTrafficInfo(ego.paths)' = UpdateTrafficInfo(b.paths)
    BY DEF UpdateTrafficInfo, SlotWise, HasRedTrafficLight
  <2> QED BY <1>1, <2>1 DEF LightsCurrent
<1>3. EgoShape'
  <2>1. EgoFine(b, Shaped)
    BY FineLess
  <2> QED BY <2>1, FineShape DEF EgoShape
<1> QED BY <1>2, <1>3 DEF LightsInv

(* The same where the lights of paths that stay are updated.               *)
LEMMA RelitKeeps ==
  ASSUME NEW b, NEW want, EgoFine(b, want), ego' = Relit(b), UNCHANGED lights
  PROVE  LightsInv'
<1> DEFINE c == Relit(b)
<1>1. EgoFine(c, Shaped) /\ UpdateTrafficInfo(c.paths) = c.paths
  BY RelitFine
<1>2. ego' = c
  OBVIOUS
<1> HIDE DEF c
<1>3. UpdateTrafficInfo(ego.paths)' = UpdateTrafficInfo(c.paths)
  BY <1>2 DEF UpdateTrafficInfo, SlotWise, HasRedTrafficLight
<1>4. EgoShape'
  BY <1>1, <1>2, FineShape DEF EgoShape
<1> QED BY <1>1, <1>2, <1>3, <1>4 DEF LightsInv, LightsCurrent

(* No action leaves an old light on a path.                                *)
LEMMA LightsStep == LightsInv /\ [Next]_vars => LightsInv'
<1> SUFFICES ASSUME LightsInv, [Next]_vars PROVE LightsInv'
  OBVIOUS
<1>0. EgoFine(ego, Shaped)
  BY EgoIsFine DEF LightsInv
<1>1. CASE NextScenario
  <2> DEFINE b == [NewEgo EXCEPT !.close = ego.close, !.terminal = ego.terminal]
  <2>1. EgoFine(b, Shaped)
    BY NewEgoFine, WithFields
  <2>2. ego' = b /\ pc' = "observe"
    BY <1>1 DEF NextScenario
  <2> HIDE DEF b
  <2>3. EgoShape'
    BY <2>1, <2>2, FineShape DEF EgoShape
  <2> QED BY <2>2, <2>3 DEF LightsInv, LightsCurrent
<1>2. CASE Observe
  BY <1>2 DEF Observe, LightsInv, EgoShape, LightsCurrent, IsPath
<1>3. CASE LocaliseFirst
  <2>1. PICK start, here : ego' = GetEgoRefPaths(start, NoEdge, here, near, ego.close, ego.terminal)
    BY <1>3 DEF LocaliseFirst
  <2>2. UNCHANGED lights
    BY <1>3 DEF LocaliseFirst, scene
  <2> QED BY <2>1, <2>2, RefPathsShown, AnewKeeps
<1>4. CASE LocaliseNext
  <2>1. PICK found : /\ \/ EnterLane(found.edge)
                        \/ EnterConnector(found.edge, found.candidates)
                        \/ ApproachJunction(found.edge)
                        \/ StayOnEdge(found.edge)
                     /\ LocaliseOn(found.edge)
    BY <1>4 DEF LocaliseNext
  <2>2. UNCHANGED lights
    BY <2>1 DEF LocaliseOn, scene
  <2>3. CASE EnterLane(found.edge)
    <3>1. ego' = GetEgoRefPaths(found.edge, edge, {}, near, FALSE, ego.terminal)
      BY <2>3 DEF EnterLane
    <3> QED BY <2>2, <3>1, RefPathsShown, AnewKeeps
  <2>4. CASE EnterConnector(found.edge, found.candidates)
    <3>1. PICK idx : ego' = Relit(UpdateEgoRefPaths([ego EXCEPT !.close = FALSE, !.idx = idx]))
      BY <2>4 DEF EnterConnector
    <3> DEFINE d == [ego EXCEPT !.close = FALSE, !.idx = idx]
    <3>5. EgoFine(d, Shaped)
      BY <1>0, WithFields
    <3>2. ego' = Relit(UpdateEgoRefPaths(d))
      BY <3>1
    <3> HIDE DEF d
    <3>7. Roomy(Shaped)
      BY DEF Roomy, Shaped
    <3>6. EgoFine(UpdateEgoRefPaths(d), Shaped)
      BY <3>5, <3>7, UpdatePathsFine
    <3> QED BY <2>2, <3>2, <3>6, RelitKeeps
  <2>5. CASE ApproachJunction(found.edge)
    <3>1. ego' = Relit(GetEgoRefPaths(found.edge, edge, {}, near, TRUE, ego.terminal))
      BY <2>5 DEF ApproachJunction
    <3> QED BY <2>2, <3>1, RefPathsShown, RelitKeeps
  <2>6. CASE StayOnEdge(found.edge)
    <3>1. ego' = Relit(ego)
      BY <2>6 DEF StayOnEdge
    <3> QED BY <1>0, <2>2, <3>1, RelitKeeps
  <2> QED BY <2>1, <2>3, <2>4, <2>5, <2>6
<1>5. CASE Plan
  BY <1>5 DEF Plan, LightsInv, EgoShape, LightsCurrent, IsPath
<1>6. CASE UNCHANGED vars
  <2>1. UNCHANGED <<ego, lights, pc>>
    BY <1>6 DEF vars, scene
  <2>2. LightsCurrent'
    BY <2>1 DEF LightsInv, LightsCurrent, UpdateTrafficInfo, SlotWise, HasRedTrafficLight
  <2> QED BY <2>1, <2>2 DEF LightsInv, EgoShape, IsPath
<1> QED
  BY <1>1, <1>2, <1>3, <1>4, <1>5, <1>6 DEF Next

(* Whatever the map, the route and the sequence of frames, no plan is made *)
(* with a red light of an earlier frame, or without one of this frame.     *)
THEOREM LightsCurrentHolds == Spec => []LightsCurrent
<1>1. LightsInv => LightsCurrent
  BY DEF LightsInv
<1> QED
  BY <1>1, LightsInit, LightsStep, PTL DEF Spec

(* Successors are a finite table, for every edge and route.                *)
LEMMA SuccessorsCount ==
  ASSUME route \in Routes, NEW e
  PROVE  \E m \in Nat : DOMAIN RouteSuccessors(e) = 1..m
<1>1. CASE e \notin Edges
  <2>1. RouteSuccessors(e) = <<>>
    BY <1>1 DEF RouteSuccessors
  <2>2. DOMAIN <<>> = 1..0
    OBVIOUS
  <2> QED BY <2>1, <2>2
<1>2. CASE e \in Edges
  <2> DEFINE kept == {i \in DOMAIN Succ[e] : LeadsOn(route, Succ[e][i])}
             at == IF kept = {} THEN DOMAIN Succ[e] ELSE kept
  <2>1. RouteSuccessors(e) = SortedAt(Succ[e], at, Miss)
    BY <1>2 DEF RouteSuccessors, SuccessorTable, GetRouteSuccessorIdsById
  <2>2. Len(Succ[e]) \in Nat /\ at \in SUBSET (1..Len(Succ[e]))
    <3>1. Succ[e] \in Seq(Edges)
      BY <1>2, MapAssumption
    <3> HIDE DEF kept
    <3>2. kept \subseteq DOMAIN Succ[e]
      BY DEF kept
    <3> QED BY <3>1, <3>2
  <2> HIDE DEF at
  <2>3. Cardinality(at) \in Nat
    BY <2>2, IndexSets
  <2> QED BY <2>1, <2>3, SortedAtLen
<1> QED BY <1>1, <1>2

(* The first m slots hold the paths.                                       *)
Packed(paths, m) == \A i \in Slots : paths[i] # None <=> i < m

(* Then m paths are in slots 0 to m - 1.                                   *)
LEMMA PackedCount ==
  ASSUME NEW paths, NEW m \in 1..3, Packed(paths, m)
  PROVE  Valid(paths) = 0..(m - 1) /\ Cardinality(Valid(paths)) = m
<1>1. Valid(paths) = 0..(m - 1)
  BY DEF Packed, Valid, Slots
<1>2. Cardinality(0..(m - 1)) = m
  BY FS_Interval
<1> QED BY <1>1, <1>2

(* The first slots are taken, and the index is one of them.                *)
InOrder(b) == \E m \in 1..3 : Packed(b.paths, m) /\ b.idx \in 0..(m - 1)

(* An index in order names a path.                                         *)
LEMMA InOrderValid == ASSUME NEW b, InOrder(b) PROVE b.idx \in Valid(b.paths)
BY PackedCount DEF InOrder

(* buildSortedPaths chooses an index among the paths it made.              *)
LEMMA SortedInOrder ==
  ASSUME NEW kept, NEW start, NEW here, NEW candidates, NEW ahead, NEW forLane,
         Len(kept) \in Nat, Len(kept) >= 1
  PROVE  InOrder(Sorted(kept, start, here, candidates, ahead, forLane))
<1> DEFINE n == Least(Len(kept), 3)
           own == {i \in 0..(n - 1) : kept[i + 1] = here}
           paths == [i \in Slots |->
                       IF i < n THEN PathInto(start, kept[i + 1], ahead, forLane) ELSE None]
           idx == IF forLane THEN n \div 2
                  ELSE IF Len(kept) = 3 /\ kept[2] \in candidates THEN 1
                  ELSE IF own # {} THEN Min(own) ELSE n \div 2
           b == Sorted(kept, start, here, candidates, ahead, forLane)
<1>1. n \in 1..3 /\ (Len(kept) = 3 => n = 3)
  <2>1. \A a \in Nat : a >= 1 => Least(a, 3) \in 1..3 /\ (a = 3 => Least(a, 3) = 3)
    BY DEF Least
  <2> QED BY <2>1
<1>2. \A s : PathInto(start, s, ahead, forLane) # None
  BY PathsShaped
<1>3. Packed(paths, n)
  <2> HIDE DEF n
  <2> QED BY <1>2 DEF Packed
<1>4. own # {} => Min(own) \in 0..(n - 1)
  <2>1. 0 \in Int /\ own \in SUBSET Int /\ (\A i \in own : 0 <= i) /\ own \subseteq 0..(n - 1)
    BY <1>1
  <2> HIDE DEF own
  <2>2. own # {} => Min(own) \in own
    BY <2>1, MinFact
  <2> QED BY <2>1, <2>2
<1>5. n \div 2 \in 0..(n - 1)
  <2> HIDE DEF n
  <2> QED BY <1>1
<1>6. idx \in 0..(n - 1)
  <2> HIDE DEF n, own
  <2> QED BY <1>1, <1>4, <1>5
<1>7. b.paths = paths /\ b.idx = idx
  BY DEF Sorted
<1> QED
  <2> HIDE DEF n, idx, paths
  <2>1. InOrder(b)
    <3> HIDE DEF b
    <3> QED BY <1>1, <1>3, <1>6, <1>7 DEF InOrder
  <2> QED BY <2>1

(* So does a single path.                                                  *)
LEMMA OneInOrder ==
  ASSUME NEW p, p # None
  PROVE  InOrder([paths |-> [NoPaths EXCEPT ![0] = p], idx |-> 0, extra |-> <<>>])
<1>1. Packed([NoPaths EXCEPT ![0] = p], 1)
  BY DEF Packed, NoPaths, Slots
<1> QED BY <1>1 DEF InOrder

(* A neighbour's path closes up with the others, and the index follows     *)
(* when they are shifted.                                                  *)
LEMMA AddPathInOrder ==
  ASSUME NEW b, NEW p, NEW onLeft, NEW want, BuiltFine(b, want), p # None, InOrder(b)
  PROVE  InOrder(AddPath(b, p, onLeft))
<1>1. PICK m \in 1..3 : Packed(b.paths, m) /\ b.idx \in 0..(m - 1)
  BY DEF InOrder
<1> DEFINE n == Cardinality(Valid(b.paths))
           x == [p EXCEPT !.rank = IF onLeft THEN 0 ELSE 4]
           longer == Append(b.extra, x)
           q == IF b.paths[0] = None THEN [b.paths EXCEPT ![0] = p]
                ELSE Triple(p, b.paths[0], b.paths[1])
           idx == IF b.idx < 2 THEN 1 ELSE b.idx
           r == [b.paths EXCEPT ![n] = p]
<1>2. n = m
  BY <1>1, PackedCount
<1>3. CASE n = 3
  <2>1. AddPath(b, p, onLeft) = [b EXCEPT !.extra = longer]
    BY <1>3 DEF AddPath
  <2> HIDE DEF longer
  <2>2. InOrder([b EXCEPT !.extra = longer])
    <3>1. [b EXCEPT !.extra = longer].paths = b.paths /\ [b EXCEPT !.extra = longer].idx = b.idx
      BY DEF BuiltFine
    <3> QED BY <1>1, <3>1 DEF InOrder
  <2> QED BY <2>1, <2>2
<1>4. CASE n # 3 /\ n < 3 /\ onLeft
  <2>1. AddPath(b, p, onLeft) = [b EXCEPT !.paths = q, !.idx = idx]
    BY <1>4 DEF AddPath
  <2>2. b.paths[0] # None
    BY <1>1 DEF Packed, Slots
  <2>3. Packed(q, m + 1)
    BY <1>1, <1>2, <1>4, <2>2 DEF Packed, Triple, Slots
  <2>4. idx \in 0..m /\ m + 1 \in 1..3
    BY <1>1, <1>2, <1>4
  <2> DEFINE c == [b EXCEPT !.paths = q, !.idx = idx]
  <2>5. c.paths = q /\ c.idx = idx
    <3> HIDE DEF q, idx
    <3> QED BY DEF BuiltFine
  <2>6. InOrder(c)
    <3> HIDE DEF c, q, idx
    <3> QED BY <2>3, <2>4, <2>5 DEF InOrder
  <2> QED BY <2>1, <2>6
<1>5. CASE n # 3 /\ ~(n < 3 /\ onLeft)
  <2>1. AddPath(b, p, onLeft) = [b EXCEPT !.paths[n] = p]
    BY <1>5 DEF AddPath
  <2>2. Packed(r, m + 1)
    <3> HIDE DEF n
    <3> QED BY <1>1, <1>2, <1>5 DEF Packed, BuiltFine, SlotsFine, Slots
  <2>3. b.idx \in 0..m /\ m + 1 \in 1..3
    BY <1>1, <1>2, <1>5
  <2> DEFINE c == [b EXCEPT !.paths = r]
  <2>4. c.paths = r /\ c.idx = b.idx
    <3> HIDE DEF r
    <3> QED BY DEF BuiltFine
  <2>5. InOrder(c)
    <3> HIDE DEF c, r
    <3> QED BY <2>2, <2>3, <2>4 DEF InOrder
  <2> QED BY <2>1, <2>5
<1> QED BY <1>3, <1>4, <1>5

(* addNeighborPaths.                                                       *)
LEMMA NeighborsInOrder ==
  ASSUME NEW b, NEW center, NEW succs, NEW ahead, NEW forLane, BuiltFine(b, Shaped), InOrder(b)
  PROVE  InOrder(AddNeighborPaths(b, center, succs, ahead, forLane))
<1>1. ASSUME NEW c, NEW found, NEW k, BuiltFine(c, Shaped), InOrder(c)
      PROVE  /\ BuiltFine(AddNeighbor(c, found, k, ahead, forLane), Shaped)
             /\ InOrder(AddNeighbor(c, found, k, ahead, forLane))
  <2> DEFINE p == PathInto(found[k].lane, found[k].successor, ahead, forLane)
  <2>1. Made(p, Shaped)
    BY PathsShaped
  <2>2. p # None
    <3> HIDE DEF p
    <3> QED BY <2>1, NotNone DEF Made
  <2>3. BuiltFine(AddPath(c, p, found[k].left), Shaped) /\ InOrder(AddPath(c, p, found[k].left))
    <3> HIDE DEF p
    <3> QED BY <1>1, <2>1, <2>2, AddPathFine, AddPathInOrder
  <2> QED BY <1>1, <2>3 DEF AddNeighbor
<1> DEFINE into(lane, side) == FilteredNeighborSuccessor(lane, side, succs)
           found == ByMiss(Neighbor(LeftOf[center], into(LeftOf[center], LeftNeighbor), TRUE)
                \o Neighbor(RightOf[center], into(RightOf[center], RightNeighbor), FALSE))
<1> HIDE DEF found
<1>2. /\ BuiltFine(AddNeighbor(b, found, 1, ahead, forLane), Shaped)
      /\ InOrder(AddNeighbor(b, found, 1, ahead, forLane))
  BY <1>1
<1>3. InOrder(AddNeighbor(AddNeighbor(b, found, 1, ahead, forLane), found, 2, ahead, forLane))
  BY <1>1, <1>2
<1> QED BY <1>3 DEF AddNeighborPaths, found

(* The paths of a junction: some successor is kept, or the fall-back makes *)
(* a path.                                                                 *)
LEMMA JunctionInOrder ==
  ASSUME NEW start, NEW e, NEW last, NEW candidates, NEW ahead, NEW forLane, route \in Routes
  PROVE  InOrder(JunctionPaths(start, e, last, candidates, ahead, forLane))
<1> DEFINE succs == RouteSuccessors(start)
           allowed(s) == Succ[s] = <<>> \/ /\ Succ[s][1] \notin {last, start}
                                           /\ ~ShouldReplaceSuccessorWithNeighbor(start, s)
           leftmost == [s \in ToSet(succs) |-> LeftDepth[HeadOr(Succ[s])]]
           next == {i \in DOMAIN succs : allowed(succs[i])}
           b == BuildSortedPaths(start, succs, e, last, candidates, ahead, forLane)
<1>1. b = IF next = {} THEN Fallback(start, succs, e, ahead, forLane)
          ELSE Sorted(SortedAt(succs, next, leftmost), start, e, candidates, ahead, forLane)
  BY DEF BuildSortedPaths
<1>2. InOrder(Fallback(start, succs, e, ahead, forLane))
  <2>1. \A s : ExtendPath(start, s, Lookback, ahead, forLane) # None
    BY PathsShaped
  <2> QED BY <2>1, OneInOrder DEF Fallback
<1>3. next # {} => InOrder(Sorted(SortedAt(succs, next, leftmost), start, e, candidates, ahead, forLane))
  <2>1. PICK m \in Nat : DOMAIN succs = 1..m
    BY SuccessorsCount
  <2>2. next \in SUBSET (1..m)
    BY <2>1
  <2> HIDE DEF next, leftmost, succs
  <2>3. Cardinality(next) \in Nat /\ (next # {} => Cardinality(next) >= 1)
    BY <2>2, IndexSets
  <2>4. Len(SortedAt(succs, next, leftmost)) = Cardinality(next)
    BY <2>3, SortedAtLen
  <2> QED BY <2>3, <2>4, SortedInOrder
<1>4. InOrder(b)
  <2> HIDE DEF b, next, leftmost, succs
  <2> QED BY <1>1, <1>2, <1>3
<1>5. BuiltFine(b, Shaped)
  <2>1. Leads(Shaped, start, succs, ahead, forLane)
    BY DEF Leads, OnMap, Shaped
  <2> QED BY <2>1, BuildSortedFine
<1> QED
  <2> HIDE DEF b
  <2>1. InOrder(AddNeighborPaths(b, start, succs, ahead, forLane))
    BY <1>4, <1>5, NeighborsInOrder
  <2> QED BY <2>1 DEF JunctionPaths, b

(* If there is a path, the index names one.                                *)
Held(b) == Valid(b.paths) # {} => b.idx \in Valid(b.paths)

(* GetEgoRefPaths starts from an index that names a path.                  *)
LEMMA PathsFromHeld ==
  ASSUME NEW start, NEW e, NEW last, NEW candidates, NEW soon, NEW ahead, route \in Routes
  PROVE  PathsFrom(start, e, last, candidates, soon, ahead).idx
           \in Valid(PathsFrom(start, e, last, candidates, soon, ahead).paths)
<1>1. \A s : PathInto(e, s, ahead, TRUE) # None /\ ExtendPath(e, s, Lookback, ahead, TRUE) # None
  BY PathsShaped
<1>2. LaneChangePaths(e, ahead).idx \in Valid(LaneChangePaths(e, ahead).paths)
  <2>1. \A own, left, right : /\ ThreePaths(e, own, left, right, ahead).idx = 1
                              /\ ThreePaths(e, own, left, right, ahead).paths[1] # None
    <3> SUFFICES ASSUME NEW own, NEW left, NEW right
                 PROVE  /\ ThreePaths(e, own, left, right, ahead).idx = 1
                        /\ ThreePaths(e, own, left, right, ahead).paths[1] # None
      OBVIOUS
    <3>1. \A a, m, c : Triple(a, m, c)[1] = m
      BY DEF Triple, Slots
    <3>2. ThreePaths(e, own, left, right, ahead).paths[1] = PathInto(e, own, ahead, TRUE)
      BY <3>1 DEF ThreePaths
    <3> QED BY <1>1, <3>2 DEF ThreePaths
  <2> QED BY <2>1 DEF LaneChangePaths, BesidePaths, Valid, Slots
<1>3. Alone(e, ahead).idx \in Valid(Alone(e, ahead).paths)
  BY <1>1, OneInOrder, InOrderValid DEF Alone
<1>4. JunctionPaths(start, e, last, candidates, ahead, e \in Lanes).idx
        \in Valid(JunctionPaths(start, e, last, candidates, ahead, e \in Lanes).paths)
  BY JunctionInOrder, InOrderValid
<1> QED BY <1>2, <1>3, <1>4 DEF PathsFrom

(* A dropped path hands the index to one on its right, or on its left.     *)
LEMMA DropLoopHeld ==
  ASSUME NEW b, NEW i \in Slots, NEW want, EgoFine(b, want), Held(b)
  PROVE  Held(DropLoop(b, i))
<1> DEFINE more == {j \in Valid(b.paths) : j > i}
           less == {j \in Valid(b.paths) : j < i}
           next == IF b.idx # i THEN b.idx ELSE IF more # {} THEN Min(more)
                   ELSE IF less # {} THEN Max(less) ELSE 0
           q == [b.paths EXCEPT ![i] = None]
           c == [b EXCEPT !.paths = q, !.idx = next]
<1>1. DropLoop(b, i) = b \/ DropLoop(b, i) = c
  BY DEF DropLoop
<1>2. c.paths = q /\ c.idx = next
  <2> HIDE DEF q, next
  <2> QED BY DEF EgoFine
<1>3. Valid(q) = Valid(b.paths) \ {i}
  BY DEF Valid, EgoFine, SlotsFine
<1>4. Valid(b.paths) \in SUBSET Int /\ \A j \in Valid(b.paths) : 0 <= j /\ j <= 2
  BY DEF Valid, Slots
<1>5. more # {} => Min(more) \in more
  <2>1. i + 1 \in Int /\ more \in SUBSET Int /\ \A j \in more : i + 1 <= j
    BY <1>4 DEF Slots
  <2> HIDE DEF more
  <2> QED BY <2>1, MinFact
<1>6. less # {} => Max(less) \in less
  <2>1. i \in Int /\ less \in SUBSET Int /\ \A j \in less : j <= i
    BY <1>4 DEF Slots
  <2> HIDE DEF less
  <2> QED BY <2>1, MaxFact
<1>7. Valid(q) # {} => next \in Valid(q)
  <2> SUFFICES ASSUME Valid(q) # {} PROVE next \in Valid(q)
    OBVIOUS
  <2> HIDE DEF q
  <2>1. b.idx \in Valid(b.paths)
    BY <1>3 DEF Held
  <2>2. CASE b.idx # i
    BY <1>3, <2>1, <2>2
  <2>3. CASE b.idx = i /\ more # {}
    BY <1>3, <1>4, <1>5, <2>3 DEF Slots
  <2>4. CASE b.idx = i /\ more = {}
    <3>1. less # {}
      BY <1>3, <1>4, <2>4 DEF Slots
    <3> QED BY <1>3, <1>4, <1>6, <2>4, <3>1 DEF Slots
  <2> QED BY <2>2, <2>3, <2>4
<1>8. Held(c)
  <2> HIDE DEF c, q, next
  <2> QED BY <1>2, <1>7 DEF Held
<1> QED
  <2> HIDE DEF c
  <2> QED BY <1>1, <1>8

(* Dropping them one by one.                                               *)
LEMMA WithoutLoopsHeld ==
  ASSUME NEW b, NEW want, EgoFine(b, want), Held(b)
  PROVE  Held(WithoutLoops(b))
<1>1. 0 \in Slots /\ 1 \in Slots /\ 2 \in Slots
  BY DEF Slots
<1>2. EgoFine(DropLoop(b, 0), want) /\ Held(DropLoop(b, 0))
  BY <1>1, DropLoopFine, DropLoopHeld
<1>3. EgoFine(DropLoop(DropLoop(b, 0), 1), want) /\ Held(DropLoop(DropLoop(b, 0), 1))
  BY <1>1, <1>2, DropLoopFine, DropLoopHeld
<1>4. Held(DropLoop(DropLoop(DropLoop(b, 0), 1), 2))
  BY <1>1, <1>3, DropLoopHeld
<1> QED BY <1>4 DEF WithoutLoops

(* Ranks and goals leave slots and index alone.                            *)
LEMMA FinishKeepsSlots ==
  ASSUME NEW b, NEW want, EgoFine(b, want)
  PROVE  Finish(b).idx = b.idx /\ Valid(Finish(b).paths) = Valid(b.paths)
<1> DEFINE p == b.paths
           atGoal == b.terminal \/ \E i \in Valid(p) : p[i].goal > 0
           last == IF Valid(p) = {} THEN 1 ELSE RankOf(p, Max(Valid(p)))
           slot(i) == IF p[i] = None THEN None ELSE
                      [p[i] EXCEPT !.rank = RankOf(p, i), !.goal = IF atGoal /\ @ = 0 THEN Far ELSE @]
           extra == [k \in DOMAIN b.extra |->
                       IF b.extra[k].rank = 4 THEN [b.extra[k] EXCEPT !.rank = last + 1] ELSE b.extra[k]]
           q == Triple(slot(0), slot(1), slot(2))
           c == [b EXCEPT !.terminal = atGoal, !.paths = q, !.extra = extra]
<1>1. Finish(b) = c
  BY DEF Finish, SlotWise
<1>2. c.idx = b.idx /\ c.paths = q
  <2> HIDE DEF atGoal, q, extra
  <2> QED BY DEF EgoFine
<1>3. \A i \in Slots : slot(i) # None <=> p[i] # None
  <2> SUFFICES ASSUME NEW i \in Slots, p[i] # None PROVE slot(i) # None
    OBVIOUS
  <2> DEFINE goal == IF atGoal /\ p[i].goal = 0 THEN Far ELSE p[i].goal
             x == [p[i] EXCEPT !.rank = RankOf(p, i), !.goal = goal]
  <2>1. Made(p[i], want)
    BY DEF EgoFine, SlotsFine, Fine
  <2>2. Made(x, want)
    <3> HIDE DEF goal
    <3> QED BY <2>1, RankedMade
  <2>3. x # None
    <3> HIDE DEF x
    <3> QED BY <2>2, NotNone DEF Made
  <2> QED BY <2>3
<1>4. \A i \in Slots : q[i] = slot(i)
  <2> HIDE DEF slot
  <2> QED BY DEF Triple, Slots
<1>5. Valid(q) = Valid(p)
  <2> HIDE DEF slot, q
  <2> QED BY <1>3, <1>4 DEF Valid
<1> QED
  <2> HIDE DEF c, q
  <2> QED BY <1>1, <1>2, <1>5

(* GetEgoRefPaths.                                                         *)
LEMMA RefPathsHeld ==
  ASSUME NEW e, NEW last, NEW candidates, NEW soon, NEW close, NEW terminal, route \in Routes
  PROVE  Held(GetEgoRefPaths(e, last, candidates, soon, close, terminal))
<1> DEFINE b == PathsFrom(StartOf(e), e, last, candidates, soon, LookAhead(e))
           all == Renewed(b, LookAhead(e), IF e \in Lanes THEN soon ELSE close, terminal)
<1>1. BuiltFine(b, Shaped) /\ b.idx \in Valid(b.paths)
  <2>1. OnMap(Shaped, e, LookAhead(e))
    BY DEF OnMap, Shaped
  <2> QED BY <2>1, PathsFromFine, PathsFromHeld
<1>2. EgoFine(all, Shaped) /\ Held(all)
  <2> HIDE DEF b
  <2> QED BY <1>1 DEF Renewed, BuiltFine, EgoFine, Held, Shaped
<1>3. Held(Completed(all, e \in Lanes /\ soon /\ RouteSuccessors(e) = <<>>))
  <2> HIDE DEF all
  <2>1. EgoFine(WithoutLoops(all), Shaped) /\ Held(WithoutLoops(all))
    BY <1>2, WithoutLoopsFine, WithoutLoopsHeld
  <2>2. Held(Finish(WithoutLoops(all)))
    BY <2>1, FinishKeepsSlots DEF Held
  <2> QED BY <1>2, <2>2 DEF Completed
<1> QED BY <1>3 DEF GetEgoRefPaths

(* The outer path the ego is on becomes slot 1.                            *)
LEMMA ShiftedHolds ==
  ASSUME NEW b, NEW p, b.idx \in Valid(b.paths), b.idx # 1, p # None
  PROVE  1 \in Valid(Shifted(b, p))
BY DEF Shifted, Valid, Slots, Triple

(* And the index becomes 1.                                                *)
LEMMA BeyondHolds ==
  ASSUME NEW b, NEW here, NEW side, EgoFine(b, Shaped), b.idx \in Valid(b.paths), b.idx # 1
  PROVE  Beyond(b, here, side).idx \in Valid(Beyond(b, here, side).paths)
<1> DEFINE beyond == side[here[1]]
           ready  == {k \in DOMAIN b.extra : b.extra[k].lane = beyond}
<1>1. ASSUME NEW n \in DOMAIN b.extra
      PROVE  WithExtra(b, n).idx \in Valid(WithExtra(b, n).paths)
  <2> DEFINE q == Shifted(b, b.extra[n])
             less == RemoveAt(b.extra, n)
  <2>1. b.extra[n] # None
    BY NotNone DEF EgoFine, ExtrasFine, Made
  <2>2. 1 \in Valid(q)
    BY <2>1, ShiftedHolds
  <2>3. WithExtra(b, n).idx = 1 /\ WithExtra(b, n).paths = q
    <3>1. WithExtra(b, n) = [b EXCEPT !.paths = q, !.idx = 1, !.extra = less]
      BY DEF WithExtra
    <3> HIDE DEF q, less
    <3> QED BY <3>1 DEF EgoFine
  <2> HIDE DEF q
  <2> QED BY <2>2, <2>3
<1>2. ASSUME NEW made, Made(made, Shaped)
      PROVE  WithMade(b, made).idx \in Valid(WithMade(b, made).paths)
  <2> DEFINE q == Shifted(b, made)
             line == b.line \union ToSet(made.ids)
             d == [b EXCEPT !.paths = q, !.line = line]
             f == Finish(d)
  <2>1. made # None
    BY <1>2, NotNone DEF Made
  <2>2. 1 \in Valid(q) /\ SlotsFine(q, Shaped)
    BY <1>2, <2>1, ShiftedHolds, ShiftedFine
  <2>3. EgoFine(d, Shaped) /\ d.paths = q
    <3> DEFINE c == [b EXCEPT !.paths = q]
    <3>1. c = [paths |-> q, extra |-> b.extra, idx |-> b.idx, close |-> b.close,
               line |-> b.line, terminal |-> b.terminal, size |-> b.size]
      <4> HIDE DEF q
      <4> QED BY DEF EgoFine
    <3>2. d = [c EXCEPT !.line = line]
      <4> HIDE DEF q, line
      <4> QED BY DEF EgoFine
    <3>3. [c EXCEPT !.line = line] =
            [paths |-> q, extra |-> b.extra, idx |-> b.idx, close |-> b.close,
             line |-> line, terminal |-> b.terminal, size |-> b.size]
      <4> HIDE DEF c, q, line
      <4> QED BY <3>1
    <3> HIDE DEF c, d, q, line
    <3> QED BY <2>2, <3>2, <3>3 DEF EgoFine
  <2>4. EgoFine(f, Shaped) /\ Valid(f.paths) = Valid(q)
    <3> HIDE DEF d, q
    <3> QED BY <2>3, FinishFine, FinishKeepsSlots
  <2>5. WithMade(b, made).idx = 1 /\ WithMade(b, made).paths = f.paths
    <3>1. WithMade(b, made) = [f EXCEPT !.idx = 1, !.extra = b.extra]
      BY DEF WithMade
    <3> HIDE DEF f
    <3> QED BY <2>4, <3>1 DEF EgoFine
  <2> HIDE DEF q, f
  <2> QED BY <2>2, <2>4, <2>5
<1>3. ready # {} => Min(ready) \in DOMAIN b.extra
  <2>1. 1 \in Int /\ ready \in SUBSET Int /\ \A k \in ready : 1 <= k
    BY DEF EgoFine, ExtrasFine
  <2>2. ready \subseteq DOMAIN b.extra
    OBVIOUS
  <2> HIDE DEF ready
  <2>3. ready # {} => Min(ready) \in ready
    BY <2>1, MinFact
  <2> QED BY <2>2, <2>3
<1>4. \A succs, wanted : MakeBeyond(b, beyond, succs, wanted).idx
                           \in Valid(MakeBeyond(b, beyond, succs, wanted).paths)
  BY <1>2, PathsShaped DEF MakeBeyond
<1>5. ready # {} => WithExtra(b, Min(ready)).idx \in Valid(WithExtra(b, Min(ready)).paths)
  <2> HIDE DEF ready
  <2> QED BY <1>1, <1>3
<1> QED BY <1>4, <1>5 DEF Beyond

(* UpdateEgoRefPaths.                                                      *)
LEMMA UpdatePathsHolds ==
  ASSUME NEW b, EgoFine(b, Shaped), b.idx \in Valid(b.paths)
  PROVE  UpdateEgoRefPaths(b).idx \in Valid(UpdateEgoRefPaths(b).paths)
BY BeyondHolds DEF UpdateEgoRefPaths

(* The lights leave slots and index alone.                                 *)
LEMMA RelitKeepsSlots ==
  ASSUME NEW b, NEW want, EgoFine(b, want)
  PROVE  Relit(b).idx = b.idx /\ Valid(Relit(b).paths) = Valid(b.paths)
<1> DEFINE q == UpdateTrafficInfo(b.paths)
           c == [b EXCEPT !.paths = q]
<1>1. c.idx = b.idx /\ c.paths = q
  <2> HIDE DEF q
  <2> QED BY DEF EgoFine
<1>2. \A i \in Slots : Lit(b.paths[i]) # None <=> b.paths[i] # None
  <2> SUFFICES ASSUME NEW i \in Slots, b.paths[i] # None PROVE Lit(b.paths[i]) # None
    BY DEF Lit
  <2> DEFINE p == b.paths[i]
  <2>1. Made(p, want)
    BY DEF EgoFine, SlotsFine, Fine
  <2> HIDE DEF p
  <2>2. Made([p EXCEPT !.red = RedOf(p)], Lighted(want))
    BY <2>1, LitMade
  <2> QED BY <2>2, NotNone DEF Made, Lit, p
<1>3. \A i \in Slots : q[i] = Lit(b.paths[i])
  BY TrafficInfo DEF Triple, Slots
<1>4. Valid(q) = Valid(b.paths)
  <2> HIDE DEF q
  <2> QED BY <1>2, <1>3 DEF Valid
<1> QED
  <2> HIDE DEF q, c
  <2>1. Relit(b) = c
    BY DEF Relit, c, q
  <2> QED BY <1>1, <1>4, <2>1

---------------------------------------------------------------------------
(* Where a path is left: not all of the paths that could be made run in a  *)
(* loop.  The code has no answer for a map on which they all do.           *)
SomePathLeft == pc = "plan" => Valid(ego.paths) # {}

(* The current index names a path from the first plan of a scenario on,    *)
(* and the action that is kept from frame to frame, if there is one, is    *)
(* that of a path.                                                         *)
HasPath(a) == a = -1 \/ \E i \in Valid(ego.paths) : a = PATH_TO_ACTION(i)

(* The ego has got paths in this scenario.                                 *)
Planned == pc = "plan" \/ ~first

(* The inductive invariant: the last choice of the planner and what        *)
(* MakePlanning keeps of it are one, between plans.                        *)
IndexInv ==
  /\ EgoShape /\ route \in Routes
  /\ pc \in {"observe", "localise", "plan"}
  /\ Planned => ego.idx \in Valid(ego.paths) /\ HasPath(chosen)
  /\ first => chosen = -1
  /\ ~first /\ pc # "plan" => executed = chosen

(* A new planner has chosen nothing.                                       *)
LEMMA IndexInit == Init => IndexInv
<1> SUFFICES ASSUME Init PROVE IndexInv
  OBVIOUS
<1>1. EgoShape
  BY NewEgoFine, EgoIsFine DEF Init
<1>2. route \in Routes
  <2>1. PICK sc \in Scenarios : route = UNION Range(sc.blocks)
    BY DEF Init
  <2>2. UNION Range(sc.blocks) \in Routes
    BY FrameAssumption
  <2> QED BY <2>1, <2>2
<1> QED BY <1>1, <1>2 DEF Init, IndexInv, Planned

(* The shape of what the ego becomes.                                      *)
LEMMA ShapeKept ==
  ASSUME NEW b, EgoFine(b, Shaped), ego' = b
  PROVE  EgoShape'
BY FineShape DEF EgoShape

(* A path that stays keeps the action that names it.                       *)
LEMMA HasPathKept ==
  ASSUME HasPath(chosen), UNCHANGED chosen, Valid(ego.paths) \subseteq Valid(ego.paths)'
  PROVE  HasPath(chosen)'
BY DEF HasPath, PATH_TO_ACTION

(* The index names a path after every action that makes, drops or shifts   *)
(* paths, and every action that keeps the last choice keeps its path.      *)
LEMMA IndexStep ==
  IndexInv /\ SomePathLeft /\ SomePathLeft' /\ [Next]_vars => IndexInv'
<1> SUFFICES ASSUME IndexInv, SomePathLeft, SomePathLeft', [Next]_vars PROVE IndexInv'
  OBVIOUS
<1>0. EgoFine(ego, Shaped)
  BY EgoIsFine DEF IndexInv
<1>1. CASE NextScenario
  <2> DEFINE b == [NewEgo EXCEPT !.close = ego.close, !.terminal = ego.terminal]
  <2>1. EgoFine(b, Shaped)
    BY NewEgoFine, WithFields
  <2>2. ego' = b
    BY <1>1 DEF NextScenario
  <2> HIDE DEF b
  <2>3. EgoShape'
    BY <2>1, <2>2, ShapeKept
  <2>4. route' \in Routes
    <3>1. PICK sc \in Scenarios : route' = UNION Range(sc.blocks)
      BY <1>1 DEF NextScenario, Arrive
    <3>2. UNION Range(sc.blocks) \in Routes
      BY FrameAssumption
    <3> QED BY <3>1, <3>2
  <2> QED BY <1>1, <2>3, <2>4 DEF NextScenario, IndexInv, Planned
<1>2. CASE Observe
  <2>1. UNCHANGED <<ego, route, first, chosen, executed>> /\ pc = "observe" /\ pc' = "localise"
    BY <1>2 DEF Observe
  <2> QED BY <2>1 DEF IndexInv, EgoShape, IsPath, Planned, HasPath, Valid
<1>3. CASE LocaliseFirst
  <2>1. PICK start, here : ego' = GetEgoRefPaths(start, NoEdge, here, near, ego.close, ego.terminal)
    BY <1>3 DEF LocaliseFirst
  <2>2. EgoShape'
    BY <2>1, RefPathsShown, FineLess, ShapeKept
  <2>3. Held(ego')
    BY <2>1, RefPathsHeld DEF IndexInv
  <2>4. UNCHANGED <<route, first, chosen, executed>> /\ pc' = "plan" /\ first
    BY <1>3 DEF LocaliseFirst, scene
  <2>5. ego'.idx \in Valid(ego.paths)'
    BY <2>3, <2>4 DEF Held, SomePathLeft, Valid
  <2> QED BY <2>2, <2>4, <2>5 DEF IndexInv, HasPath
<1>4. CASE LocaliseNext
  <2>1. PICK found : /\ \/ EnterLane(found.edge)
                        \/ EnterConnector(found.edge, found.candidates)
                        \/ ApproachJunction(found.edge)
                        \/ StayOnEdge(found.edge)
                     /\ LocaliseOn(found.edge)
    BY <1>4 DEF LocaliseNext
  <2>2. UNCHANGED <<route, first, executed>> /\ pc' = "plan" /\ ~first
    BY <2>1 DEF LocaliseOn, scene
  <2>3. ego.idx \in Valid(ego.paths) /\ HasPath(chosen)
    BY <2>2 DEF IndexInv, Planned
  <2>4. SUFFICES EgoShape' /\ Held(ego') /\ HasPath(chosen)'
    <3>1. ego'.idx \in Valid(ego.paths)'
      BY <2>2, <2>4 DEF Held, SomePathLeft, Valid
    <3> QED BY <2>2, <2>4, <3>1 DEF IndexInv
  <2>5. chosen' = -1 => HasPath(chosen)'
    BY DEF HasPath
  <2>6. CASE EnterLane(found.edge)
    <3>1. ego' = GetEgoRefPaths(found.edge, edge, {}, near, FALSE, ego.terminal) /\ chosen' = -1
      BY <2>6 DEF EnterLane
    <3>2. EgoShape'
      BY <3>1, RefPathsShown, FineLess, ShapeKept
    <3>3. Held(ego')
      BY <3>1, RefPathsHeld DEF IndexInv
    <3> QED BY <2>5, <3>1, <3>2, <3>3
  <2>7. CASE EnterConnector(found.edge, found.candidates)
    <3> DEFINE idx == UpdateEgoCurrRefPathIdx(ego.paths, found.edge, found.candidates, ego.idx)
               d == [ego EXCEPT !.close = FALSE, !.idx = idx]
    <3>1. ego' = Relit(UpdateEgoRefPaths(d)) /\ chosen' = -1
      BY <2>7 DEF EnterConnector
    <3>2. idx \in Valid(ego.paths)
      <4> DEFINE with == {i \in Valid(ego.paths) : found.edge \in ToSet(ego.paths[i].ids)}
      <4>1. /\ 0 \in Int /\ with \in SUBSET Int /\ (\A i \in with : 0 <= i)
            /\ with \subseteq Valid(ego.paths)
        BY DEF Valid, Slots
      <4>2. with # {} => Min(with) \in Valid(ego.paths)
        <5> HIDE DEF with
        <5>1. with # {} => Min(with) \in with
          BY <4>1, MinFact
        <5> QED BY <4>1, <5>1
      <4> QED BY <2>3, <4>2 DEF UpdateEgoCurrRefPathIdx
    <3> HIDE DEF idx
    <3>3. EgoFine(d, Shaped)
      BY <1>0, WithFields
    <3>4. d.idx = idx /\ d.paths = ego.paths
      BY <1>0 DEF EgoFine
    <3> HIDE DEF d
    <3> DEFINE u == UpdateEgoRefPaths(d)
    <3>5. EgoFine(u, Shaped) /\ u.idx \in Valid(u.paths)
      <4>1. Roomy(Shaped)
        BY DEF Roomy, Shaped
      <4> QED BY <3>2, <3>3, <3>4, <4>1, UpdatePathsFine, UpdatePathsHolds
    <3> HIDE DEF u
    <3>6. EgoFine(Relit(u), Shaped) /\ Held(Relit(u))
      BY <3>5, RelitFine, RelitKeepsSlots DEF Held
    <3>7. ego' = Relit(u)
      BY <3>1 DEF u
    <3>8. EgoShape' /\ Held(ego')
      BY <3>6, <3>7, ShapeKept
    <3> QED BY <2>5, <3>1, <3>8
  <2>8. CASE ApproachJunction(found.edge)
    <3> DEFINE u == GetEgoRefPaths(found.edge, edge, {}, near, TRUE, ego.terminal)
    <3>1. ego' = Relit(u) /\ chosen' = -1
      BY <2>8 DEF ApproachJunction
    <3>2. EgoFine(u, Shaped) /\ Held(u)
      BY RefPathsShown, FineLess, RefPathsHeld DEF IndexInv
    <3> HIDE DEF u
    <3>3. EgoFine(Relit(u), Shaped) /\ Held(Relit(u))
      BY <3>2, RelitFine, RelitKeepsSlots DEF Held
    <3>4. EgoShape' /\ Held(ego')
      BY <3>1, <3>3, ShapeKept
    <3> QED BY <2>5, <3>1, <3>4
  <2>9. CASE StayOnEdge(found.edge)
    <3>1. ego' = Relit(ego) /\ UNCHANGED chosen
      BY <2>9 DEF StayOnEdge
    <3>2. /\ EgoFine(Relit(ego), Shaped)
          /\ Relit(ego).idx = ego.idx /\ Valid(Relit(ego).paths) = Valid(ego.paths)
      BY <1>0, RelitFine, RelitKeepsSlots
    <3>3. EgoShape' /\ Held(ego')
      BY <2>3, <3>1, <3>2, ShapeKept DEF Held
    <3>4. Valid(ego.paths)' = Valid(ego.paths)
      <4>1. Valid(ego.paths)' = Valid(ego'.paths)
        BY DEF Valid
      <4> QED BY <3>1, <3>2, <4>1
    <3>5. HasPath(chosen)'
      BY <2>3, <3>1, <3>4, HasPathKept
    <3> QED BY <3>3, <3>5
  <2> QED BY <2>1, <2>6, <2>7, <2>8, <2>9
<1>5. CASE Plan
  <2>1. /\ UNCHANGED <<ego, route>> /\ pc = "plan" /\ pc' = "observe" /\ first' = FALSE
        /\ executed' = chosen'
    BY <1>5 DEF Plan, scene
  <2>2. ego.idx \in Valid(ego.paths) /\ HasPath(chosen)
    BY <2>1 DEF IndexInv, Planned
  <2>3. chosen' = -1 \/ chosen' = chosen \/ \E i \in Valid(ego.paths) : chosen' = PATH_TO_ACTION(i)
    BY <1>5, <2>2 DEF Plan, BestAction, Searched
  <2>4. HasPath(chosen)'
    BY <2>1, <2>2, <2>3 DEF HasPath, Valid, PATH_TO_ACTION
  <2>5. EgoShape'
    BY <2>1 DEF IndexInv, EgoShape, IsPath
  <2>6. (ego.idx \in Valid(ego.paths))'
    BY <2>1, <2>2 DEF Valid
  <2> QED BY <2>1, <2>4, <2>5, <2>6 DEF IndexInv
<1>6. CASE UNCHANGED vars
  <2>1. UNCHANGED <<ego, route, pc, first, chosen, executed>>
    BY <1>6 DEF vars, scene
  <2> QED BY <2>1 DEF IndexInv, EgoShape, IsPath, Planned, HasPath, Valid, PATH_TO_ACTION
<1> QED
  BY <1>1, <1>2, <1>3, <1>4, <1>5, <1>6 DEF Next

(* As long as the map leaves a path, the current index names one.          *)
THEOREM CurrentPathValidHolds == Spec /\ []SomePathLeft => []CurrentPathValid
<1>1. IndexInv => CurrentPathValid
  BY DEF IndexInv, Planned, CurrentPathValid
<1> QED
  BY <1>1, IndexInit, IndexStep, PTL DEF Spec

(* And the last action still has a path when the next frame looks it up,   *)
(* though frames replace, drop and shift the paths.                        *)
THEOREM LastActionHasPathHolds == Spec /\ []SomePathLeft => []LastActionHasPath
<1>1. IndexInv => LastActionHasPath
  <2> SUFFICES ASSUME IndexInv, pc # "plan", ~first, executed # -1
               PROVE  ACTION_TO_PATH(executed) \in Valid(ego.paths)
    BY DEF LastActionHasPath
  <2>1. PICK i \in Valid(ego.paths) : executed = PATH_TO_ACTION(i)
    BY DEF IndexInv, Planned, HasPath
  <2>2. i \in 0..2
    BY DEF Valid, Slots
  <2>3. ACTION_TO_PATH(executed) = i
    BY <2>1, <2>2 DEF ACTION_TO_PATH, PATH_TO_ACTION
  <2> QED BY <2>1, <2>3
<1> QED
  BY <1>1, IndexInit, IndexStep, PTL DEF Spec
---------------------------------------------------------------------------
(* Every path of the ego, in a slot or extra, has complete tables of the   *)
(* size the search indexes by.                                             *)
AllWhole(b) ==
  /\ \A i \in Slots : b.paths[i] = None \/ Whole(b.paths[i], b.size)
  /\ \A k \in DOMAIN b.extra : Whole(b.extra[k], b.size)

(* The ego's size is that of a path with points ahead.                     *)
SizedEgo(b) == b.size \in Nat \ {0} /\ b.size - Lookback \in Nat \ {0}

(* What is asked of the ego, apart from the light.                         *)
LEMMA SizedFact ==
  ASSUME NEW b, b.size # 0
  PROVE  EgoFine(b, Sized(b.size)) <=> EgoFine(b, Shaped) /\ AllWhole(b)
BY DEF EgoFine, SlotsFine, ExtrasFine, Fine, Made, Sized, Shaped, AllWhole

(* A scenario starts on an edge, so the first paths are strung together    *)
(* from edges of the map; from then on the paths of the ego are complete,  *)
(* and PATH_SIZE leaves points ahead of it for the next path to be made.   *)
TablesInv ==
  /\ EgoShape /\ route \in Routes
  /\ pc \in {"observe", "localise", "plan"}
  /\ first => spot \in Starts
  /\ Planned => SizedEgo(ego) /\ AllWhole(ego)

(* A new planner has no paths.                                             *)
LEMMA TablesInit == Init => TablesInv
<1> SUFFICES ASSUME Init PROVE TablesInv
  OBVIOUS
<1>1. EgoShape /\ route \in Routes
  BY IndexInit DEF IndexInv
<1> QED BY <1>1 DEF Init, TablesInv, Planned

(* What the ego becomes where it keeps its size.                           *)
LEMMA TablesKept ==
  ASSUME NEW b, SizedEgo(b), EgoFine(b, Sized(b.size)), ego' = b
  PROVE  EgoShape' /\ SizedEgo(ego') /\ AllWhole(ego')
<1>1. b.size # 0
  BY DEF SizedEgo
<1>2. EgoFine(b, Shaped) /\ AllWhole(b)
  BY <1>1, SizedFact
<1> QED BY <1>2, ShapeKept

(* Paths made anew on an edge of the map.                                  *)
LEMMA RefPathsWhole ==
  ASSUME route \in Routes, NEW e \in Edges,
         NEW last, NEW candidates, NEW soon, NEW close, NEW terminal
  PROVE  LET b == GetEgoRefPaths(e, last, candidates, soon, close, terminal)
         IN  SizedEgo(b) /\ EgoFine(b, Sized(b.size))
<1> DEFINE b == GetEgoRefPaths(e, last, candidates, soon, close, terminal)
           ahead == LookAhead(e)
           want == Sized(Lookback + ahead)
<1>1. ahead \in Nat \ {0} /\ Lookback \in Nat \ {0}
  BY LookAheadType
<1>2. want.size = Lookback + ahead
  BY DEF Sized
<1>3. OnMap(want, e, ahead)
  BY <1>1, <1>2 DEF OnMap
<1>4. EgoFine(b, want)
  <2> HIDE DEF want
  <2> QED BY <1>3, RefPathsFine
<1>5. b.size = Lookback + ahead
  <2>1. want.size # 0
    <3> HIDE DEF want, ahead
    <3> QED BY <1>1, <1>2
  <2> HIDE DEF b, want, ahead
  <2> QED BY <1>2, <1>4, <2>1 DEF EgoFine
<1>6. SizedEgo(b)
  <2> HIDE DEF b, ahead
  <2> QED BY <1>1, <1>5 DEF SizedEgo
<1>7. Sized(b.size) = want
  BY <1>5
<1> QED BY <1>4, <1>6, <1>7

(* Writing the lights keeps the tables.                                    *)
LEMMA RelitWhole ==
  ASSUME NEW b, SizedEgo(b), EgoFine(b, Sized(b.size))
  PROVE  SizedEgo(Relit(b)) /\ EgoFine(Relit(b), Sized(Relit(b).size))
<1> DEFINE want == Sized(b.size)
           c == Relit(b)
<1>1. want.size = b.size
  BY DEF Sized
<1>2. EgoFine(c, Sized(want.size))
  <2> HIDE DEF want
  <2> QED BY RelitFine DEF want
<1>3. c.size = b.size
  <2>1. b.size # 0
    BY DEF SizedEgo
  <2> HIDE DEF c, want
  <2> QED BY <1>1, <1>2, <2>1 DEF EgoFine, Sized
<1> QED BY <1>1, <1>2, <1>3 DEF SizedEgo

(* No action leaves a path whose tables end before its points do.          *)
LEMMA TablesStep == TablesInv /\ [Next]_vars => TablesInv'
<1> SUFFICES ASSUME TablesInv, [Next]_vars PROVE TablesInv'
  OBVIOUS
<1>0. EgoFine(ego, Shaped)
  BY EgoIsFine DEF TablesInv
<1>1. CASE NextScenario
  <2> DEFINE b == [NewEgo EXCEPT !.close = ego.close, !.terminal = ego.terminal]
  <2>1. EgoFine(b, Shaped)
    BY NewEgoFine, WithFields
  <2>2. ego' = b
    BY <1>1 DEF NextScenario
  <2> HIDE DEF b
  <2>3. EgoShape'
    BY <2>1, <2>2, ShapeKept
  <2>4. route' \in Routes /\ spot' \in Starts
    <3>1. PICK sc \in Scenarios : route' = UNION Range(sc.blocks) /\ spot' \in Starts
      BY <1>1 DEF NextScenario, Arrive
    <3>2. UNION Range(sc.blocks) \in Routes
      BY FrameAssumption
    <3> QED BY <3>1, <3>2
  <2> QED BY <1>1, <2>3, <2>4 DEF NextScenario, TablesInv, Planned
<1>2. CASE Observe
  <2>1. /\ UNCHANGED <<ego, route, first>> /\ pc = "observe" /\ pc' = "localise"
        /\ first => spot' = spot
    BY <1>2 DEF Observe
  <2> QED BY <2>1 DEF TablesInv, EgoShape, IsPath, Planned, AllWhole, SizedEgo
<1>3. CASE LocaliseFirst
  <2> DEFINE onRoute == {i \in DOMAIN spot : spot[i] \in route}
             starts  == IF onRoute = {} THEN {1} ELSE onRoute
             e       == spot[Min(starts)]
             here    == {spot[i] : i \in starts}
             b       == GetEgoRefPaths(e, NoEdge, here, near, ego.close, ego.terminal)
  <2>1. ego' = b
    BY <1>3 DEF LocaliseFirst
  <2>2. UNCHANGED <<route, spot, first>> /\ pc' = "plan" /\ first
    BY <1>3 DEF LocaliseFirst, scene
  <2>3. spot \in Seq(Edges) /\ spot # <<>> /\ spot \in Starts
    BY <2>2, FrameAssumption DEF TablesInv
  <2>4. e \in Edges
    <3>1. /\ 0 \in Int /\ starts \in SUBSET Int /\ (\A i \in starts : 0 <= i)
          /\ starts \subseteq DOMAIN spot /\ starts # {}
      <4>1. DOMAIN spot = 1..Len(spot) /\ Len(spot) \in Nat /\ Len(spot) >= 1
        BY <2>3
      <4> QED BY <4>1
    <3> HIDE DEF starts
    <3>2. Min(starts) \in starts
      BY <3>1, MinFact
    <3>3. \A k \in DOMAIN spot : spot[k] \in Edges
      BY <2>3
    <3>4. Min(starts) \in DOMAIN spot
      BY <3>1, <3>2
    <3> QED BY <3>3, <3>4, Zenon
  <2>5. route \in Routes
    BY DEF TablesInv
  <2> HIDE DEF e, here, starts
  <2>6. SizedEgo(b) /\ EgoFine(b, Sized(b.size))
    BY <2>4, <2>5, RefPathsWhole
  <2> HIDE DEF b
  <2>7. EgoShape' /\ SizedEgo(ego') /\ AllWhole(ego')
    BY <2>1, <2>6, TablesKept
  <2> QED BY <2>2, <2>3, <2>5, <2>7 DEF TablesInv
<1>4. CASE LocaliseNext
  <2>1. PICK found : /\ \/ EnterLane(found.edge)
                        \/ EnterConnector(found.edge, found.candidates)
                        \/ ApproachJunction(found.edge)
                        \/ StayOnEdge(found.edge)
                     /\ LocaliseOn(found.edge)
    BY <1>4 DEF LocaliseNext
  <2>2. UNCHANGED <<route, first>> /\ pc' = "plan" /\ ~first
    BY <2>1 DEF LocaliseOn, scene
  <2>3. SizedEgo(ego) /\ AllWhole(ego) /\ route \in Routes
    BY <2>2 DEF TablesInv, Planned
  <2>4. EgoFine(ego, Sized(ego.size))
    BY <1>0, <2>3, SizedFact DEF SizedEgo
  <2>5. SUFFICES \E b : SizedEgo(b) /\ EgoFine(b, Sized(b.size)) /\ ego' = b
    <3>1. EgoShape' /\ SizedEgo(ego') /\ AllWhole(ego')
      BY <2>5, TablesKept
    <3> QED BY <2>2, <2>3, <3>1 DEF TablesInv
  <2>6. CASE EnterLane(found.edge)
    <3>1. /\ ego' = GetEgoRefPaths(found.edge, edge, {}, near, FALSE, ego.terminal)
          /\ found.edge \in Edges
      BY <2>6 DEF EnterLane, Edges
    <3> QED BY <2>3, <3>1, RefPathsWhole
  <2>7. CASE EnterConnector(found.edge, found.candidates)
    <3>1. PICK idx : ego' = Relit(UpdateEgoRefPaths([ego EXCEPT !.close = FALSE, !.idx = idx]))
      BY <2>7 DEF EnterConnector
    <3> DEFINE d == [ego EXCEPT !.close = FALSE, !.idx = idx]
               u == UpdateEgoRefPaths(d)
               want == Sized(ego.size)
    <3>2. want.size = ego.size
      BY DEF Sized
    <3>3. EgoFine(d, want)
      <4> HIDE DEF want
      <4> QED BY <2>4, WithFields DEF want
    <3>4. Roomy(want)
      BY <2>3, <3>2 DEF Roomy, SizedEgo
    <3>5. EgoFine(u, want)
      <4> HIDE DEF d, want
      <4> QED BY <3>3, <3>4, UpdatePathsFine
    <3>6. u.size = ego.size
      <4> HIDE DEF u, want
      <4> QED BY <2>3, <3>2, <3>5 DEF EgoFine, SizedEgo
    <3>7. ego' = Relit(u)
      BY <3>1
    <3> HIDE DEF u
    <3>8. SizedEgo(u) /\ EgoFine(u, Sized(u.size))
      BY <2>3, <3>5, <3>6 DEF SizedEgo
    <3> QED BY <3>7, <3>8, RelitWhole
  <2>8. CASE ApproachJunction(found.edge)
    <3> DEFINE u == GetEgoRefPaths(found.edge, edge, {}, near, TRUE, ego.terminal)
    <3>1. ego' = Relit(u) /\ found.edge \in Edges
      BY <2>8 DEF ApproachJunction, Closing, Edges
    <3>2. SizedEgo(u) /\ EgoFine(u, Sized(u.size))
      BY <2>3, <3>1, RefPathsWhole
    <3> HIDE DEF u
    <3> QED BY <3>1, <3>2, RelitWhole
  <2>9. CASE StayOnEdge(found.edge)
    <3>1. ego' = Relit(ego)
      BY <2>9 DEF StayOnEdge
    <3> QED BY <2>3, <2>4, <3>1, RelitWhole
  <2> QED BY <2>1, <2>6, <2>7, <2>8, <2>9
<1>5. CASE Plan
  <2>1. UNCHANGED <<ego, route>> /\ pc = "plan" /\ pc' = "observe" /\ first' = FALSE
    BY <1>5 DEF Plan, scene
  <2>2. SizedEgo(ego) /\ AllWhole(ego)
    BY <2>1 DEF TablesInv, Planned
  <2> QED BY <2>1, <2>2 DEF TablesInv, EgoShape, IsPath, AllWhole, SizedEgo
<1>6. CASE UNCHANGED vars
  <2>1. UNCHANGED <<ego, route, pc, first, spot>>
    BY <1>6 DEF vars, scene
  <2> QED BY <2>1 DEF TablesInv, EgoShape, IsPath, Planned, AllWhole, SizedEgo
<1> QED
  BY <1>1, <1>2, <1>3, <1>4, <1>5, <1>6 DEF Next

(* However edges, points and curvature segments are cut, appended and      *)
(* truncated (constructRefPath, UpdateAnchorSegments): every path that is  *)
(* planned with has PATH_SIZE points, a segment table that only grows and  *)
(* ends at its last point, and an anchor for every point or a hole.        *)
THEOREM PathTablesCompleteHolds == Spec => []PathTablesComplete
<1>1. TablesInv => PathTablesComplete
  <2> SUFFICES ASSUME TablesInv, pc = "plan", NEW i \in Valid(ego.paths)
               PROVE  LET p == ego.paths[i] IN
                      /\ p.size = ego.size
                      /\ \A k \in 1..(Len(p.segments) - 1) : p.segments[k] <= p.segments[k + 1]
                      /\ Last(p.segments) = p.size - 1
                      /\ \A k \in 0..(p.size - 1) :
                           k \in p.blank \/ \E a \in p.anchors : a[1] <= k /\ k <= a[2]
    BY DEF PathTablesComplete
  <2>1. AllWhole(ego) /\ i \in Slots /\ ego.paths[i] # None
    BY DEF TablesInv, Planned, Valid
  <2>2. Whole(ego.paths[i], ego.size)
    BY <2>1 DEF AllWhole
  <2> QED BY <2>2 DEF Whole
<1> QED
  BY <1>1, TablesInit, TablesStep, PTL DEF Spec
=============================================================================
