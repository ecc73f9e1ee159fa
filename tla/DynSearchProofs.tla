-------------------------- MODULE DynSearchProofs --------------------------
(***************************************************************************)
(* Theorems about the dynamic tree search for every number of scenarios,   *)
(* actions, layers and slots, and for every domain.  No property of the    *)
(* search is inductive alone: that an index stays in range needs the shape *)
(* of the trees, the shape needs the descents to end in allocated slots,   *)
(* and both need to know where each scenario stands.  IndInv says all of   *)
(* it; each action keeps it by a lemma of its own.  The last part is about *)
(* the domain the search is run with here, Rock Sample.                    *)
(***************************************************************************)
EXTENDS DynSearch, RockWalk, SequenceTheorems, FiniteSetTheorems, DataLemmas

(* TreeShape for one allocated slot, in every state.                       *)
Node(g) ==
  /\ g \in Scenarios => depth[g] = 0 /\ parent_idx[g] = Invalid
  /\ g \notin Scenarios =>
       /\ parent_idx[g] \in 0..(g - 1)
       /\ depth[g] = depth[parent_idx[g]] + 1
       /\ child_base[parent_idx[g]] # Invalid
       /\ g \in Block(child_base[parent_idx[g]])
  /\ child_base[g] # Invalid =>
       /\ Block(child_base[g]) \subseteq Allocated \ Scenarios
       /\ \A c \in Block(child_base[g]) : parent_idx[c] = g

Shape == \A g \in Allocated : Node(g)

(* The scenario of a slot is that of its parent.                           *)
Owners ==
  \A g \in Allocated :
    owner[g] = IF g \in Scenarios THEN g ELSE owner[parent_idx[g]]

CacheInv ==
  \A g \in DOMAIN cache : g \in Allocated /\ cache[g] = Candidates[depth[g]]

(* The node selected for s: allocated, within the height, in s's own tree. *)
Located(s) ==
  /\ result[s].parent \in Allocated
  /\ depth[result[s].parent] <= TreeHeight
  /\ owner[result[s].parent] = s

Control ==
  /\ pc # "idle" => total >= NumScenarios
  /\ pc \in {"explore", "expand", "backprop"} => iter < MaxIters
  /\ pc = "explore" =>
       /\ cur \in Allocated /\ depth[cur] <= TreeHeight /\ owner[cur] = lane
       /\ \A s \in Scenarios : s < lane => Located(s)
  /\ pc \in {"expand", "backprop"} => \A s \in Scenarios : Located(s)
  /\ pc = "expand" => cur = Invalid
  /\ pc = "backprop" => cur = Invalid \/ (cur \in Allocated /\ owner[cur] = lane)

IndInv == TypeOK /\ Shape /\ Owners /\ CacheInv /\ Control

-----------------------------------------------------------------------------
(* The candidates of an allocated slot, cached or not.                     *)
LEMMA CandidatesFact ==
  ASSUME IndInv, NEW g \in Allocated
  PROVE  /\ CandidatesOf(g) = Candidates[depth[g]]
         /\ CandidatesOf(g) \in Seq(Actions)
<1>1. g \in Slots
  BY SizesAssumption DEF IndInv, TypeOK, Allocated, Slots
<1>2. depth[g] \in 0..(TreeHeight + 1)
  BY <1>1 DEF IndInv, TypeOK
<1>3. CandidatesOf(g) = Candidates[depth[g]]
  BY DEF IndInv, CacheInv, CandidatesOf
<1> QED BY <1>2, <1>3, DomainAssumption

(* Looking a list up keeps the cache as it should be.                      *)
LEMMA CacheStep ==
  ASSUME IndInv, NEW g \in Allocated, CacheCandidates(g),
         total' = total, depth' = depth
  PROVE  /\ DOMAIN cache' \subseteq Slots
         /\ \A h \in DOMAIN cache' : cache'[h] \in Seq(Actions)
         /\ CacheInv'
<1>1. DOMAIN cache' = DOMAIN cache \union {g}
  BY DEF CacheCandidates
<1>2. \A h \in DOMAIN cache' : cache'[h] = CandidatesOf(h)
  BY DEF CacheCandidates
<1>3. \A h \in DOMAIN cache' : h \in Allocated
  BY <1>1 DEF IndInv, CacheInv
<1>4. Allocated \subseteq Slots
  BY SizesAssumption DEF IndInv, TypeOK, Allocated, Slots
<1> QED BY <1>1, <1>2, <1>3, <1>4, CandidatesFact DEF CacheInv, Allocated

(* Nothing about a slot changes if the pool does not.                      *)
LEMMA ShapeKept ==
  ASSUME Shape, Owners, total' = total, depth' = depth, parent_idx' = parent_idx,
         child_base' = child_base, owner' = owner
  PROVE  Shape' /\ Owners'
BY DEF Shape, Owners, Node, Allocated, Block

-----------------------------------------------------------------------------
LEMMA InitInv == Init => IndInv
<1> SUFFICES ASSUME Init PROVE IndInv
  OBVIOUS
<1>1. TypeOK
  <2>1. DOMAIN cache = {}
    BY DEF Init
  <2> QED BY <2>1, SizesAssumption, DomainAssumption
       DEF Init, TypeOK, Slots, Scenarios, Actions, Invalid
<1>2. Allocated = {}
  BY DEF Init, Allocated
<1>3. DOMAIN cache = {}
  BY DEF Init
<1> QED BY <1>1, <1>2, <1>3 DEF Init, IndInv, Shape, Owners, CacheInv, Control

LEMMA BeginSearchInv == IndInv /\ BeginSearch => IndInv'
<1> SUFFICES ASSUME IndInv, BeginSearch PROVE IndInv'
  OBVIOUS
<1> USE SizesAssumption, DomainAssumption
<1>0. Scenarios \subseteq Slots /\ Invalid \notin Slots /\ 0 \in Actions
  BY DEF Scenarios, Slots, Invalid, Actions
<1>1. Allocated' = Scenarios
  BY DEF BeginSearch, Allocated, Scenarios
<1>2. cache' = <<>>
  BY DEF BeginSearch, ClearCandidates
<1>3. TypeOK'
  <2>1. /\ DOMAIN cache' \subseteq Slots
        /\ \A g \in DOMAIN cache' : cache'[g] \in Seq(Actions)
    <3>1. DOMAIN cache' = {}
      BY <1>2
    <3> QED BY <3>1
  <2>2. /\ total' \in 0..MaxSlots
        /\ chunks' \in Nat \ {0}
    <3>1. ChunksFor(NumScenarios) \in Int
      BY DEF ChunksFor
    <3> QED BY <3>1 DEF IndInv, TypeOK, BeginSearch
  <2>3. /\ depth' \in [Slots -> 0..(TreeHeight + 1)]
        /\ parent_idx' \in [Slots -> Slots \union {Invalid}]
        /\ visit_count' \in [Slots -> Nat]
    BY DEF IndInv, TypeOK, BeginSearch, InitNodes
  <2>4. /\ child_base' \in [Slots -> Slots \union {Invalid}]
        /\ active_flag' \in [Slots -> BOOLEAN]
        /\ curr_action' \in [Slots -> Actions]
        /\ bad_reward' \in [Slots -> BOOLEAN]
    <3>1. curr_action' \in [Slots -> Actions]
      BY <1>0 DEF IndInv, TypeOK, BeginSearch
    <3>2. child_base' \in [Slots -> Slots \union {Invalid}]
      BY DEF IndInv, TypeOK, BeginSearch
    <3>3. active_flag' \in [Slots -> BOOLEAN] /\ bad_reward' \in [Slots -> BOOLEAN]
      BY DEF IndInv, TypeOK, BeginSearch
    <3> QED BY <3>1, <3>2, <3>3
  <2>5. dom' \in [Slots -> States]
    <3>1. PICK particle \in [Scenarios -> InitStates] :
            dom' = [g \in Slots |-> IF g \in Scenarios THEN particle[g] ELSE dom[g]]
      BY DEF BeginSearch
    <3> QED BY <3>1 DEF IndInv, TypeOK
  <2>6. owner' \in [Slots -> Scenarios]
    BY DEF IndInv, TypeOK, BeginSearch
  <2>7. /\ pc' \in {"idle", "loop", "explore", "expand", "backprop"}
        /\ iter' \in 0..MaxIters /\ round' \in 0..MaxRounds
        /\ lane' \in Scenarios /\ cur' \in Slots \union {Invalid}
        /\ written' \subseteq Slots
    BY <1>0 DEF IndInv, TypeOK, BeginSearch
  <2>8. result' \in [Scenarios -> [parent : Slots \union {Invalid}, action : Actions]]
    BY DEF IndInv, TypeOK, BeginSearch
  <2> QED BY <2>1, <2>2, <2>3, <2>4, <2>5, <2>6, <2>7, <2>8 DEF TypeOK
<1>4. Shape' /\ Owners'
  BY <1>0, <1>1 DEF BeginSearch, InitNodes, Shape, Node, Owners
<1>5. CacheInv'
  BY <1>2 DEF CacheInv
<1>6. Control'
  BY DEF BeginSearch, Control
<1> QED BY <1>3, <1>4, <1>5, <1>6 DEF IndInv

LEMMA EndSearchInv == IndInv /\ EndSearch => IndInv'
<1> SUFFICES ASSUME IndInv, EndSearch PROVE IndInv'
  OBVIOUS
<1>1. Shape' /\ Owners'
  BY ShapeKept DEF IndInv, EndSearch, pool, ghosts
<1>2. TypeOK'
  BY DEF IndInv, TypeOK, EndSearch, pool, ghosts
<1> QED BY <1>1, <1>2 DEF IndInv, EndSearch, pool, ghosts, CacheInv, Allocated, Control

LEMMA BeginIterationInv == IndInv /\ BeginIteration => IndInv'
<1> SUFFICES ASSUME IndInv, BeginIteration PROVE IndInv'
  OBVIOUS
<1> USE SizesAssumption
<1>1. Shape' /\ Owners'
  BY ShapeKept DEF IndInv, BeginIteration, pool, ghosts
<1>2. 0 \in Scenarios /\ 0 \in Slots
  BY DEF Scenarios, Slots
<1>3. TypeOK'
  BY <1>2 DEF IndInv, TypeOK, BeginIteration, pool, ghosts
<1>4. CacheInv'
  BY DEF IndInv, CacheInv, BeginIteration, pool, Allocated
<1>5. 0 \in Allocated
  BY DEF IndInv, TypeOK, Control, BeginIteration, Allocated
<1>6. depth[0] = 0 /\ owner[0] = 0
  BY <1>2, <1>5 DEF IndInv, Shape, Node, Owners
<1>7. Control'
  BY <1>2, <1>5, <1>6
  DEF IndInv, TypeOK, Control, BeginIteration, pool, ghosts, Located, Allocated, Scenarios
<1> QED BY <1>1, <1>3, <1>4, <1>7 DEF IndInv

-----------------------------------------------------------------------------
(* Selecting action a at node p for the present scenario.                  *)
LEMMA SelectInv ==
  ASSUME IndInv, pc = "explore", NEW a \in Actions, Select(cur, a),
         CacheCandidates(cur),
         UNCHANGED <<pool, dom, iter, round, ghosts>>
  PROVE  IndInv'
<1> USE SizesAssumption
<1>1. cur \in Allocated /\ cur \in Slots /\ lane \in Scenarios
  BY DEF IndInv, Control, TypeOK, Allocated, Slots
<1>2. Shape' /\ Owners'
  BY ShapeKept DEF IndInv, pool, ghosts
<1>3. /\ DOMAIN cache' \subseteq Slots
      /\ \A h \in DOMAIN cache' : cache'[h] \in Seq(Actions)
      /\ CacheInv'
  BY <1>1, CacheStep DEF pool
<1>4. result' \in [Scenarios -> [parent : Slots \union {Invalid}, action : Actions]]
  BY <1>1 DEF IndInv, TypeOK, Select
<1>5. /\ lane' \in Scenarios
      /\ cur' \in Slots \union {Invalid}
      /\ pc' \in {"explore", "expand"}
  BY <1>1 DEF Select, Scenarios, Slots
<1>6. TypeOK'
  BY <1>3, <1>4, <1>5 DEF IndInv, TypeOK, pool, ghosts
<1>7. /\ result'[lane].parent = cur
      /\ \A s \in Scenarios \ {lane} : result'[s] = result[s]
  BY <1>1 DEF Select, IndInv, TypeOK
<1>8. \A s \in Scenarios : s <= lane => Located(s)'
  BY <1>1, <1>7 DEF IndInv, Control, Located, Allocated, Scenarios, pool, ghosts
<1>9. Control'
  <2>1. CASE lane < NumScenarios - 1
    <3>1. pc' = "explore" /\ lane' = lane + 1 /\ cur' = lane + 1
      BY <2>1 DEF Select
    <3>2. lane + 1 \in Scenarios /\ lane + 1 \in Allocated
      BY <1>1, <2>1 DEF Scenarios, IndInv, Control, TypeOK, Allocated
    <3>3. depth[lane + 1] = 0 /\ owner[lane + 1] = lane + 1
      BY <3>2 DEF IndInv, Shape, Node, Owners
    <3>4. \A s \in Scenarios : s < lane' => Located(s)'
      BY <1>1, <1>8, <3>1 DEF Scenarios
    <3> QED BY <3>1, <3>2, <3>3, <3>4
      DEF Control, IndInv, Allocated, pool, ghosts
  <2>2. CASE ~(lane < NumScenarios - 1)
    <3>1. pc' = "expand" /\ lane = NumScenarios - 1 /\ cur' = Invalid
      BY <2>2, <1>1 DEF Select, Scenarios
    <3>2. \A s \in Scenarios : Located(s)'
      BY <1>8, <3>1 DEF Scenarios
    <3> QED BY <3>1, <3>2 DEF Control, IndInv, pool
  <2> QED BY <2>1, <2>2
<1> QED BY <1>2, <1>3, <1>6, <1>9 DEF IndInv

LEMMA SelectRootInv == IndInv /\ SelectRoot => IndInv'
<1> SUFFICES ASSUME IndInv, SelectRoot PROVE IndInv'
  OBVIOUS
<1> DEFINE a == IF CandidatesOf(cur) = <<>> THEN 0 ELSE CandidatesOf(cur)[1]
<1>1. cur \in Allocated
  BY DEF IndInv, Control, SelectRoot
<1>2. a \in Actions
  <2>1. CandidatesOf(cur) \in Seq(Actions)
    BY <1>1, CandidatesFact
  <2>2. CASE CandidatesOf(cur) = <<>>
    BY <2>2, SizesAssumption DEF Actions
  <2>3. CASE CandidatesOf(cur) # <<>>
    BY <2>1, <2>3, EmptySeq, ElementOfSeq, LenProperties
  <2> QED BY <2>2, <2>3
<1> QED BY <1>2, SelectInv DEF SelectRoot

LEMMA SelectLeafInv == IndInv /\ SelectLeaf => IndInv'
<1> SUFFICES ASSUME IndInv, SelectLeaf PROVE IndInv'
  OBVIOUS
<1>1. cur \in Slots
  BY SizesAssumption DEF IndInv, Control, TypeOK, SelectLeaf, Descending, Allocated, Slots
<1>2. curr_action[cur] \in Actions
  BY <1>1 DEF IndInv, TypeOK
<1> QED BY <1>2, SelectInv DEF SelectLeaf, Descending

LEMMA SelectUnvisitedInv == IndInv /\ SelectUnvisited => IndInv'
<1> SUFFICES ASSUME IndInv, SelectUnvisited PROVE IndInv'
  OBVIOUS
<1>1. cur \in Allocated
  BY DEF IndInv, Control, SelectUnvisited, Descending
<1>2. PICK i \in Unvisited(cur) : Select(cur, CandidatesOf(cur)[i])
  BY DEF SelectUnvisited
<1>3. CandidatesOf(cur)[i] \in Actions
  BY <1>1, CandidatesFact, ElementOfSeq DEF Unvisited
<1> QED BY <1>2, <1>3, SelectInv DEF SelectUnvisited, Descending

(* A node of the block below p: one layer deeper, in the same tree.        *)
LEMMA ChildFact ==
  ASSUME IndInv, NEW p \in Allocated, child_base[p] # Invalid, NEW a \in Actions
  PROVE  /\ child_base[p] + a \in Allocated \ Scenarios
         /\ parent_idx[child_base[p] + a] = p
         /\ depth[child_base[p] + a] = depth[p] + 1
         /\ owner[child_base[p] + a] = owner[p]
<1> DEFINE c == child_base[p] + a
<1>1. p \in Slots /\ child_base[p] \in Slots
  BY SizesAssumption DEF IndInv, TypeOK, Allocated, Slots
<1>2. c \in Block(child_base[p])
  BY <1>1, SizesAssumption DEF Block, Actions, Slots
<1>3. c \in Allocated \ Scenarios /\ parent_idx[c] = p
  BY <1>2 DEF IndInv, Shape, Node
<1> QED BY <1>3 DEF IndInv, Shape, Node, Owners

LEMMA DescendInv == IndInv /\ Descend => IndInv'
<1> SUFFICES ASSUME IndInv, Descend PROVE IndInv'
  OBVIOUS
<1> USE SizesAssumption
<1>1. cur \in Allocated /\ cur \in Slots
  BY DEF IndInv, Control, TypeOK, Descend, Descending, Allocated, Slots
<1>2. PICK a \in Actions : cur' = child_base[cur] + a
  <2>1. CandidatesOf(cur) \in Seq(Actions)
    BY <1>1, CandidatesFact
  <2>2. \A i \in 1..Len(CandidatesOf(cur)) : CandidatesOf(cur)[i] \in Actions
    BY <2>1, ElementOfSeq
  <2>3. 0 \in Actions
    BY DEF Actions
  <2> QED BY <2>2, <2>3 DEF Descend
<1>3. child_base[cur] # Invalid /\ depth[cur] < TreeHeight
  BY <1>1 DEF Descend, IsLeaf, IndInv, TypeOK
<1>4. /\ cur' \in Allocated
      /\ depth[cur'] = depth[cur] + 1
      /\ owner[cur'] = owner[cur]
  BY <1>1, <1>2, <1>3, ChildFact
<1>5. Shape' /\ Owners'
  BY ShapeKept DEF IndInv, Descend, pool, ghosts
<1>6. /\ DOMAIN cache' \subseteq Slots
      /\ \A h \in DOMAIN cache' : cache'[h] \in Seq(Actions)
      /\ CacheInv'
  BY <1>1, CacheStep DEF Descend, pool
<1>7. cur' \in Slots
  BY <1>4 DEF IndInv, TypeOK, Allocated, Slots
<1>8. TypeOK'
  BY <1>6, <1>7 DEF IndInv, TypeOK, Descend, pool, ghosts
<1>9. Control'
  BY <1>1, <1>3, <1>4
  DEF IndInv, TypeOK, Control, Located, Descend, Descending, Allocated, pool, ghosts
<1> QED BY <1>5, <1>6, <1>8, <1>9 DEF IndInv

-----------------------------------------------------------------------------
(* What allocating the block of p, if it has none, leaves of the pool.     *)
LEMMA ExpandPool ==
  ASSUME IndInv, ExpandLane
  PROVE  LET p == result[lane].parent
             B == IF NewBlock(p) THEN Block(total) ELSE {} IN
         /\ p \in Allocated /\ p \in Slots
         /\ Allocated' = Allocated \union B
         /\ B \subseteq Slots /\ B \intersect Allocated = {}
         /\ B \intersect Scenarios = {}
         /\ depth' = [g \in Slots |-> IF g \in B THEN depth[p] + 1 ELSE depth[g]]
         /\ parent_idx' = [g \in Slots |-> IF g \in B THEN p ELSE parent_idx[g]]
         /\ child_base' = [g \in Slots |->
              IF g \in B THEN Invalid
              ELSE IF g = p /\ NewBlock(p) THEN total ELSE child_base[g]]
         /\ owner' = [g \in Slots |-> IF g \in B THEN owner[p] ELSE owner[g]]
         /\ total' >= total /\ total' \in 0..MaxSlots
         /\ NewBlock(p) => total \in Slots
<1> DEFINE p == result[lane].parent
           B == IF NewBlock(p) THEN Block(total) ELSE {}
<1> USE SizesAssumption
<1>1. lane \in Scenarios /\ p \in Allocated /\ total \in Nat /\ total >= NumScenarios
  BY DEF IndInv, TypeOK, Control, Located, ExpandLane
<1>2. p \in Slots
  BY <1>1 DEF IndInv, TypeOK, Allocated, Slots
<1>3. NewBlock(p) => total + NumActions <= MaxSlots /\ total' = total + NumActions
  BY DEF ExpandLane, Fits, Allocate
<1>4. ~NewBlock(p) => total' = total
  BY DEF ExpandLane
<1>5. Allocated' = Allocated \union B
  BY <1>1, <1>3, <1>4 DEF Allocated, Block
<1>6. /\ B \subseteq Slots /\ B \intersect Allocated = {} /\ B \intersect Scenarios = {}
      /\ NewBlock(p) => total \in Slots
  BY <1>1, <1>3 DEF Block, Slots, Allocated, Scenarios
<1>7. total' >= total /\ total' \in 0..MaxSlots
  BY <1>1, <1>3, <1>4 DEF IndInv, TypeOK
<1>8. /\ depth' = [g \in Slots |-> IF g \in B THEN depth[p] + 1 ELSE depth[g]]
      /\ parent_idx' = [g \in Slots |-> IF g \in B THEN p ELSE parent_idx[g]]
  BY DEF ExpandLane, InitNodes
<1>9. child_base' = [g \in Slots |->
              IF g \in B THEN Invalid
              ELSE IF g = p /\ NewBlock(p) THEN total ELSE child_base[g]]
  BY DEF ExpandLane
<1>10. owner' = [g \in Slots |-> IF g \in B THEN owner[p] ELSE owner[g]]
  BY DEF ExpandLane
<1> HIDE DEF p, B
<1>11. /\ p \in Allocated /\ p \in Slots
       /\ Allocated' = Allocated \union B
       /\ B \subseteq Slots /\ B \intersect Allocated = {} /\ B \intersect Scenarios = {}
       /\ total' >= total /\ total' \in 0..MaxSlots
       /\ NewBlock(p) => total \in Slots
  BY <1>1, <1>2, <1>5, <1>6, <1>7
<1> QED BY <1>8, <1>9, <1>10, <1>11 DEF p, B

LEMMA ExpandShape == IndInv /\ ExpandLane => Shape' /\ Owners'
<1> SUFFICES ASSUME IndInv, ExpandLane PROVE Shape' /\ Owners'
  OBVIOUS
<1> DEFINE p == result[lane].parent
           B == IF NewBlock(p) THEN Block(total) ELSE {}
<1> USE SizesAssumption
<1>1. /\ p \in Allocated /\ p \in Slots
      /\ Allocated' = Allocated \union B
      /\ B \subseteq Slots /\ B \intersect Allocated = {} /\ B \intersect Scenarios = {}
      /\ depth' = [g \in Slots |-> IF g \in B THEN depth[p] + 1 ELSE depth[g]]
      /\ parent_idx' = [g \in Slots |-> IF g \in B THEN p ELSE parent_idx[g]]
      /\ child_base' = [g \in Slots |->
           IF g \in B THEN Invalid
           ELSE IF g = p /\ NewBlock(p) THEN total ELSE child_base[g]]
      /\ owner' = [g \in Slots |-> IF g \in B THEN owner[p] ELSE owner[g]]
      /\ NewBlock(p) => total \in Slots
  BY ExpandPool
<1>2. Allocated \subseteq Slots /\ Invalid \notin Slots
  BY DEF IndInv, TypeOK, Allocated, Slots, Invalid
<1>3. B # {} => NewBlock(p) /\ B = Block(total) /\ child_base[p] = Invalid
  BY DEF NewBlock
<1>4. NewBlock(p) => B = Block(total)
  OBVIOUS
<1> HIDE DEF B
<1>5. ASSUME NEW g \in Allocated PROVE Node(g)'
  <2>1. Node(g) /\ g \in Slots /\ g \notin B
    BY <1>1, <1>2, <1>5 DEF IndInv, Shape
  <2>2. depth'[g] = depth[g] /\ parent_idx'[g] = parent_idx[g]
    BY <1>1, <2>1
  <2>3. g \in Scenarios => depth'[g] = 0 /\ parent_idx'[g] = Invalid
    BY <2>1, <2>2 DEF Node
  <2>4. ASSUME g \notin Scenarios
        PROVE  /\ parent_idx'[g] \in 0..(g - 1)
               /\ depth'[g] = depth'[parent_idx'[g]] + 1
               /\ child_base'[parent_idx'[g]] # Invalid
               /\ g \in Block(child_base'[parent_idx'[g]])
    <3> DEFINE q == parent_idx[g]
    <3>1. q \in 0..(g - 1) /\ depth[g] = depth[q] + 1
          /\ child_base[q] # Invalid /\ g \in Block(child_base[q])
      BY <2>1, <2>4 DEF Node
    <3>2. q \in Allocated
      BY <3>1 DEF Allocated, IndInv, TypeOK
    <3>3. q \in Slots /\ q \notin B
      BY <3>2, <1>1, <1>2
    <3>4. child_base'[q] = child_base[q] /\ depth'[q] = depth[q]
      BY <1>1, <3>1, <3>3 DEF NewBlock
    <3> QED BY <2>2, <3>1, <3>4
  <2>5. ASSUME child_base'[g] # Invalid
        PROVE  /\ Block(child_base'[g]) \subseteq Allocated' \ Scenarios
               /\ \A c \in Block(child_base'[g]) : parent_idx'[c] = g
    <3>1. CASE g = p /\ NewBlock(p)
      <4>1. child_base'[g] = total
        BY <1>1, <2>1, <3>1
      <4>2. Block(total) = B
        BY <3>1, <1>4
      <4> QED BY <1>1, <3>1, <4>1, <4>2
    <3>2. CASE ~(g = p /\ NewBlock(p))
      <4>1. child_base'[g] = child_base[g]
        BY <1>1, <2>1, <3>2
      <4>2. /\ Block(child_base[g]) \subseteq Allocated \ Scenarios
            /\ \A c \in Block(child_base[g]) : parent_idx[c] = g
        BY <2>1, <2>5, <4>1 DEF Node
      <4>3. \A c \in Block(child_base[g]) : parent_idx'[c] = parent_idx[c]
        BY <1>1, <1>2, <4>2
      <4> QED BY <1>1, <4>1, <4>2, <4>3
    <3> QED BY <3>1, <3>2
  <2> QED BY <2>3, <2>4, <2>5 DEF Node
<1>6. ASSUME NEW g \in B PROVE Node(g)'
  <2>1. g \in Slots /\ g \notin Scenarios /\ g \in Block(total) /\ NewBlock(p)
    BY <1>1, <1>3, <1>6
  <2>2. depth'[g] = depth[p] + 1 /\ parent_idx'[g] = p /\ child_base'[g] = Invalid
    BY <1>1, <2>1, <1>6
  <2>3. p \notin B /\ depth'[p] = depth[p] /\ child_base'[p] = total
    BY <1>1, <2>1
  <2>4. total # Invalid /\ p \in 0..(g - 1)
    BY <1>1, <1>2, <2>1 DEF Block, Allocated, IndInv, TypeOK
  <2> QED BY <2>1, <2>2, <2>3, <2>4 DEF Node
<1>7. Shape'
  BY <1>1, <1>5, <1>6 DEF Shape
<1>8. ASSUME NEW g \in Allocated'
      PROVE  owner'[g] = IF g \in Scenarios THEN g ELSE owner'[parent_idx'[g]]
  <2>1. CASE g \in B
    <3>1. owner'[g] = owner[p] /\ parent_idx'[g] = p /\ g \notin Scenarios /\ p \notin B
      BY <1>1, <2>1
    <3> QED BY <1>1, <3>1
  <2>2. CASE g \notin B
    <3>1. g \in Allocated /\ g \in Slots
      BY <1>1, <1>2, <2>2, <1>8
    <3>2. owner'[g] = owner[g] /\ parent_idx'[g] = parent_idx[g]
      BY <1>1, <2>2, <3>1
    <3>3. CASE g \in Scenarios
      BY <3>1, <3>2, <3>3 DEF IndInv, Owners
    <3>4. CASE g \notin Scenarios
      <4>1. parent_idx[g] \in Allocated
        BY <3>1, <3>4 DEF IndInv, Shape, Node, Allocated, TypeOK
      <4>2. owner'[parent_idx[g]] = owner[parent_idx[g]]
        BY <1>1, <1>2, <4>1
      <4> QED BY <3>1, <3>2, <3>4, <4>2 DEF IndInv, Owners
    <3> QED BY <3>3, <3>4
  <2> QED BY <2>1, <2>2
<1> QED BY <1>7, <1>8 DEF Owners

LEMMA ExpandTypes == IndInv /\ ExpandLane => TypeOK'
<1> SUFFICES ASSUME IndInv, ExpandLane PROVE TypeOK'
  OBVIOUS
<1> DEFINE p == result[lane].parent
           a == result[lane].action
           B == IF NewBlock(p) THEN Block(total) ELSE {}
           child == ChildSlot(IF NewBlock(p) THEN total ELSE child_base[p], a)
           out == Step[<<dom[p], a>>]
<1> USE SizesAssumption
<1>1. /\ p \in Slots /\ p \in Allocated
      /\ B \subseteq Slots
      /\ depth' = [g \in Slots |-> IF g \in B THEN depth[p] + 1 ELSE depth[g]]
      /\ parent_idx' = [g \in Slots |-> IF g \in B THEN p ELSE parent_idx[g]]
      /\ child_base' = [g \in Slots |->
           IF g \in B THEN Invalid
           ELSE IF g = p /\ NewBlock(p) THEN total ELSE child_base[g]]
      /\ owner' = [g \in Slots |-> IF g \in B THEN owner[p] ELSE owner[g]]
      /\ total' \in 0..MaxSlots
      /\ NewBlock(p) => total \in Slots
  BY ExpandPool
<1>2. lane \in Scenarios /\ a \in Actions /\ depth[p] <= TreeHeight
  BY DEF IndInv, TypeOK, Control, Located, ExpandLane
<1>3. out \in Outcome
  <2>1. dom[p] \in States
    BY <1>1 DEF IndInv, TypeOK
  <2> QED BY <2>1, <1>2, DomainAssumption
<1>4. child \in Slots
  <2>1. CASE NewBlock(p)
    BY <2>1, <1>2, <1>1
    DEF ExpandLane, Fits, ChildSlot, Slots, Actions
  <2>2. CASE ~NewBlock(p)
    <3>1. child_base[p] + a \in Allocated
      BY <2>2, <1>1, <1>2, ChildFact DEF NewBlock
    <3> QED BY <2>2, <3>1 DEF ChildSlot, Allocated, Slots, IndInv, TypeOK
  <2> QED BY <2>1, <2>2
<1>5. chunks' \in Nat \ {0}
  <2>1. ChunksFor(total + NumActions) \in Int
    BY DEF ChunksFor, IndInv, TypeOK
  <2> QED BY <2>1 DEF ExpandLane, Allocate, IndInv, TypeOK
<1>6. visit_count' \in [Slots -> Nat]
  BY DEF ExpandLane, InitNodes, IndInv, TypeOK
<1>7. /\ depth' \in [Slots -> 0..(TreeHeight + 1)]
      /\ parent_idx' \in [Slots -> Slots \union {Invalid}]
  <2>1. depth[p] + 1 \in 0..(TreeHeight + 1)
    BY <1>1, <1>2 DEF IndInv, TypeOK
  <2> HIDE DEF p, B
  <2> QED BY <2>1, <1>1 DEF IndInv, TypeOK
<1>8. child_base' \in [Slots -> Slots \union {Invalid}] /\ owner' \in [Slots -> Scenarios]
  <2> HIDE DEF p, B
  <2> QED BY <1>1 DEF IndInv, TypeOK
<1>9. /\ active_flag' \in [Slots -> BOOLEAN]
      /\ bad_reward' \in [Slots -> BOOLEAN]
  <2> DEFINE valid == depth[p] < TreeHeight /\ active_flag[p]
  <2>1. /\ active_flag' = [g \in Slots |->
             IF g = child /\ valid THEN out.active ELSE (g \in B) \/ active_flag[g]]
        /\ bad_reward' = [g \in Slots |->
             IF g = child /\ valid THEN out.bad ELSE (g \notin B) /\ bad_reward[g]]
    BY DEF ExpandLane
  <2>2. out.active \in BOOLEAN /\ out.bad \in BOOLEAN
    BY <1>3 DEF Outcome
  <2> HIDE DEF valid, out, child, B
  <2> QED BY <2>1, <2>2 DEF IndInv, TypeOK
<1>10. curr_action' \in [Slots -> Actions]
  <2>1. 0 \in Actions
    BY DEF Actions
  <2> QED BY <2>1, <1>2 DEF ExpandLane, IndInv, TypeOK
<1>11. dom' \in [Slots -> States] /\ written' \subseteq Slots
  <2>1. out.state \in States
    BY <1>3 DEF Outcome
  <2>2. \/ dom' = [dom EXCEPT ![child] = out.state]
        \/ dom' = dom
    BY DEF ExpandLane
  <2>3. written' \subseteq written \union {child}
    BY DEF ExpandLane
  <2> HIDE DEF out, child
  <2> QED BY <1>4, <2>1, <2>2, <2>3 DEF IndInv, TypeOK
<1>12. /\ pc' \in {"expand", "backprop"} /\ lane' \in Scenarios
       /\ UNCHANGED <<cache, iter, cur, result, round>>
  BY <1>2 DEF ExpandLane, Scenarios
<1> HIDE DEF p, a, B, child, out
<1> QED BY <1>1, <1>5, <1>6, <1>7, <1>8, <1>9, <1>10, <1>11, <1>12 DEF IndInv, TypeOK

LEMMA ExpandLaneInv == IndInv /\ ExpandLane => IndInv'
<1> SUFFICES ASSUME IndInv, ExpandLane PROVE IndInv'
  OBVIOUS
<1> DEFINE p == result[lane].parent
           B == IF NewBlock(p) THEN Block(total) ELSE {}
<1>1. /\ Allocated' = Allocated \union B
      /\ B \intersect Allocated = {}
      /\ depth' = [g \in Slots |-> IF g \in B THEN depth[p] + 1 ELSE depth[g]]
      /\ owner' = [g \in Slots |-> IF g \in B THEN owner[p] ELSE owner[g]]
      /\ total' >= total /\ total' \in 0..MaxSlots
  BY ExpandPool
<1> HIDE DEF B
<1>2. Allocated \subseteq Slots
  BY SizesAssumption DEF IndInv, TypeOK, Allocated, Slots
<1>3. \A g \in Allocated : depth'[g] = depth[g] /\ owner'[g] = owner[g] /\ g \in Allocated'
  BY <1>1, <1>2
<1>4. CacheInv'
  BY <1>3 DEF ExpandLane, IndInv, CacheInv
<1>5. \A s \in Scenarios : Located(s)'
  <2>1. \A s \in Scenarios : Located(s)
    BY DEF ExpandLane, IndInv, Control
  <2> QED BY <2>1, <1>3 DEF ExpandLane, Located
<1>6. Control'
  <2>1. /\ pc = "expand" /\ pc' \in {"expand", "backprop"}
        /\ iter' = iter /\ cur' = cur
    BY DEF ExpandLane
  <2>2. cur' = Invalid
    BY DEF ExpandLane, IndInv, Control
  <2>3. total' >= NumScenarios
    BY <1>1, <2>1, SizesAssumption DEF IndInv, TypeOK, Control
  <2> QED BY <1>5, <2>1, <2>2, <2>3 DEF Control, IndInv
<1> QED BY ExpandShape, ExpandTypes, <1>4, <1>6 DEF IndInv

-----------------------------------------------------------------------------
(* The back-propagation of a scenario is over, the next one's turn.        *)
LEMMA NextLaneInv ==
  ASSUME IndInv, pc = "backprop", NextLane, visit_count' \in [Slots -> Nat],
         UNCHANGED <<total, chunks, depth, parent_idx, child_base, active_flag,
                     curr_action, bad_reward, dom, cache, result, round, ghosts>>
  PROVE  IndInv'
<1> USE SizesAssumption
<1>1. Shape' /\ Owners'
  BY ShapeKept DEF IndInv, ghosts
<1>2. /\ lane' \in Scenarios /\ iter' \in 0..MaxIters /\ pc' \in {"backprop", "loop"}
      /\ cur' = Invalid /\ iter < MaxIters
      /\ pc' = "backprop" => iter' = iter
  BY DEF NextLane, IndInv, TypeOK, Control, Scenarios
<1>3. TypeOK'
  BY <1>2 DEF IndInv, TypeOK, ghosts
<1>4. CacheInv'
  BY DEF IndInv, CacheInv, Allocated
<1>5. \A s \in Scenarios : Located(s)'
  BY DEF IndInv, Control, Located, Allocated, ghosts
<1>6. Control'
  BY <1>2, <1>5 DEF IndInv, Control
<1> QED BY <1>1, <1>3, <1>4, <1>6 DEF IndInv

(* One step up or down inside the back-propagation of the present scenario. *)
LEMMA ClimbInv ==
  ASSUME IndInv, pc = "backprop", visit_count' \in [Slots -> Nat],
         cur' \in Allocated, owner[cur'] = lane,
         UNCHANGED <<total, chunks, depth, parent_idx, child_base, active_flag,
                     curr_action, bad_reward, dom, cache, pc, iter, lane, result,
                     round, ghosts>>
  PROVE  IndInv'
<1>1. Shape' /\ Owners'
  BY ShapeKept DEF IndInv, ghosts
<1>2. cur' \in Slots
  BY SizesAssumption DEF IndInv, TypeOK, Allocated, Slots
<1>3. TypeOK'
  BY <1>2 DEF IndInv, TypeOK, ghosts
<1>4. CacheInv'
  BY DEF IndInv, CacheInv, Allocated
<1>5. \A s \in Scenarios : Located(s)'
  BY DEF IndInv, Control, Located, Allocated, ghosts
<1>6. Control'
  BY <1>5 DEF IndInv, Control, Allocated, ghosts
<1> QED BY <1>1, <1>3, <1>4, <1>6 DEF IndInv

LEMMA BeginBackPropInv == IndInv /\ BeginBackProp => IndInv'
<1> SUFFICES ASSUME IndInv, BeginBackProp PROVE IndInv'
  OBVIOUS
<1> DEFINE p == result[lane].parent
<1>1. visit_count' \in [Slots -> Nat]
  BY DEF BeginBackProp, pool, IndInv, TypeOK
<1>2. p \in Allocated /\ owner[p] = lane /\ result[lane].action \in Actions
  BY DEF BeginBackProp, IndInv, TypeOK, Control, Located
<1>3. CASE active_flag[p] /\ child_base[p] = Invalid
  BY <1>1, <1>3, NextLaneInv DEF BeginBackProp, pool
<1>4. CASE active_flag[p] /\ child_base[p] # Invalid
  <2>1. cur' = child_base[p] + result[lane].action
    BY <1>4 DEF BeginBackProp
  <2>2. cur' \in Allocated /\ owner[cur'] = lane
    BY <1>2, <1>4, <2>1, ChildFact
  <2> QED BY <1>1, <1>4, <2>2, ClimbInv DEF BeginBackProp, pool
<1>5. CASE ~active_flag[p]
  <2>1. cur' = p
    BY <1>5 DEF BeginBackProp
  <2> QED BY <1>1, <1>2, <1>5, <2>1, ClimbInv DEF BeginBackProp, pool
<1> QED BY <1>3, <1>4, <1>5

LEMMA BackPropLevelInv == IndInv /\ BackPropLevel => IndInv'
<1> SUFFICES ASSUME IndInv, BackPropLevel PROVE IndInv'
  OBVIOUS
<1>1. cur \in Allocated /\ cur \in Slots /\ owner[cur] = lane
  BY SizesAssumption DEF BackPropLevel, IndInv, TypeOK, Control, Allocated, Slots
<1>2. visit_count' \in [Slots -> Nat]
  BY <1>1 DEF BackPropLevel, IndInv, TypeOK
<1>3. CASE NextLane
  BY <1>2, <1>3, NextLaneInv DEF BackPropLevel
<1>4. CASE parent_idx[cur] # Invalid /\ cur' = parent_idx[cur] /\ UNCHANGED <<pc, iter, lane>>
  <2>1. cur \notin Scenarios /\ parent_idx[cur] \in 0..(cur - 1)
    BY <1>1, <1>4 DEF IndInv, Shape, Node
  <2>2. parent_idx[cur] \in Allocated
    BY <1>1, <2>1 DEF Allocated, IndInv, TypeOK
  <2>3. owner[parent_idx[cur]] = lane
    BY <1>1, <2>1 DEF IndInv, Owners
  <2> QED BY <1>2, <1>4, <2>2, <2>3, ClimbInv DEF BackPropLevel
<1> QED BY <1>3, <1>4 DEF BackPropLevel

-----------------------------------------------------------------------------
(* The search keeps IndInv whatever it does.                               *)
THEOREM SearchCorrect == SafeSpec => []IndInv
<1>1. IndInv /\ [Next]_vars => IndInv'
  <2> SUFFICES ASSUME IndInv, [Next]_vars PROVE IndInv'
    OBVIOUS
  <2>1. CASE UNCHANGED vars
    <3>1. Shape' /\ Owners'
      BY <2>1, ShapeKept DEF IndInv, vars, pool, ghosts
    <3>2. TypeOK'
      BY <2>1 DEF IndInv, TypeOK, vars, pool, control, ghosts
    <3>3. CacheInv' /\ Control'
      BY <2>1 DEF IndInv, CacheInv, Control, Located, Allocated, vars, pool, control, ghosts
    <3> QED BY <3>1, <3>2, <3>3 DEF IndInv
  <2> QED BY <2>1, BeginSearchInv, EndSearchInv, BeginIterationInv, SelectRootInv,
        SelectLeafInv, SelectUnvisitedInv, DescendInv, ExpandLaneInv,
        BeginBackPropInv, BackPropLevelInv DEF Next, Work
<1> QED BY InitInv, <1>1, PTL DEF SafeSpec

(* Every index of the pool, every count and every action stays in its      *)
(* range, for any domain.                                                  *)
THEOREM TypeCorrect == SafeSpec => []TypeOK
BY SearchCorrect, PTL DEF IndInv

(* The trees are a forest below total_allocated_, one tree per scenario,   *)
(* in whatever state the slots were when they were reused.                 *)
THEOREM TreeShapeHolds == SafeSpec => []TreeShape
<1>1. IndInv => TreeShape
  BY DEF IndInv, Shape, Node, TreeShape
<1> QED BY <1>1, SearchCorrect, PTL

(* Selection ends at depth tree_height_ at the latest.                     *)
THEOREM SelectedDepthHolds == SafeSpec => []SelectedDepthInRange
<1>1. IndInv => SelectedDepthInRange
  BY DEF IndInv, Control, Located, SelectedDepthInRange
<1> QED BY <1>1, SearchCorrect, PTL

(* A cached candidate list belongs to the node that holds the slot.        *)
THEOREM CacheCurrentHolds == SafeSpec => []CacheCurrent
<1>1. IndInv => CacheCurrent
  BY DEF IndInv, CacheInv, CacheCurrent
<1> QED BY <1>1, SearchCorrect, PTL

(* Descents and back-propagations stay in their scenario's tree.           *)
THEOREM LaneIsolationHolds == SafeSpec => []LaneIsolation
<1>1. IndInv => LaneIsolation
  BY SizesAssumption DEF IndInv, TypeOK, Control, Located, LaneIsolation, Scenarios
<1> QED BY <1>1, SearchCorrect, PTL

-----------------------------------------------------------------------------
(* The next properties need every node to have a candidate, as every node  *)
(* of Rock Sample has: selectNodeDyn falls back on the first slot of the   *)
(* block otherwise, visited or not.                                        *)
CandidatesExist == \A d \in 0..(TreeHeight + 1) : Candidates[d] # <<>>

(* The child that was, or will be, expanded for s; whether it is written.  *)
ChildOf(s)    == child_base[result[s].parent] + result[s].action
Expandable(p) == depth[p] < TreeHeight /\ active_flag[p]

(* Stored states: where they come from, and that parents have one.         *)
Stored(g) ==
  LET p   == parent_idx[g]
      out == Step[<<dom[p], g - child_base[p]>>]
  IN p \in written /\ dom[g] = out.state /\ active_flag[g] = out.active

Written ==
  /\ pc # "idle" => Scenarios \subseteq written
  /\ written \subseteq Allocated
  /\ \A g \in Allocated \ Scenarios : parent_idx[g] \in written
  /\ \A g \in written \ Scenarios : Stored(g)
  /\ \A g \in Allocated : visit_count[g] > 0 /\ depth[g] <= TreeHeight => g \in written

Reached ==
  /\ pc = "explore" =>
       /\ cur = lane \/ visit_count[cur] > 0
       /\ \A s \in Scenarios : s < lane => result[s].parent \in written
  /\ pc \in {"expand", "backprop"} =>
       \A s \in Scenarios :
         /\ result[s].parent \in written
         /\ pc = "backprop" \/ s < lane =>
              /\ child_base[result[s].parent] # Invalid
              /\ Expandable(result[s].parent) => ChildOf(s) \in written
  /\ pc = "backprop" /\ cur # Invalid /\ depth[cur] <= TreeHeight => cur \in written

StateInv == IndInv /\ Written /\ Reached

(* What the steps that leave the pool alone leave of Written.              *)
LEMMA WrittenKept ==
  ASSUME IndInv, Written, pc' # "idle" => pc # "idle",
         UNCHANGED <<total, depth, parent_idx, child_base, active_flag, dom, written>>,
         \A g \in Allocated : g \in written \/ depth[g] > TreeHeight
                                \/ visit_count'[g] = visit_count[g]
  PROVE  Written'
<1>1. Allocated' = Allocated
  BY DEF Allocated
<1>2. \A g \in written \ Scenarios : Stored(g)'
  BY DEF Written, Stored
<1>3. \A g \in Allocated : depth[g] \in Int
  BY SizesAssumption DEF IndInv, TypeOK, Allocated, Slots
<1>4. \A g \in Allocated : visit_count'[g] > 0 /\ depth[g] <= TreeHeight => g \in written
  BY <1>3, SizesAssumption DEF Written
<1> QED BY <1>1, <1>2, <1>4 DEF Written

(* The node on which a descent stands has been written.                    *)
LEMMA CurWritten ==
  ASSUME StateInv, pc = "explore"
  PROVE  cur \in written
BY DEF StateInv, IndInv, Control, Written, Reached, TypeOK

LEMMA InitState == Init => StateInv
<1> SUFFICES ASSUME Init PROVE StateInv
  OBVIOUS
<1>1. Allocated = {} /\ written = {} /\ pc = "idle"
  BY DEF Init, Allocated
<1> QED BY <1>1, InitInv DEF StateInv, Written, Reached

LEMMA BeginSearchState == StateInv /\ BeginSearch => StateInv'
<1> SUFFICES ASSUME StateInv, BeginSearch PROVE StateInv'
  OBVIOUS
<1>1. Allocated' = Scenarios /\ written' = Scenarios
  BY DEF BeginSearch, Allocated, Scenarios
<1>2. \A g \in Scenarios : visit_count'[g] = 0
  BY SizesAssumption DEF BeginSearch, InitNodes, Scenarios, Slots
<1>3. Written'
  BY <1>1, <1>2 DEF Written
<1>4. Reached'
  BY DEF BeginSearch, Reached
<1> QED BY <1>3, <1>4, BeginSearchInv DEF StateInv

LEMMA EndSearchState == StateInv /\ EndSearch => StateInv'
<1> SUFFICES ASSUME StateInv, EndSearch PROVE StateInv'
  OBVIOUS
<1>1. Written'
  BY WrittenKept DEF StateInv, EndSearch, pool, ghosts
<1>2. Reached'
  BY DEF EndSearch, Reached
<1> QED BY <1>1, <1>2, EndSearchInv DEF StateInv

LEMMA BeginIterationState == StateInv /\ BeginIteration => StateInv'
<1> SUFFICES ASSUME StateInv, BeginIteration PROVE StateInv'
  OBVIOUS
<1>1. Written'
  BY WrittenKept DEF StateInv, BeginIteration, pool, ghosts
<1>2. Reached'
  BY DEF BeginIteration, Reached, Scenarios
<1> QED BY <1>1, <1>2, BeginIterationInv DEF StateInv

LEMMA SelectState ==
  ASSUME StateInv, pc = "explore", NEW a, Select(cur, a), IndInv',
         UNCHANGED <<pool, dom, iter, round, ghosts>>
  PROVE  StateInv'
<1>1. Written'
  BY WrittenKept DEF StateInv, Select, pool, ghosts
<1>2. lane \in Scenarios /\ result'[lane].parent = cur
  BY DEF StateInv, IndInv, TypeOK, Select
<1>3. \A s \in Scenarios \ {lane} : result'[s] = result[s]
  BY DEF StateInv, IndInv, TypeOK, Select
<1>4. \A s \in Scenarios : s <= lane => result'[s].parent \in written'
  BY <1>2, <1>3, CurWritten DEF StateInv, Reached, ghosts, Scenarios
<1>5. Reached'
  <2>1. CASE lane < NumScenarios - 1
    BY <1>2, <1>4, <2>1 DEF Select, Reached, Scenarios
  <2>2. CASE ~(lane < NumScenarios - 1)
    <3>1. lane = NumScenarios - 1 /\ lane' = 0 /\ pc' = "expand"
      BY <1>2, <2>2, SizesAssumption DEF Scenarios, Select
    <3> QED BY <1>4, <3>1, SizesAssumption DEF Reached, Scenarios
  <2> QED BY <2>1, <2>2
<1> QED BY <1>1, <1>5 DEF StateInv

LEMMA DescendState ==
  ASSUME CandidatesExist, StateInv, Descend
  PROVE  StateInv'
<1>1. cur \in Allocated /\ CandidatesOf(cur) \in Seq(Actions)
  BY CandidatesFact DEF StateInv, IndInv, Control, Descend, Descending
<1>2. CandidatesOf(cur) # <<>>
  <2>1. depth[cur] \in 0..(TreeHeight + 1)
    BY <1>1, SizesAssumption DEF StateInv, IndInv, TypeOK, Allocated, Slots
  <2> QED BY <1>1, <2>1, CandidatesFact DEF CandidatesExist, StateInv
<1>3. PICK i \in 1..Len(CandidatesOf(cur)) : cur' = child_base[cur] + CandidatesOf(cur)[i]
  BY <1>2 DEF Descend
<1>4. visit_count[cur'] # 0
  BY <1>3 DEF Descend, Unvisited
<1>5. IndInv'
  BY DescendInv DEF StateInv
<1>6. visit_count'[cur'] > 0
  <2>1. cur' \in Slots
    BY <1>5, SizesAssumption DEF IndInv, TypeOK, Control, Descend, Descending, Allocated, Slots
  <2> QED BY <1>4, <2>1 DEF Descend, pool, StateInv, IndInv, TypeOK
<1>7. Written'
  BY WrittenKept DEF StateInv, Descend, pool, ghosts
<1>8. Reached'
  BY <1>6 DEF StateInv, Reached, Descend, Descending, pool, ghosts
<1> QED BY <1>5, <1>7, <1>8 DEF StateInv

(* What one lane of a batch finds and leaves: its slot is a child of the   *)
(* selected node, and expanding a child again writes what it already holds. *)
LEMMA ExpandStored ==
  ASSUME StateInv, ExpandLane
  PROVE  LET p     == result[lane].parent
             a     == result[lane].action
             base  == IF NewBlock(p) THEN total ELSE child_base[p]
             child == ChildSlot(base, a)
             valid == depth[p] < TreeHeight /\ active_flag[p]
             out   == Step[<<dom[p], a>>] IN
         /\ p \in written /\ p \in Allocated /\ lane \in Scenarios /\ a \in Actions
         /\ \A s \in Scenarios : Located(s)
         /\ child \in Allocated' \ Scenarios /\ child \in Slots /\ child # p
         /\ parent_idx'[child] = p
         /\ child_base'[p] # Invalid /\ child = child_base'[p] + a
         /\ written' = IF valid THEN written \union {child} ELSE written
         /\ \A g \in written : dom'[g] = dom[g] /\ active_flag'[g] = active_flag[g]
<1> DEFINE p == result[lane].parent
           a == result[lane].action
           B == IF NewBlock(p) THEN Block(total) ELSE {}
           child == ChildSlot(IF NewBlock(p) THEN total ELSE child_base[p], a)
           valid == depth[p] < TreeHeight /\ active_flag[p]
           out == Step[<<dom[p], a>>]
<1>1. /\ p \in Slots /\ p \in Allocated
      /\ Allocated' = Allocated \union B
      /\ B \subseteq Slots /\ B \intersect Allocated = {} /\ B \intersect Scenarios = {}
      /\ depth' = [g \in Slots |-> IF g \in B THEN depth[p] + 1 ELSE depth[g]]
      /\ parent_idx' = [g \in Slots |-> IF g \in B THEN p ELSE parent_idx[g]]
      /\ child_base' = [g \in Slots |->
           IF g \in B THEN Invalid
           ELSE IF g = p /\ NewBlock(p) THEN total ELSE child_base[g]]
      /\ NewBlock(p) => total \in Slots
  BY ExpandPool DEF StateInv
<1>2. /\ visit_count' = [g \in Slots |-> IF g \in B THEN 0 ELSE visit_count[g]]
      /\ active_flag' = [g \in Slots |->
           IF g = child /\ valid THEN out.active ELSE (g \in B) \/ active_flag[g]]
      /\ dom' = IF valid THEN [dom EXCEPT ![child] = out.state] ELSE dom
      /\ written' = IF valid THEN written \union {child} ELSE written
      /\ result' = result
  BY DEF ExpandLane, InitNodes
<1>3. /\ Written /\ Reached /\ IndInv /\ pc = "expand" /\ lane \in Scenarios
      /\ p \in written /\ a \in Actions
      /\ \A s \in Scenarios : Located(s)
      /\ Allocated \subseteq Slots
      /\ Invalid \notin Slots
  <2>1. Written /\ Reached /\ IndInv /\ pc = "expand" /\ lane \in Scenarios
    BY DEF ExpandLane, StateInv, IndInv, TypeOK
  <2>2. p \in written /\ \A s \in Scenarios : Located(s)
    BY <2>1 DEF Reached, IndInv, Control
  <2>3. a \in Actions
    BY <2>1 DEF IndInv, TypeOK
  <2>4. Allocated \subseteq Slots /\ Invalid \notin Slots
    BY <2>1, SizesAssumption DEF IndInv, TypeOK, Allocated, Slots, Invalid
  <2> QED BY <2>1, <2>2, <2>3, <2>4
<1>4. /\ child \in Allocated' \ Scenarios /\ child \in Slots
      /\ parent_idx'[child] = p
      /\ child_base'[p] # Invalid
      /\ child = child_base'[p] + a
      /\ child # p /\ p \notin B
  <2>1. CASE NewBlock(p)
    <3>1. child = total + a /\ child \in Block(total)
      BY <1>1, <1>3, <2>1, SizesAssumption DEF ChildSlot, Block, Actions, Slots
    <3>2. child \in B /\ p \notin B
      BY <1>1, <2>1, <3>1
    <3> HIDE DEF B, child
    <3> QED BY <1>1, <1>3, <2>1, <3>1, <3>2
  <2>2. CASE ~NewBlock(p)
    <3>1. /\ child \in Allocated \ Scenarios /\ parent_idx[child] = p
          /\ depth[child] = depth[p] + 1
      BY <1>1, <1>3, <2>2, ChildFact DEF NewBlock, ChildSlot
    <3>2. child # p
      BY <1>1, <3>1 DEF StateInv, IndInv, TypeOK
    <3>3. child = child_base[p] + a /\ B = {}
      BY <2>2 DEF ChildSlot
    <3> HIDE DEF B, child
    <3> QED BY <1>1, <1>3, <2>2, <3>1, <3>2, <3>3 DEF NewBlock
  <2> QED BY <2>1, <2>2
\* Expanding a child again writes what it already holds.
<1>5. ASSUME child \in written, valid
      PROVE  dom[child] = out.state /\ active_flag[child] = out.active
  <2>1. child \in Allocated /\ Stored(child)
    BY <1>3, <1>4, <1>5 DEF Written
  <2>2. parent_idx[child] = p /\ child_base[p] = child_base'[p]
    <3> HIDE DEF child, B
    <3>1. child \notin B
      BY <1>1, <2>1
    <3>2. parent_idx[child] = p
      BY <1>1, <1>3, <1>4, <2>1, <3>1
    <3>3. child_base[p] # Invalid
      BY <1>3, <1>4, <2>1, <3>2 DEF IndInv, Shape, Node
    <3> QED BY <1>1, <1>4, <3>2, <3>3 DEF NewBlock
  <2>3. child - child_base[p] = a
    BY <1>1, <1>3, <1>4, <2>1, <2>2 DEF IndInv, TypeOK, Slots, Actions, Invalid
  <2> HIDE DEF child, a, out
  <2>4. out = Step[<<dom[p], a>>]
    BY DEF out
  <2> QED BY <2>1, <2>2, <2>3, <2>4 DEF Stored
<1> HIDE DEF B, child, out
<1>6. \A g \in written : dom'[g] = dom[g] /\ active_flag'[g] = active_flag[g]
  <2> TAKE g \in written
  <2>1. g \in Slots /\ g \notin B
    BY <1>1, <1>3 DEF Written
  <2>2. CASE g = child /\ valid
    BY <1>2, <1>3, <1>4, <1>5, <2>1, <2>2 DEF IndInv, TypeOK
  <2>3. CASE ~(g = child /\ valid)
    <3>1. active_flag'[g] = active_flag[g]
      BY <1>2, <2>1, <2>3 DEF StateInv, IndInv, TypeOK
    <3>2. dom'[g] = dom[g]
      BY <1>2, <1>3, <2>1, <2>3 DEF IndInv, TypeOK
    <3> QED BY <3>1, <3>2
  <2> QED BY <2>2, <2>3
<1>7. written' = IF valid THEN written \union {child} ELSE written
  BY <1>2
<1> HIDE DEF p, a, valid
<1>8. /\ p \in written /\ p \in Allocated /\ lane \in Scenarios /\ a \in Actions
      /\ \A s \in Scenarios : Located(s)
      /\ child \in Allocated' \ Scenarios /\ child \in Slots /\ child # p
      /\ parent_idx'[child] = p
      /\ child_base'[p] # Invalid /\ child = child_base'[p] + a
  BY <1>1, <1>3, <1>4
<1> QED BY <1>6, <1>7, <1>8 DEF p, a, child, valid, out

LEMMA ExpandLaneState == StateInv /\ ExpandLane => StateInv'
<1> SUFFICES ASSUME StateInv, ExpandLane PROVE StateInv'
  OBVIOUS
<1> DEFINE p == result[lane].parent
           a == result[lane].action
           B == IF NewBlock(p) THEN Block(total) ELSE {}
           child == ChildSlot(IF NewBlock(p) THEN total ELSE child_base[p], a)
           valid == depth[p] < TreeHeight /\ active_flag[p]
           out == Step[<<dom[p], a>>]
<1>1. /\ p \in Slots /\ p \in Allocated
      /\ Allocated' = Allocated \union B
      /\ B \subseteq Slots /\ B \intersect Allocated = {} /\ B \intersect Scenarios = {}
      /\ depth' = [g \in Slots |-> IF g \in B THEN depth[p] + 1 ELSE depth[g]]
      /\ parent_idx' = [g \in Slots |-> IF g \in B THEN p ELSE parent_idx[g]]
      /\ child_base' = [g \in Slots |->
           IF g \in B THEN Invalid
           ELSE IF g = p /\ NewBlock(p) THEN total ELSE child_base[g]]
      /\ NewBlock(p) => total \in Slots
  BY ExpandPool DEF StateInv
<1>2. /\ visit_count' = [g \in Slots |-> IF g \in B THEN 0 ELSE visit_count[g]]
      /\ active_flag' = [g \in Slots |->
           IF g = child /\ valid THEN out.active ELSE (g \in B) \/ active_flag[g]]
      /\ dom' = IF valid THEN [dom EXCEPT ![child] = out.state] ELSE dom
      /\ written' = IF valid THEN written \union {child} ELSE written
      /\ result' = result
  BY DEF ExpandLane, InitNodes
<1>3. /\ Written /\ Reached /\ IndInv /\ pc = "expand" /\ lane \in Scenarios
      /\ p \in written /\ a \in Actions
      /\ \A s \in Scenarios : Located(s)
      /\ Allocated \subseteq Slots
      /\ Invalid \notin Slots
  <2>1. Written /\ Reached /\ IndInv /\ pc = "expand"
    BY DEF ExpandLane, StateInv
  <2>2. Allocated \subseteq Slots /\ Invalid \notin Slots
    BY <2>1, SizesAssumption DEF IndInv, TypeOK, Allocated, Slots, Invalid
  <2> QED BY <2>1, <2>2, ExpandStored
<1>4. /\ child \in Allocated' \ Scenarios /\ child \in Slots
      /\ parent_idx'[child] = p
      /\ child_base'[p] # Invalid
      /\ child = child_base'[p] + a
      /\ child # p
  BY ExpandStored
<1>6. \A g \in written : dom'[g] = dom[g] /\ active_flag'[g] = active_flag[g]
  BY ExpandStored
<1> HIDE DEF B, child, out
<1>7. \A g \in written' \ Scenarios : Stored(g)'
  <2> TAKE g \in written' \ Scenarios
  <2>1. CASE g \in written
    <3>1. Stored(g) /\ g \in Allocated /\ Node(g)
      BY <1>3, <2>1 DEF Written, IndInv, Shape
    <3> DEFINE q == parent_idx[g]
    <3>2. q \in written /\ child_base[q] # Invalid
      BY <3>1 DEF Stored, Node
    <3>3. q \in Allocated /\ q \notin B /\ g \notin B
      BY <1>1, <1>3, <3>1, <3>2 DEF Written
    <3>4. parent_idx'[g] = q /\ child_base'[q] = child_base[q]
      BY <1>1, <1>3, <3>1, <3>2, <3>3 DEF NewBlock
    <3>5. /\ dom'[g] = dom[g] /\ active_flag'[g] = active_flag[g] /\ dom'[q] = dom[q]
          /\ q \in written'
      BY <1>2, <1>6, <2>1, <3>2
    <3> QED BY <3>1, <3>4, <3>5 DEF Stored
  <2>2. CASE g \notin written
    <3>1. g = child /\ valid
      BY <1>2, <2>2
    <3>2. dom'[g] = out.state /\ active_flag'[g] = out.active
      BY <1>2, <1>3, <1>4, <3>1 DEF IndInv, TypeOK
    <3>3. dom'[p] = dom[p] /\ p \in written'
      BY <1>2, <1>3, <1>6
    <3>4. g - child_base'[p] = a
      <4>1. child_base'[p] \in Int
        BY <1>1, <1>3, <1>4 DEF IndInv, TypeOK, Slots, Invalid
      <4>2. a \in Int
        BY <1>3 DEF Actions
      <4> HIDE DEF p, a
      <4> QED BY <1>4, <3>1, <4>1, <4>2
    <3>5. out = Step[<<dom[p], a>>]
      BY DEF out
    <3> QED BY <1>4, <3>1, <3>2, <3>3, <3>4, <3>5 DEF Stored
  <2> QED BY <2>1, <2>2
<1>8. Written'
  <2>1. Scenarios \subseteq written' /\ written' \subseteq Allocated'
    BY <1>1, <1>2, <1>3, <1>4 DEF Written
  <2>2. \A g \in Allocated' \ Scenarios : parent_idx'[g] \in written'
    BY <1>1, <1>2, <1>3 DEF Written
  <2>3. \A g \in Allocated' :
          visit_count'[g] > 0 /\ depth'[g] <= TreeHeight => g \in written'
    BY <1>1, <1>2, <1>3 DEF Written
  <2> QED BY <1>7, <2>1, <2>2, <2>3 DEF Written
<1>9. ASSUME NEW s \in Scenarios, s # lane
      PROVE  /\ child_base'[result[s].parent] = child_base[result[s].parent]
             /\ Expandable(result[s].parent)' <=> Expandable(result[s].parent)
  <2> DEFINE q == result[s].parent
  <2>1. q \in Allocated /\ owner[q] = s /\ owner[p] = lane /\ q \in written
    BY <1>3 DEF Located, Reached
  <2>2. q # p /\ q \notin B /\ q \in Slots
    BY <1>1, <1>3, <1>9, <2>1
  <2>3. child_base'[q] = child_base[q] /\ depth'[q] = depth[q]
    BY <1>1, <2>2
  <2>4. active_flag'[q] = active_flag[q]
    BY <1>6, <2>1
  <2>5. result' = result
    BY <1>2
  <2> QED BY <2>3, <2>4, <2>5 DEF Expandable
<1>10. depth'[p] = depth[p] /\ active_flag'[p] = active_flag[p]
  BY <1>1, <1>3, <1>4, <1>6
<1>11. \A s \in Scenarios :
         /\ result'[s].parent \in written'
         /\ s <= lane =>
              /\ child_base'[result'[s].parent] # Invalid
              /\ Expandable(result[s].parent)' => ChildOf(s)' \in written'
  <2> TAKE s \in Scenarios
  <2>1. result'[s].parent \in written'
    BY <1>2, <1>3 DEF Reached
  <2>2. CASE s = lane
    <3>1. child_base'[result'[s].parent] # Invalid /\ ChildOf(s)' = child
      BY <1>2, <1>4, <2>2 DEF ChildOf
    <3>2. Expandable(result[s].parent)' => valid
      BY <1>2, <1>10, <2>2 DEF Expandable
    <3> QED BY <1>2, <2>1, <3>1, <3>2
  <2>3. CASE s # lane
    <3>1. s <= lane => s < lane
      BY <2>3, <1>3 DEF Scenarios
    <3>2. ChildOf(s)' = ChildOf(s)
      BY <1>2, <1>9, <2>3 DEF ChildOf
    <3> QED BY <1>2, <1>3, <1>9, <2>1, <2>3, <3>1, <3>2 DEF Reached
  <2> QED BY <2>2, <2>3
<1>12. Reached'
  <2>1. CASE lane < NumScenarios - 1
    <3>1. lane' = lane + 1 /\ pc' = "expand"
      BY <1>3, <2>1 DEF ExpandLane
    <3>2. \A s \in Scenarios : s < lane' => s <= lane
      BY <1>3, <3>1 DEF Scenarios
    <3> QED BY <1>11, <3>1, <3>2 DEF Reached, Expandable
  <2>2. CASE ~(lane < NumScenarios - 1)
    <3>1. pc' = "backprop" /\ cur' = cur /\ cur = Invalid /\ \A s \in Scenarios : s <= lane
      BY <1>3, <2>2, SizesAssumption DEF ExpandLane, IndInv, Control, Scenarios
    <3> QED BY <1>11, <3>1 DEF Reached, Expandable
  <2> QED BY <2>1, <2>2
<1> QED BY <1>3, <1>8, <1>12, ExpandLaneInv DEF StateInv

LEMMA NextLaneState ==
  ASSUME StateInv, pc = "backprop", NextLane, IndInv', Written',
         UNCHANGED <<depth, child_base, active_flag, result, written>>
  PROVE  StateInv'
<1>1. pc' \in {"backprop", "loop"} /\ cur' = Invalid
  BY DEF NextLane
<1>2. Reached'
  BY <1>1 DEF StateInv, Reached, Expandable, ChildOf
<1> QED BY <1>2 DEF StateInv

LEMMA ClimbState ==
  ASSUME StateInv, pc = "backprop", IndInv', Written',
         depth[cur'] <= TreeHeight => cur' \in written,
         UNCHANGED <<pc, depth, child_base, active_flag, result, written>>
  PROVE  StateInv'
<1>1. Reached'
  BY DEF StateInv, Reached, Expandable, ChildOf
<1> QED BY <1>1 DEF StateInv

LEMMA BeginBackPropState == StateInv /\ BeginBackProp => StateInv'
<1> SUFFICES ASSUME StateInv, BeginBackProp PROVE StateInv'
  OBVIOUS
<1> DEFINE p == result[lane].parent
<1>1. IndInv'
  BY BeginBackPropInv DEF StateInv
<1>2. Written'
  BY WrittenKept DEF StateInv, BeginBackProp, pool, ghosts
<1>3. p \in Allocated /\ p \in written /\ lane \in Scenarios /\ result[lane].action \in Actions
  BY DEF StateInv, IndInv, TypeOK, Control, Located, Reached, BeginBackProp
<1>4. CASE active_flag[p] /\ child_base[p] = Invalid
  BY <1>1, <1>2, <1>4, NextLaneState DEF BeginBackProp, pool, ghosts
<1>5. CASE active_flag[p] /\ child_base[p] # Invalid
  <2>1. cur' = ChildOf(lane)
    BY <1>5 DEF BeginBackProp, ChildOf
  <2>2. depth[cur'] = depth[p] + 1
    BY <1>3, <1>5, <2>1, ChildFact DEF ChildOf, StateInv
  <2>3. depth[p] \in Nat
    BY <1>3, SizesAssumption DEF StateInv, IndInv, TypeOK, Allocated, Slots
  <2>4. depth[cur'] <= TreeHeight => Expandable(p)
    BY <1>5, <2>2, <2>3, SizesAssumption DEF Expandable
  <2>5. depth[cur'] <= TreeHeight => cur' \in written
    BY <1>3, <2>1, <2>4 DEF StateInv, Reached, BeginBackProp
  <2> QED BY <1>1, <1>2, <1>5, <2>5, ClimbState DEF BeginBackProp, pool, ghosts
<1>6. CASE ~active_flag[p]
  <2>1. cur' = p
    BY <1>6 DEF BeginBackProp
  <2> QED BY <1>1, <1>2, <1>3, <1>6, <2>1, ClimbState DEF BeginBackProp, pool, ghosts
<1> QED BY <1>4, <1>5, <1>6

LEMMA BackPropLevelState == StateInv /\ BackPropLevel => StateInv'
<1> SUFFICES ASSUME StateInv, BackPropLevel PROVE StateInv'
  OBVIOUS
<1>1. IndInv'
  BY BackPropLevelInv DEF StateInv
<1>2. cur \in Allocated /\ cur \in Slots /\ depth[cur] \in Nat
  BY SizesAssumption DEF BackPropLevel, StateInv, IndInv, TypeOK, Control, Allocated, Slots
<1>3. cur \in written \/ depth[cur] > TreeHeight
  BY <1>2, SizesAssumption DEF BackPropLevel, StateInv, Reached
<1>4. Written'
  <2>1. \A g \in Allocated : g # cur => visit_count'[g] = visit_count[g]
    BY SizesAssumption DEF BackPropLevel, StateInv, IndInv, TypeOK, Allocated, Slots
  <2> QED BY <1>3, <2>1, WrittenKept DEF StateInv, BackPropLevel, ghosts
<1>5. CASE NextLane
  BY <1>1, <1>4, <1>5, NextLaneState DEF BackPropLevel, ghosts
<1>6. CASE parent_idx[cur] # Invalid /\ cur' = parent_idx[cur] /\ UNCHANGED <<pc, iter, lane>>
  <2>1. cur \notin Scenarios
    BY <1>2, <1>6 DEF StateInv, IndInv, Shape, Node
  <2>2. cur' \in written
    BY <1>2, <1>6, <2>1 DEF StateInv, Written
  <2> QED BY <1>1, <1>4, <1>6, <2>2, ClimbState DEF BackPropLevel, ghosts
<1> QED BY <1>5, <1>6 DEF BackPropLevel

-----------------------------------------------------------------------------
(* Where every node has a candidate, the search keeps StateInv.            *)
LEMMA StateStep ==
  ASSUME CandidatesExist, StateInv, [Next]_vars
  PROVE  StateInv'
<1>1. IndInv'
  <2>1. CASE UNCHANGED vars
    <3>1. Shape' /\ Owners'
      BY <2>1, ShapeKept DEF StateInv, IndInv, vars, pool, ghosts
    <3>2. TypeOK'
      BY <2>1 DEF StateInv, IndInv, TypeOK, vars, pool, control, ghosts
    <3>3. CacheInv' /\ Control'
      BY <2>1 DEF StateInv, IndInv, CacheInv, Control, Located, Allocated,
                  vars, pool, control, ghosts
    <3> QED BY <3>1, <3>2, <3>3 DEF IndInv
  <2> QED BY <2>1, BeginSearchInv, EndSearchInv, BeginIterationInv, SelectRootInv,
        SelectLeafInv, SelectUnvisitedInv, DescendInv, ExpandLaneInv,
        BeginBackPropInv, BackPropLevelInv DEF Next, Work, StateInv
<1>2. CASE UNCHANGED vars
  <2>1. Written'
    BY <1>2, WrittenKept DEF StateInv, vars, pool, control, ghosts
  <2>2. Reached'
    BY <1>2 DEF StateInv, Reached, Expandable, ChildOf, vars, pool, control, ghosts
  <2> QED BY <1>1, <2>1, <2>2 DEF StateInv
<1>3. CASE SelectRoot
  BY <1>1, <1>3, SelectState DEF SelectRoot
<1>4. CASE SelectLeaf
  BY <1>1, <1>4, SelectState DEF SelectLeaf, Descending
<1>5. CASE SelectUnvisited
  BY <1>1, <1>5, SelectState DEF SelectUnvisited, Descending
<1>6. CASE Descend
  BY <1>6, DescendState
<1>7. CASE BeginSearch \/ EndSearch \/ BeginIteration \/ ExpandLane
             \/ BeginBackProp \/ BackPropLevel
  BY <1>7, BeginSearchState, EndSearchState, BeginIterationState, ExpandLaneState,
     BeginBackPropState, BackPropLevelState
<1> QED BY <1>2, <1>3, <1>4, <1>5, <1>6, <1>7 DEF Next, Work

THEOREM StatesCorrect == ASSUME CandidatesExist PROVE SafeSpec => []StateInv
<1>1. StateInv /\ [Next]_vars => StateInv'
  BY StateStep
<1> QED BY InitState, <1>1, PTL DEF SafeSpec

(* The batch reads only domain states that this search has stored.         *)
THEOREM FreshDomainStateHolds ==
  ASSUME CandidatesExist PROVE SafeSpec => []FreshDomainState
<1>1. StateInv => FreshDomainState
  <2> SUFFICES ASSUME StateInv PROVE FreshDomainState
    OBVIOUS
  <2>1. pc = "explore" => cur \in written \intersect Allocated
    BY CurWritten DEF StateInv, Written
  <2>2. pc = "expand" => \A s \in Scenarios : result[s].parent \in written \intersect Allocated
    BY DEF StateInv, Reached, Written
  <2>3. lane..(NumScenarios - 1) \subseteq Scenarios
    BY SizesAssumption DEF StateInv, IndInv, TypeOK, Scenarios
  <2> QED BY <2>1, <2>2, <2>3 DEF FreshDomainState
<1> QED BY <1>1, StatesCorrect, PTL

(* Every stored state is its parent's successor, whatever the batch wrote  *)
(* before and after it.                                                    *)
THEOREM StatesFollowHolds ==
  ASSUME CandidatesExist PROVE SafeSpec => []StatesFollowTransitions
<1>1. StateInv => StatesFollowTransitions
  BY DEF StateInv, Written, Stored, StatesFollowTransitions
<1> QED BY <1>1, StatesCorrect, PTL

(* UCB never takes the logarithm of zero visits.                           *)
THEOREM UcbParentVisitedHolds ==
  ASSUME CandidatesExist PROVE SafeSpec => []UcbParentVisited
<1>1. StateInv => UcbParentVisited
  <2> SUFFICES ASSUME StateInv, pc = "explore", cur = lane => visit_count[cur] # 0
               PROVE  visit_count[cur] > 0
    BY DEF UcbParentVisited
  <2>1. cur \in Slots
    BY SizesAssumption DEF StateInv, IndInv, TypeOK, Control, Allocated, Slots
  <2>2. visit_count[cur] \in Nat
    BY <2>1 DEF StateInv, IndInv, TypeOK
  <2> QED BY <2>2 DEF StateInv, Reached
<1> QED BY <1>1, StatesCorrect, PTL

-----------------------------------------------------------------------------
(* Terminal nodes.  An expanded node has an active parent, a back-up comes *)
(* up below active nodes only, and so nothing below a terminal node has    *)
(* been visited.                                                           *)
TerminalInv ==
  /\ \A g \in written \ Scenarios : active_flag[parent_idx[g]]
  /\ pc = "backprop" /\ cur # Invalid /\ cur \notin Scenarios => active_flag[parent_idx[cur]]
  /\ \A g \in Allocated \ Scenarios : ~active_flag[parent_idx[g]] => visit_count[g] = 0

LEMMA TerminalExpand == StateInv /\ TerminalInv /\ ExpandLane => TerminalInv'
<1> SUFFICES ASSUME StateInv, TerminalInv, ExpandLane PROVE TerminalInv'
  OBVIOUS
<1> DEFINE p == result[lane].parent
           a == result[lane].action
           B == IF NewBlock(p) THEN Block(total) ELSE {}
           child == ChildSlot(IF NewBlock(p) THEN total ELSE child_base[p], a)
           valid == depth[p] < TreeHeight /\ active_flag[p]
<1>1. /\ Allocated' = Allocated \union B
      /\ B \subseteq Slots /\ B \intersect Allocated = {}
      /\ parent_idx' = [g \in Slots |-> IF g \in B THEN p ELSE parent_idx[g]]
  BY ExpandPool DEF StateInv
<1>2. /\ p \in written /\ child \notin Scenarios /\ parent_idx'[child] = p
      /\ written' = IF valid THEN written \union {child} ELSE written
      /\ \A g \in written : active_flag'[g] = active_flag[g]
  BY ExpandStored
<1>3. visit_count' = [g \in Slots |-> IF g \in B THEN 0 ELSE visit_count[g]]
  BY DEF ExpandLane, InitNodes
<1>4. /\ written \subseteq Allocated /\ Allocated \subseteq Slots
      /\ \A g \in Allocated \ Scenarios : parent_idx[g] \in written
  BY SizesAssumption DEF StateInv, Written, IndInv, TypeOK, Allocated, Slots
<1>5. pc' = "backprop" => cur' = Invalid
  BY DEF ExpandLane, StateInv, IndInv, Control
<1>6. valid => active_flag[p]
  OBVIOUS
<1> HIDE DEF B, child, valid, p, a
<1>7. \A g \in Allocated \ Scenarios : /\ g \in Slots /\ g \notin B
                                      /\ parent_idx'[g] = parent_idx[g]
                                      /\ active_flag'[parent_idx[g]] = active_flag[parent_idx[g]]
                                      /\ visit_count'[g] = visit_count[g]
  BY <1>1, <1>2, <1>3, <1>4
<1>8. \A g \in written' \ Scenarios : active_flag'[parent_idx'[g]]
  <2> TAKE g \in written' \ Scenarios
  <2>1. CASE g \in written
    BY <1>4, <1>7, <2>1 DEF TerminalInv
  <2>2. CASE g \notin written
    BY <1>2, <1>6, <2>2
  <2> QED BY <2>1, <2>2
<1>9. \A g \in Allocated' \ Scenarios :
        ~active_flag'[parent_idx'[g]] => visit_count'[g] = 0
  <2> TAKE g \in Allocated' \ Scenarios
  <2>1. CASE g \in B
    BY <1>1, <1>3, <2>1
  <2>2. CASE g \in Allocated
    BY <1>7, <2>2 DEF TerminalInv
  <2> QED BY <1>1, <2>1, <2>2
<1> QED BY <1>5, <1>8, <1>9 DEF TerminalInv

LEMMA TerminalBackProp == StateInv /\ TerminalInv /\ BackPropLevel => TerminalInv'
<1> SUFFICES ASSUME StateInv, TerminalInv, BackPropLevel PROVE TerminalInv'
  OBVIOUS
<1>1. /\ cur \in Allocated /\ cur \in Slots /\ pc = "backprop" /\ cur # Invalid
      /\ Allocated \subseteq Slots
  BY SizesAssumption DEF BackPropLevel, StateInv, IndInv, TypeOK, Control, Allocated, Slots
<1>2. /\ UNCHANGED <<total, parent_idx, active_flag, written>>
      /\ visit_count' = [visit_count EXCEPT ![cur] = @ + 1]
  BY DEF BackPropLevel, ghosts
<1>3. Allocated' = Allocated
  BY <1>2 DEF Allocated
<1>4. cur \notin Scenarios => active_flag[parent_idx[cur]]
  BY <1>1 DEF TerminalInv
<1>5. \A g \in Allocated \ Scenarios : ~active_flag[parent_idx[g]] => visit_count'[g] = 0
  <2> SUFFICES ASSUME NEW g \in Allocated \ Scenarios, ~active_flag[parent_idx[g]]
               PROVE  visit_count'[g] = 0
    OBVIOUS
  <2>1. g # cur
    BY <1>4
  <2>2. visit_count'[g] = visit_count[g]
    BY <1>1, <1>2, <2>1 DEF StateInv, IndInv, TypeOK
  <2> QED BY <2>2 DEF TerminalInv
<1>6. pc' = "backprop" /\ cur' # Invalid /\ cur' \notin Scenarios => active_flag[parent_idx[cur']]
  <2>1. CASE NextLane
    BY <2>1 DEF NextLane
  <2>2. CASE parent_idx[cur] # Invalid /\ cur' = parent_idx[cur]
    <3>1. cur \notin Scenarios
      BY <1>1, <2>2 DEF StateInv, IndInv, Shape, Node
    <3>2. cur' \in written
      BY <1>1, <2>2, <3>1 DEF StateInv, Written
    <3> QED BY <3>2 DEF TerminalInv
  <2> QED BY <2>1, <2>2 DEF BackPropLevel
<1> QED BY <1>2, <1>3, <1>5, <1>6 DEF TerminalInv

LEMMA TerminalBegin == StateInv /\ TerminalInv /\ BeginBackProp => TerminalInv'
<1> SUFFICES ASSUME StateInv, TerminalInv, BeginBackProp PROVE TerminalInv'
  OBVIOUS
<1> DEFINE p == result[lane].parent
<1>1. UNCHANGED <<total, parent_idx, active_flag, visit_count, written>>
  BY DEF BeginBackProp, pool, ghosts
<1>2. Allocated' = Allocated
  BY <1>1 DEF Allocated
<1>3. p \in Allocated /\ p \in written /\ lane \in Scenarios /\ result[lane].action \in Actions
  BY DEF StateInv, IndInv, TypeOK, Control, Located, Reached, BeginBackProp
<1>4. pc' = "backprop" /\ cur' # Invalid /\ cur' \notin Scenarios => active_flag[parent_idx[cur']]
  <2>1. CASE NextLane
    BY <2>1 DEF NextLane
  <2>2. CASE active_flag[p] /\ child_base[p] # Invalid
    <3>1. cur' = child_base[p] + result[lane].action
      BY <2>2 DEF BeginBackProp
    <3>2. parent_idx[cur'] = p
      BY <1>3, <2>2, <3>1, ChildFact DEF StateInv
    <3> QED BY <2>2, <3>2
  <2>3. CASE ~active_flag[p]
    <3>1. cur' = p
      BY <2>3 DEF BeginBackProp
    <3> QED BY <1>3, <3>1 DEF TerminalInv
  <2> QED BY <2>1, <2>2, <2>3 DEF BeginBackProp
<1> QED BY <1>1, <1>2, <1>4 DEF TerminalInv

LEMMA TerminalStep == StateInv /\ TerminalInv /\ [Next]_vars => TerminalInv'
<1> SUFFICES ASSUME StateInv, TerminalInv, [Next]_vars PROVE TerminalInv'
  OBVIOUS
<1>1. CASE BeginSearch
  <2>1. Allocated' = Scenarios /\ written' = Scenarios /\ pc' = "loop"
    BY <1>1, SizesAssumption DEF BeginSearch, Allocated, Scenarios
  <2> QED BY <2>1 DEF TerminalInv
<1>2. ASSUME UNCHANGED <<total, parent_idx, active_flag, visit_count, written>>,
             pc' # "backprop" \/ UNCHANGED <<pc, cur>>
      PROVE  TerminalInv'
  BY <1>2 DEF TerminalInv, Allocated
<1>3. CASE EndSearch \/ BeginIteration \/ SelectRoot \/ SelectLeaf \/ SelectUnvisited
             \/ Descend \/ UNCHANGED vars
  <2>1. pc' # "backprop" \/ UNCHANGED <<pc, cur>>
    BY <1>3 DEF EndSearch, BeginIteration, SelectRoot, SelectLeaf, SelectUnvisited, Descend,
                Descending, Select, vars, control
  <2>2. UNCHANGED <<total, parent_idx, active_flag, visit_count, written>>
    BY <1>3 DEF EndSearch, BeginIteration, SelectRoot, SelectLeaf, SelectUnvisited, Descend,
                pool, ghosts, vars
  <2> QED BY <1>2, <2>1, <2>2
<1> QED BY <1>1, <1>3, TerminalExpand, TerminalBegin, TerminalBackProp DEF Next, Work

LEMMA InitTerminal == Init => TerminalInv
BY SizesAssumption DEF Init, TerminalInv, Allocated

(* A search that meets the end of an episode goes no further there: the    *)
(* terminal node itself is backed up however often it is selected, and the *)
(* block it was given keeps no visit.                                      *)
THEOREM TerminalChildrenHolds ==
  ASSUME CandidatesExist PROVE SafeSpec => []TerminalChildrenUnvisited
<1>1. StateInv /\ TerminalInv => TerminalChildrenUnvisited
  BY DEF StateInv, IndInv, Shape, Node, TerminalInv, TerminalChildrenUnvisited
<1> QED BY <1>1, InitTerminal, TerminalStep, StatesCorrect, PTL DEF SafeSpec

-----------------------------------------------------------------------------
(* Visits.  A node counts at most its own first visit beyond those of its  *)
(* children: a choice, once made, is for a child without visits until its  *)
(* own scenario backs it up, and a node a back-up has still to count is    *)
(* behind its children by one.  Nodes at depth 1 are left out, since a     *)
(* back-up that ends at one leaves the root unvisited and chooses it again.*)
Slack(g)  == IF depth[g] = 0 THEN 0 ELSE 1
Visits(b) == SumOver([c \in Block(b) |-> visit_count[c]])
Below(g)  == IF child_base[g] = Invalid THEN 0 ELSE Visits(child_base[g])

Counted(g)  == active_flag[g] /\ depth[g] # 1 /\ depth[g] <= TreeHeight
Balanced(g) == Counted(g) => visit_count[g] <= Slack(g) + Below(g)

ChoiceFresh(s) ==
  LET p == result[s].parent IN
  active_flag[p] /\ depth[p] # 0 /\ depth[p] < TreeHeight /\ child_base[p] # Invalid
    => visit_count[ChildOf(s)] = 0

VisitInv ==
  /\ \A g \in Allocated : Balanced(g)
  /\ pc = "explore" => \A s \in Scenarios : s < lane => ChoiceFresh(s)
  /\ pc = "expand" => \A s \in Scenarios : ChoiceFresh(s)
  /\ pc = "backprop" =>
       /\ \A s \in Scenarios : s > lane \/ (s = lane /\ cur = Invalid) => ChoiceFresh(s)
       /\ \A g \in Allocated :
            g = cur /\ Counted(g) => visit_count[g] < Slack(g) + Below(g)

LEMMA BlockFact ==
  ASSUME NEW b \in Int
  PROVE  /\ IsFiniteSet(Block(b)) /\ Block(b) \subseteq Int
         /\ \A c \in Block(b) : c >= b
<1>1. b + NumActions - 1 \in Int
  BY SizesAssumption
<1> QED BY <1>1, FS_Interval DEF Block

(* The blocks of allocated slots, and the types of what is summed.         *)
LEMMA BelowFact ==
  ASSUME IndInv, NEW g \in Allocated
  PROVE  /\ g \in Slots /\ visit_count[g] \in Nat /\ depth[g] \in Nat
         /\ Slack(g) \in Nat /\ Below(g) \in Nat
         /\ child_base[g] # Invalid =>
              /\ child_base[g] \in Nat /\ Block(child_base[g]) \subseteq Allocated \ Scenarios
              /\ [c \in Block(child_base[g]) |-> visit_count[c]] \in [Block(child_base[g]) -> Nat]
<1>1. g \in Slots /\ visit_count[g] \in Nat /\ depth[g] \in Nat
      /\ Allocated \subseteq Slots
      /\ child_base[g] \in Slots \union {Invalid}
  BY SizesAssumption DEF IndInv, TypeOK, Allocated, Slots
<1>2. Slack(g) \in Nat
  BY DEF Slack
<1>3. CASE child_base[g] # Invalid
  <2>1. child_base[g] \in Nat /\ Block(child_base[g]) \subseteq Allocated \ Scenarios
    BY <1>1, <1>3 DEF IndInv, Shape, Node, Slots
  <2>2. [c \in Block(child_base[g]) |-> visit_count[c]] \in [Block(child_base[g]) -> Nat]
    BY <1>1, <2>1 DEF IndInv, TypeOK
  <2>3. Below(g) \in Nat
    BY <1>3, <2>1, <2>2, BlockFact, SumOverNat DEF Below, Visits
  <2> QED BY <1>1, <1>2, <2>1, <2>2, <2>3
<1>4. CASE child_base[g] = Invalid
  BY <1>1, <1>2, <1>4 DEF Below
<1> QED BY <1>3, <1>4

(* Where the block and its counts stay, the sum does.                      *)
LEMMA BelowKept ==
  ASSUME NEW g, child_base'[g] = child_base[g],
         child_base[g] # Invalid => \A c \in Block(child_base[g]) : visit_count'[c] = visit_count[c]
  PROVE  Below(g)' = Below(g)
<1>1. CASE child_base[g] # Invalid
  <2> DEFINE b == child_base[g]
  <2>1. [c \in Block(b) |-> visit_count'[c]] = [c \in Block(b) |-> visit_count[c]]
    BY <1>1
  <2>2. Visits(child_base[g])' = Visits(child_base[g])
    BY <2>1 DEF Visits, Block
  <2> QED BY <1>1, <2>2 DEF Below
<1>2. CASE child_base[g] = Invalid
  BY <1>2 DEF Below
<1> QED BY <1>1, <1>2

LEMMA VisitExpand == StateInv /\ VisitInv /\ ExpandLane => VisitInv'
<1> SUFFICES ASSUME StateInv, VisitInv, ExpandLane PROVE VisitInv'
  OBVIOUS
<1> DEFINE p == result[lane].parent
           a == result[lane].action
           B == IF NewBlock(p) THEN Block(total) ELSE {}
           child == ChildSlot(IF NewBlock(p) THEN total ELSE child_base[p], a)
           valid == depth[p] < TreeHeight /\ active_flag[p]
           out == Step[<<dom[p], a>>]
<1>1. /\ Allocated' = Allocated \union B
      /\ B \subseteq Slots /\ B \intersect Allocated = {}
      /\ depth' = [g \in Slots |-> IF g \in B THEN depth[p] + 1 ELSE depth[g]]
      /\ child_base' = [g \in Slots |->
           IF g \in B THEN Invalid
           ELSE IF g = p /\ NewBlock(p) THEN total ELSE child_base[g]]
      /\ NewBlock(p) => total \in Slots
  BY ExpandPool DEF StateInv
<1>2. /\ p \in written /\ p \in Allocated /\ lane \in Scenarios /\ a \in Actions
      /\ \A s \in Scenarios : Located(s)
      /\ child \in Allocated' /\ child # p
      /\ child_base'[p] # Invalid /\ child = child_base'[p] + a
      /\ written' = IF valid THEN written \union {child} ELSE written
      /\ \A g \in written : active_flag'[g] = active_flag[g]
  BY ExpandStored
<1>3. /\ visit_count' = [g \in Slots |-> IF g \in B THEN 0 ELSE visit_count[g]]
      /\ active_flag' = [g \in Slots |->
           IF g = child /\ valid THEN out.active ELSE (g \in B) \/ active_flag[g]]
      /\ result' = result
  BY DEF ExpandLane, InitNodes
<1>4. IndInv /\ Written /\ Reached /\ Allocated \subseteq Slots /\ written \subseteq Allocated
  <2>1. IndInv /\ Written /\ Reached
    BY DEF StateInv
  <2>2. Allocated \subseteq Slots
    BY <2>1, SizesAssumption DEF IndInv, TypeOK, Allocated, Slots
  <2> QED BY <2>1, <2>2 DEF Written
<1>5. NewBlock(p) => B = Block(total) /\ total \in Int
  BY <1>1 DEF Slots
<1>6. NewBlock(p) <=> child_base[p] = Invalid
  BY DEF NewBlock
<1>7. Invalid \notin Slots
  BY DEF Invalid, Slots
<1> HIDE DEF B, child, valid, out, p, a
<1>8. \A g \in Allocated : /\ g \in Slots /\ g \notin B /\ depth'[g] = depth[g]
                           /\ visit_count'[g] = visit_count[g]
                           /\ g # p \/ ~NewBlock(p) => child_base'[g] = child_base[g]
                           /\ g # child => active_flag'[g] = active_flag[g]
  BY <1>1, <1>3, <1>4 DEF IndInv, TypeOK
<1>9. \A g \in Allocated : g # p \/ ~NewBlock(p) => Below(g)' = Below(g)
  <2> SUFFICES ASSUME NEW g \in Allocated, g # p \/ ~NewBlock(p) PROVE Below(g)' = Below(g)
    OBVIOUS
  <2>1. child_base[g] # Invalid => \A c \in Block(child_base[g]) : c \in Allocated
    BY <1>4, BelowFact
  <2> QED BY <1>8, <2>1, BelowKept
<1>10. \A g \in Allocated : g = p /\ NewBlock(p) => Below(g)' = 0
  <2> SUFFICES ASSUME NEW g \in Allocated, g = p, NewBlock(p) PROVE Below(g)' = 0
    OBVIOUS
  <2>1. child_base'[g] = total /\ total # Invalid
    BY <1>1, <1>2, <1>7, <1>8
  <2> DEFINE f == [c \in Block(total) |-> visit_count'[c]]
  <2>2. \A c \in Block(total) : visit_count'[c] = 0
    BY <1>1, <1>3, <1>5
  <2>3. f \in [Block(total) -> Int] /\ \A c \in Block(total) : f[c] = 0
    BY <2>2
  <2>4. IsFiniteSet(Block(total))
    BY <1>5, BlockFact
  <2>5. SumOver(f) = 0
    <3> HIDE DEF f
    <3> QED BY <2>3, <2>4, SumOverZero
  <2> QED BY <2>1, <2>5 DEF Below, Visits, Block
<1>11. \A g \in Allocated' : Balanced(g)'
  <2> SUFFICES ASSUME NEW g \in Allocated', Counted(g)'
               PROVE  visit_count'[g] <= Slack(g)' + Below(g)'
    BY DEF Balanced
  <2>1. Slack(g)' \in Nat /\ Below(g)' \in Nat
    <3>1. IndInv'
      BY <1>4, ExpandLaneInv
    <3>2. CASE g \in B
      <4>1. child_base'[g] = Invalid
        BY <1>1, <3>2
      <4> QED BY <4>1 DEF Below, Slack
    <3>3. CASE g \in Allocated
      <4>1. CASE g = p /\ NewBlock(p)
        BY <1>10, <3>3, <4>1 DEF Slack
      <4>2. CASE ~(g = p /\ NewBlock(p))
        <5>1. Below(g) \in Nat
          BY <1>4, <3>3, BelowFact
        <5>2. Below(g)' \in Nat
          BY <1>9, <3>3, <4>2, <5>1
        <5> QED BY <5>2 DEF Slack
      <4> QED BY <4>1, <4>2
    <3> QED BY <1>1, <3>2, <3>3
  <2>2. CASE g \in B
    <3>1. visit_count'[g] = 0
      BY <1>1, <1>3, <2>2
    <3> QED BY <2>1, <3>1
  <2>3. CASE g \in Allocated /\ g \notin written /\ g = child /\ valid
    <3>1. depth[g] <= TreeHeight /\ visit_count[g] \in Nat
      BY <1>4, <1>8, <2>3, BelowFact DEF Counted
    <3>2. visit_count[g] = 0
      BY <1>4, <2>3, <3>1 DEF Written
    <3> QED BY <1>8, <2>1, <2>3, <3>2
  <2>4. CASE g \in Allocated /\ (g \in written \/ g # child \/ ~valid)
    <3>1. active_flag'[g] = active_flag[g]
      BY <1>1, <1>2, <1>3, <1>4, <1>8, <2>4 DEF IndInv, TypeOK
    <3>2. Counted(g) /\ Slack(g)' = Slack(g)
      BY <1>8, <2>4, <3>1 DEF Counted, Slack
    <3>3. visit_count[g] <= Slack(g) + Below(g)
      BY <2>4, <3>2 DEF VisitInv, Balanced
    <3>4. Below(g)' = Below(g)
      <4>1. CASE g = p /\ NewBlock(p)
        <5>1. child_base[g] = Invalid /\ Below(g)' = 0
          BY <1>6, <1>10, <2>4, <4>1
        <5> QED BY <5>1 DEF Below
      <4>2. CASE ~(g = p /\ NewBlock(p))
        BY <1>9, <2>4, <4>2
      <4> QED BY <4>1, <4>2
    <3> QED BY <1>8, <2>4, <3>2, <3>3, <3>4
  <2> QED BY <1>1, <2>2, <2>3, <2>4
<1>12. \A s \in Scenarios : ChoiceFresh(s)'
  <2> SUFFICES ASSUME NEW s \in Scenarios, ChoiceFresh(s) PROVE ChoiceFresh(s)'
    BY DEF VisitInv, ExpandLane
  <2> DEFINE q == result[s].parent
  <2>1. q \in Allocated /\ q \in written /\ owner[q] = s /\ owner[p] = lane
        /\ result[s].action \in Actions /\ result'[s].parent = q /\ result' = result
    BY <1>2, <1>3, <1>4 DEF Located, Reached, ExpandLane, IndInv, TypeOK, p
  <2>2. depth'[q] = depth[q] /\ active_flag'[q] = active_flag[q]
    BY <1>2, <1>8, <2>1
  <2>3. CASE q # p \/ ~NewBlock(p)
    <3>1. child_base'[q] = child_base[q]
      BY <1>8, <2>1, <2>3
    <3>2. ChildOf(s)' = ChildOf(s)
      BY <2>1, <3>1 DEF ChildOf
    <3>3. child_base[q] # Invalid => ChildOf(s) \in Allocated
      BY <1>4, <2>1, ChildFact DEF ChildOf
    <3>4. child_base[q] # Invalid => visit_count'[ChildOf(s)] = visit_count[ChildOf(s)]
      BY <1>8, <3>3
    <3> QED BY <2>1, <2>2, <3>1, <3>2, <3>4 DEF ChoiceFresh
  <2>4. CASE q = p /\ NewBlock(p)
    <3>1. s = lane
      BY <2>1, <2>4
    <3>2. ChildOf(s)' = child
      BY <1>2, <2>1, <3>1 DEF ChildOf, p, a
    <3>3. child \in B
      <4>1. child = total + a /\ total \in Int
        BY <1>1, <1>2, <1>5, <1>8, <2>4
      <4>2. child \in Block(total)
        BY <1>2, <4>1, SizesAssumption DEF Block, Actions
      <4> QED BY <1>5, <2>4, <4>2
    <3>4. visit_count'[child] = 0
      BY <1>1, <1>3, <3>3
    <3> QED BY <3>2, <3>4 DEF ChoiceFresh
  <2> QED BY <2>3, <2>4
<1>13. pc' \in {"expand", "backprop"} /\ cur' = Invalid
  BY DEF ExpandLane, StateInv, IndInv, Control
<1>14. Invalid \notin Allocated'
  BY <1>1, <1>4, <1>7
<1> QED BY <1>11, <1>12, <1>13, <1>14 DEF VisitInv

LEMMA VisitBackProp == StateInv /\ VisitInv /\ BackPropLevel => VisitInv'
<1> SUFFICES ASSUME StateInv, VisitInv, BackPropLevel PROVE VisitInv'
  OBVIOUS
<1>1. IndInv /\ Allocated \subseteq Slots
  <2>1. IndInv
    BY DEF StateInv
  <2> QED BY <2>1, SizesAssumption DEF IndInv, TypeOK, Allocated, Slots
<1>2. /\ cur \in Allocated /\ owner[cur] = lane /\ pc = "backprop" /\ cur # Invalid
      /\ lane \in Scenarios /\ \A s \in Scenarios : Located(s)
  BY <1>1 DEF BackPropLevel, IndInv, TypeOK, Control
<1>3. /\ UNCHANGED <<total, depth, parent_idx, child_base, active_flag, result, owner>>
      /\ visit_count' = [visit_count EXCEPT ![cur] = @ + 1]
  BY DEF BackPropLevel, ghosts
<1>4. Allocated' = Allocated
  BY <1>3 DEF Allocated
<1>5. \A g \in Allocated : /\ visit_count[g] \in Nat
                           /\ g # cur => visit_count'[g] = visit_count[g]
                           /\ g = cur => visit_count'[g] = visit_count[g] + 1
  BY <1>1, <1>3 DEF IndInv, TypeOK
<1>6. \A g \in Allocated : /\ Slack(g)' = Slack(g) /\ Slack(g) \in Nat /\ Below(g) \in Nat
                           /\ Counted(g)' <=> Counted(g)
  BY <1>1, <1>3, BelowFact DEF Slack, Counted
<1>7. \A g \in Allocated : g # parent_idx[cur] => Below(g)' = Below(g)
  <2> SUFFICES ASSUME NEW g \in Allocated, g # parent_idx[cur] PROVE Below(g)' = Below(g)
    OBVIOUS
  <2>1. ASSUME child_base[g] # Invalid, NEW c \in Block(child_base[g])
        PROVE  visit_count'[c] = visit_count[c]
    <3>1. c \in Allocated /\ parent_idx[c] = g
      BY <1>1, <2>1 DEF IndInv, Shape, Node
    <3> QED BY <1>5, <3>1
  <2> QED BY <1>3, <2>1, BelowKept
<1>8. \A g \in Allocated : g = parent_idx[cur] => Below(g)' = Below(g) + 1
  <2> SUFFICES ASSUME NEW g \in Allocated, g = parent_idx[cur] PROVE Below(g)' = Below(g) + 1
    OBVIOUS
  <2> DEFINE b == child_base[g]
             f == [c \in Block(b) |-> visit_count[c]]
             h == [c \in Block(b) |-> visit_count'[c]]
  <2>1. cur \notin Scenarios
    BY <1>1, <1>2 DEF IndInv, Shape, Node, Allocated, Invalid
  <2>2. b # Invalid /\ cur \in Block(b)
    BY <1>1, <1>2, <2>1 DEF IndInv, Shape, Node
  <2>3. b \in Int /\ Block(b) \subseteq Allocated
    BY <1>1, <2>2, BelowFact
  <2>4. f \in [Block(b) -> Int] /\ h \in [Block(b) -> Int]
    BY <1>5, <2>3
  <2>5. h[cur] - f[cur] = 1 /\ \A c \in Block(b) \ {cur} : h[c] = f[c]
    BY <1>5, <2>2, <2>3
  <2>6. IsFiniteSet(Block(b))
    BY <2>3, BlockFact
  <2>7. SumOver(h) = SumOver(f) + 1
    <3> HIDE DEF f, h
    <3>1. SumOver(h) = SumOver(f) + (h[cur] - f[cur])
      BY <2>2, <2>4, <2>5, <2>6, SumOverBump
    <3> QED BY <2>5, <3>1
  <2>8. Below(g) = SumOver(f)
    BY <2>2 DEF Below, Visits
  <2>9. Below(g)' = SumOver(h)
    BY <1>3, <2>2 DEF Below, Visits, Block
  <2> QED BY <2>7, <2>8, <2>9
<1>9. \A g \in Allocated' : Balanced(g)'
  <2> SUFFICES ASSUME NEW g \in Allocated, Counted(g)
               PROVE  visit_count'[g] <= Slack(g)' + Below(g)'
    BY <1>4, <1>6 DEF Balanced
  <2>1. Below(g)' \in Int /\ Below(g)' >= Below(g)
    BY <1>6, <1>7, <1>8
  <2>2. CASE g = cur
    <3>1. visit_count[g] < Slack(g) + Below(g)
      BY <1>2, <2>2 DEF VisitInv
    <3> QED BY <1>5, <1>6, <2>1, <2>2, <3>1
  <2>3. CASE g # cur
    <3>1. visit_count[g] <= Slack(g) + Below(g)
      BY DEF VisitInv, Balanced
    <3> QED BY <1>5, <1>6, <2>1, <2>3, <3>1
  <2> QED BY <2>2, <2>3
<1>10. \A s \in Scenarios : s > lane => ChoiceFresh(s)'
  <2> SUFFICES ASSUME NEW s \in Scenarios, s > lane PROVE ChoiceFresh(s)'
    OBVIOUS
  <2> DEFINE p == result[s].parent
  <2>1. ChoiceFresh(s)
    BY <1>2 DEF VisitInv
  <2>2. s # lane /\ p \in Allocated /\ owner[p] = s /\ result[s].action \in Actions
    BY <1>1, <1>2 DEF Located, IndInv, TypeOK, Scenarios
  <2>3. child_base[p] # Invalid => ChildOf(s) \in Allocated /\ owner[ChildOf(s)] = s
    BY <1>1, <2>2, ChildFact DEF ChildOf
  <2>4. child_base[p] # Invalid => visit_count'[ChildOf(s)] = visit_count[ChildOf(s)]
    BY <1>2, <1>5, <2>2, <2>3
  <2>5. ChildOf(s)' = ChildOf(s)
    BY <1>3 DEF ChildOf
  <2> QED BY <1>3, <2>1, <2>4, <2>5 DEF ChoiceFresh
<1>11. CASE NextLane
  <2>1. Invalid \notin Allocated'
    BY <1>4 DEF Allocated, Invalid
  <2>2. pc' # "backprop" \/ (pc' = "backprop" /\ lane' = lane + 1)
    BY <1>11 DEF NextLane
  <2>3. \A s \in Scenarios : s > lane + 1 \/ s = lane + 1 => s > lane
    BY <1>2 DEF Scenarios
  <2>4. pc' \in {"backprop", "loop"} /\ cur' = Invalid
    BY <1>2, <1>11 DEF NextLane
  <2> QED BY <1>9, <1>10, <2>1, <2>2, <2>3, <2>4 DEF VisitInv
<1>12. CASE parent_idx[cur] # Invalid /\ cur' = parent_idx[cur] /\ UNCHANGED <<pc, iter, lane>>
  <2>1. \A g \in Allocated' : g = cur' /\ Counted(g)'
                                => visit_count'[g] < Slack(g)' + Below(g)'
    <3> SUFFICES ASSUME NEW g \in Allocated, g = parent_idx[cur], Counted(g)
                 PROVE  visit_count'[g] < Slack(g)' + Below(g)'
      BY <1>4, <1>6, <1>12
    <3>1. visit_count[g] <= Slack(g) + Below(g)
      BY DEF VisitInv, Balanced
    <3>2. g # cur
      BY <1>1, <1>2, <1>12 DEF IndInv, Shape, Node, Allocated
    <3> QED BY <1>5, <1>6, <1>8, <3>1, <3>2
  <2>2. cur' # Invalid /\ lane' = lane /\ pc' = "backprop"
    BY <1>2, <1>12
  <2>3. \A s \in Scenarios : s > lane' \/ (s = lane' /\ cur' = Invalid) => ChoiceFresh(s)'
    BY <1>10, <2>2
  <2> QED BY <1>9, <2>1, <2>2, <2>3 DEF VisitInv
<1> QED BY <1>11, <1>12 DEF BackPropLevel

(* The balance of every node, when the pool stays as it is.                *)
LEMMA BalanceKept ==
  ASSUME UNCHANGED <<total, depth, child_base, visit_count, active_flag>>
  PROVE  /\ Allocated' = Allocated
         /\ \A g : /\ Balanced(g)' <=> Balanced(g)
                   /\ Counted(g)' <=> Counted(g)
                   /\ Slack(g)' = Slack(g) /\ Below(g)' = Below(g)
BY DEF Allocated, Balanced, Counted, Slack, Below, Visits, Block

LEMMA VisitBegin == StateInv /\ VisitInv /\ BeginBackProp => VisitInv'
<1> SUFFICES ASSUME StateInv, VisitInv, BeginBackProp PROVE VisitInv'
  OBVIOUS
<1> DEFINE p == result[lane].parent
<1>1. UNCHANGED <<total, depth, child_base, visit_count, active_flag, result>>
  BY DEF BeginBackProp, pool
<1>2. /\ Allocated' = Allocated
      /\ \A g : /\ Balanced(g)' <=> Balanced(g)
                /\ Counted(g)' <=> Counted(g)
                /\ Slack(g)' = Slack(g) /\ Below(g)' = Below(g)
  BY <1>1, BalanceKept
<1>3. /\ IndInv /\ pc = "backprop" /\ cur = Invalid /\ lane \in Scenarios
      /\ \A s \in Scenarios : Located(s)
  BY DEF BeginBackProp, StateInv, IndInv, TypeOK, Control
<1>4. p \in Allocated /\ result[lane].action \in Actions
  BY <1>3 DEF IndInv, TypeOK, Located
<1>5. \A g \in Allocated' : Balanced(g)'
  BY <1>2 DEF VisitInv
<1>6. \A s \in Scenarios : s > lane \/ s = lane => ChoiceFresh(s)'
  <2>1. \A s \in Scenarios : s > lane \/ s = lane => ChoiceFresh(s)
    BY <1>3 DEF VisitInv
  <2> QED BY <1>1, <2>1 DEF ChoiceFresh, ChildOf
<1>7. \A g \in Allocated' : pc' = "backprop" /\ g = cur' /\ Counted(g)'
                              => visit_count'[g] < Slack(g)' + Below(g)'
  <2> SUFFICES ASSUME NEW g \in Allocated, pc' = "backprop", g = cur', Counted(g)
               PROVE  visit_count[g] < Slack(g) + Below(g)
    BY <1>1, <1>2
  <2>1. CASE NextLane
    BY <2>1 DEF NextLane, Allocated, Invalid
  <2>2. CASE active_flag[p] /\ child_base[p] # Invalid
    <3>1. g = ChildOf(lane)
      BY <2>2 DEF BeginBackProp, ChildOf
    <3>2. depth[g] = depth[p] + 1
      BY <1>3, <1>4, <2>2, <3>1, ChildFact DEF ChildOf
    <3>3. depth[p] \in Nat /\ Below(g) \in Nat
      BY <1>3, <1>4, BelowFact
    <3>4. depth[p] # 0 /\ depth[p] < TreeHeight /\ Slack(g) = 1
      BY <3>2, <3>3, SizesAssumption DEF Counted, Slack
    <3>5. visit_count[g] = 0
      BY <1>3, <2>2, <3>1, <3>4 DEF VisitInv, ChoiceFresh
    <3> QED BY <3>3, <3>4, <3>5
  <2>3. CASE ~active_flag[p]
    <3>1. g = p
      BY <2>3 DEF BeginBackProp
    <3> QED BY <2>3, <3>1 DEF Counted
  <2> QED BY <2>1, <2>2, <2>3 DEF BeginBackProp
<1>8. CASE pc' = "backprop"
  <2>1. \A s \in Scenarios : s > lane' \/ (s = lane' /\ cur' = Invalid) => s > lane \/ s = lane
    BY <1>3, <1>8 DEF BeginBackProp, NextLane, Scenarios
  <2> QED BY <1>5, <1>6, <1>7, <1>8, <2>1 DEF VisitInv
<1>9. CASE pc' = "loop"
  BY <1>5, <1>9 DEF VisitInv
<1>10. pc' \in {"backprop", "loop"}
  BY <1>3 DEF BeginBackProp, NextLane
<1> QED BY <1>8, <1>9, <1>10

(* A choice that is made: below the first layer it is an unvisited child.  *)
LEMMA SelectVisits ==
  ASSUME StateInv, VisitInv, pc = "explore", NEW a \in Actions, Select(cur, a),
         UNCHANGED <<pool, dom, iter, round, ghosts>>,
         active_flag[cur] /\ depth[cur] # 0 /\ depth[cur] < TreeHeight
           /\ child_base[cur] # Invalid => visit_count[child_base[cur] + a] = 0
  PROVE  VisitInv'
<1>1. UNCHANGED <<total, depth, child_base, visit_count, active_flag>>
  BY DEF pool
<1>2. \A g \in Allocated' : Balanced(g)'
  BY <1>1, BalanceKept DEF VisitInv
<1>3. /\ lane \in Scenarios
      /\ result' = [result EXCEPT ![lane] = [parent |-> cur, action |-> a]]
      /\ result \in [Scenarios -> [parent : Slots \union {Invalid}, action : Actions]]
  BY DEF Select, StateInv, IndInv, TypeOK
<1>4. \A s \in Scenarios : s < lane \/ s = lane => ChoiceFresh(s)'
  <2> SUFFICES ASSUME NEW s \in Scenarios, s < lane \/ s = lane PROVE ChoiceFresh(s)'
    OBVIOUS
  <2>1. CASE s = lane
    <3>1. result'[s].parent = cur /\ result'[s].action = a
      BY <1>3, <2>1
    <3> QED BY <1>1, <3>1 DEF ChoiceFresh, ChildOf
  <2>2. CASE s # lane
    <3>1. ChoiceFresh(s) /\ result'[s] = result[s]
      BY <1>3, <2>2 DEF VisitInv
    <3> QED BY <1>1, <3>1 DEF ChoiceFresh, ChildOf
  <2> QED BY <2>1, <2>2
<1>5. CASE lane < NumScenarios - 1
  <2>1. pc' = "explore" /\ lane' = lane + 1
    BY <1>5 DEF Select
  <2>2. \A s \in Scenarios : s < lane + 1 => s < lane \/ s = lane
    BY <1>3 DEF Scenarios
  <2> QED BY <1>2, <1>4, <2>1, <2>2 DEF VisitInv
<1>6. CASE ~(lane < NumScenarios - 1)
  <2>1. pc' = "expand"
    BY <1>6 DEF Select
  <2>2. \A s \in Scenarios : s < lane \/ s = lane
    BY <1>3, <1>6, SizesAssumption DEF Scenarios
  <2> QED BY <1>2, <1>4, <2>1, <2>2 DEF VisitInv
<1> QED BY <1>5, <1>6

LEMMA VisitStep == CandidatesExist /\ StateInv /\ VisitInv /\ [Next]_vars => VisitInv'
<1> SUFFICES ASSUME CandidatesExist, StateInv, VisitInv, [Next]_vars PROVE VisitInv'
  OBVIOUS
<1>0. IndInv /\ (pc = "explore" => cur \in Allocated)
  BY DEF StateInv, IndInv, Control
<1>1. CASE BeginSearch
  <2>1. Allocated' = Scenarios /\ pc' = "loop" /\ Scenarios \subseteq Slots
    BY <1>1, SizesAssumption DEF BeginSearch, Allocated, Scenarios, Slots
  <2>2. \A g \in Scenarios : visit_count'[g] = 0 /\ child_base'[g] = Invalid
    BY <1>1, <2>1 DEF BeginSearch, InitNodes
  <2>3. \A g \in Scenarios : Balanced(g)'
    <3> TAKE g \in Scenarios
    <3>1. Below(g)' = 0 /\ visit_count'[g] = 0
      BY <2>2 DEF Below
    <3> QED BY <3>1 DEF Balanced, Slack
  <2> QED BY <2>1, <2>3 DEF VisitInv
<1>2. ASSUME UNCHANGED <<total, depth, child_base, visit_count, active_flag, result>>,
             \/ pc' \in {"idle", "loop"} \/ (pc' = "explore" /\ lane' = 0)
             \/ UNCHANGED <<pc, lane, cur>>
             \/ (pc = "explore" /\ UNCHANGED <<pc, lane>>)
      PROVE  VisitInv'
  <2>1. \A g \in Allocated' : Balanced(g)'
    BY <1>2, BalanceKept DEF VisitInv
  <2>2. \A s : ChoiceFresh(s)' <=> ChoiceFresh(s)
    BY <1>2 DEF ChoiceFresh, ChildOf
  <2>3. /\ Allocated' = Allocated
        /\ \A g : /\ Counted(g)' <=> Counted(g)
                  /\ Slack(g)' = Slack(g) /\ Below(g)' = Below(g)
    BY <1>2, BalanceKept
  <2>4. CASE pc' \in {"idle", "loop"}
    BY <2>1, <2>4 DEF VisitInv
  <2>5. CASE pc' = "explore" /\ lane' = 0
    <3>1. \A s \in Scenarios : ~(s < 0)
      BY DEF Scenarios
    <3> QED BY <2>1, <2>5, <3>1 DEF VisitInv
  <2>6. CASE UNCHANGED <<pc, lane, cur>>
    BY <1>2, <2>1, <2>2, <2>3, <2>6 DEF VisitInv
  <2>7. CASE pc = "explore" /\ UNCHANGED <<pc, lane>>
    BY <2>1, <2>2, <2>7 DEF VisitInv
  <2> QED BY <1>2, <2>4, <2>5, <2>6, <2>7
<1>3. CASE EndSearch \/ BeginIteration \/ Descend \/ UNCHANGED vars
  <2>1. UNCHANGED <<total, depth, child_base, visit_count, active_flag, result>>
    BY <1>3 DEF EndSearch, BeginIteration, Descend, pool, vars, control
  <2>2. \/ pc' \in {"idle", "loop"} \/ (pc' = "explore" /\ lane' = 0)
        \/ UNCHANGED <<pc, lane, cur>>
        \/ (pc = "explore" /\ UNCHANGED <<pc, lane>>)
    BY <1>3 DEF EndSearch, BeginIteration, Descend, Descending, vars, control
  <2> QED BY <1>2, <2>1, <2>2
<1>4. CASE SelectRoot
  <2> DEFINE a == IF CandidatesOf(cur) = <<>> THEN 0 ELSE CandidatesOf(cur)[1]
  <2>1. a \in Actions
    <3>1. CandidatesOf(cur) \in Seq(Actions)
      BY <1>0, <1>4, CandidatesFact DEF SelectRoot
    <3>2. 0 \in Actions
      BY SizesAssumption DEF Actions
    <3> QED BY <3>1, <3>2
  <2>2. depth[cur] = 0
    BY <1>0, <1>4 DEF SelectRoot, IndInv, TypeOK, Shape, Node
  <2> HIDE DEF a
  <2>3. Select(cur, a)
    BY <1>4 DEF SelectRoot, a
  <2> QED BY <1>4, <2>1, <2>2, <2>3, SelectVisits DEF SelectRoot
<1>5. CASE SelectLeaf
  <2>1. curr_action[cur] \in Actions
    BY <1>0, <1>5, BelowFact DEF SelectLeaf, Descending, IndInv, TypeOK
  <2>2. ~(active_flag[cur] /\ depth[cur] < TreeHeight /\ child_base[cur] # Invalid)
    <3>1. depth[cur] \in Nat
      BY <1>0, <1>5, BelowFact DEF SelectLeaf, Descending
    <3> QED BY <1>5, <3>1, SizesAssumption DEF SelectLeaf, IsLeaf
  <2> QED BY <1>5, <2>1, <2>2, SelectVisits DEF SelectLeaf, Descending
<1>6. CASE SelectUnvisited
  <2>1. PICK i \in Unvisited(cur) : Select(cur, CandidatesOf(cur)[i])
    BY <1>6 DEF SelectUnvisited
  <2>2. CandidatesOf(cur) \in Seq(Actions)
    BY <1>0, <1>6, CandidatesFact DEF SelectUnvisited, Descending
  <2>3. /\ CandidatesOf(cur)[i] \in Actions
        /\ visit_count[child_base[cur] + CandidatesOf(cur)[i]] = 0
    BY <2>1, <2>2 DEF Unvisited
  <2> QED BY <1>6, <2>1, <2>3, SelectVisits DEF SelectUnvisited, Descending
<1> QED BY <1>1, <1>3, <1>4, <1>5, <1>6, VisitExpand, VisitBegin, VisitBackProp DEF Next, Work

LEMMA InitVisits == Init => VisitInv
BY SizesAssumption DEF Init, VisitInv, Allocated

(* UCB weighs a child by its share of the visits of its parent: between    *)
(* iterations the root has no more than its children together, and a node  *)
(* below the first layer at most its own first one more.                   *)
THEOREM VisitAccountingHolds ==
  ASSUME CandidatesExist PROVE SafeSpec => []VisitAccounting
<1>1. StateInv /\ VisitInv => VisitAccounting
  <2> SUFFICES ASSUME StateInv, VisitInv, NEW g \in Allocated, child_base[g] # Invalid,
                      active_flag[g], depth[g] # 1
               PROVE  visit_count[g] <= (IF depth[g] = 0 THEN 0 ELSE 1)
                        + FoldFunction(LAMBDA x, y : x + y, 0,
                                       [c \in Block(child_base[g]) |-> visit_count[c]])
    BY DEF VisitAccounting
  <2>1. depth[g] <= TreeHeight
    <3>1. 0 \in Actions /\ IndInv
      BY SizesAssumption DEF Actions, StateInv
    <3>2. child_base[g] + 0 \in Allocated /\ depth[child_base[g] + 0] = depth[g] + 1
      BY <3>1, ChildFact
    <3>3. child_base[g] + 0 \in Slots /\ g \in Slots
      BY <3>1, <3>2, BelowFact
    <3>4. depth[child_base[g] + 0] <= TreeHeight + 1 /\ depth[g] \in Nat
      BY <3>1, <3>3, SizesAssumption DEF IndInv, TypeOK
    <3> QED BY <3>2, <3>4, SizesAssumption
  <2>2. visit_count[g] <= Slack(g) + Below(g)
    BY <2>1 DEF VisitInv, Balanced, Counted
  <2>3. Below(g) = FoldFunction(LAMBDA x, y : x + y, 0,
                                [c \in Block(child_base[g]) |-> visit_count[c]])
    BY Zenon DEF Below, Visits, SumOver
  <2> QED BY <2>2, <2>3 DEF Slack
<1> QED BY <1>1, InitVisits, VisitStep, StatesCorrect, PTL DEF SafeSpec

-----------------------------------------------------------------------------
(* Rounding up: n slots fit into the chunks asked for.                     *)
LEMMA ChunksForFits ==
  ASSUME NEW n \in Nat, NEW k \in Nat, k >= ChunksFor(n)
  PROVE  n <= k * ChunkCapacity
<1> DEFINE C == ChunkCapacity
           q == (n - 1) \div C
<1>1. C \in Nat \ {0} /\ q \in Int /\ k >= q + 1
  BY SizesAssumption DEF ChunksFor
<1>2. n - 1 < (q + 1) * C
  BY SizesAssumption
<1> HIDE DEF q, C
<1>3. (q + 1) * C <= k * C
  <2>1. PICK d \in Nat : k = (q + 1) + d
    <3>1. k - (q + 1) \in Nat /\ k = (q + 1) + (k - (q + 1))
      BY <1>1
    <3> QED BY <3>1
  <2>2. k * C = (q + 1) * C + d * C
    BY <1>1, <2>1
  <2>3. d * C >= 0
    BY <1>1
  <2> QED BY <1>1, <2>2, <2>3
<1> QED BY <1>1, <1>2, <1>3 DEF C

(* No allocated slot lies beyond the last chunk.                           *)
THEOREM ChunksCoverHolds == SafeSpec => []ChunksCover
<1>1. Init => ChunksCover
  <2>1. InitialChunks * ChunkCapacity \in Nat
    BY SizesAssumption
  <2> QED BY <2>1 DEF Init, ChunksCover
<1>2. TypeOK /\ ChunksCover /\ [Next]_vars => ChunksCover'
  <2> SUFFICES ASSUME TypeOK, ChunksCover, [Next]_vars PROVE ChunksCover'
    OBVIOUS
  <2>1. CASE UNCHANGED <<total, chunks>>
    BY <2>1 DEF ChunksCover
  <2>2. ASSUME NEW n \in Nat, total' = n,
               chunks' = IF ChunksFor(n) > chunks THEN ChunksFor(n) ELSE chunks
        PROVE  ChunksCover'
    <3>1. ChunksFor(n) \in Int
      BY SizesAssumption DEF ChunksFor
    <3>2. chunks' \in Nat /\ chunks' >= ChunksFor(n)
      BY <2>2, <3>1 DEF TypeOK
    <3> QED BY <2>2, <3>2, ChunksForFits DEF ChunksCover
  <2>3. CASE BeginSearch
    BY <2>2, <2>3, SizesAssumption DEF BeginSearch
  <2>4. CASE ExpandLane
    <3>1. CASE NewBlock(result[lane].parent)
      <4>1. total + NumActions \in Nat
        BY SizesAssumption DEF TypeOK
      <4> QED BY <2>2, <2>4, <3>1, <4>1 DEF ExpandLane, Allocate
    <3>2. CASE ~NewBlock(result[lane].parent)
      BY <2>1, <2>4, <3>2 DEF ExpandLane
    <3> QED BY <3>1, <3>2
  <2> QED BY <2>1, <2>3, <2>4
      DEF Next, Work, EndSearch, BeginIteration, SelectRoot, SelectLeaf, SelectUnvisited,
          Descend, BeginBackProp, BackPropLevel, pool, vars
<1> QED BY <1>1, <1>2, TypeCorrect, PTL DEF SafeSpec

-----------------------------------------------------------------------------
(* Rock Sample: the vectorised transition against the scalar one, and what *)
(* a branch can collect, for every grid and every placing of the rocks.    *)

(* A cell is a row and a column, and there is no other cell for the pair.  *)
LEMMA CellCoordinates ==
  ASSUME NEW p \in Cells
  PROVE  /\ p % Size \in 0..(Size - 1)
         /\ p \div Size \in 0..(Size - 1)
         /\ p = (p \div Size) * Size + (p % Size)
<1> DEFINE x == p % Size
           y == p \div Size
<1>1. Size \in Nat /\ Size > 0 /\ p \in Nat /\ p < Size * Size
  BY GridAssumption DEF Cells
<1>2. x \in 0..(Size - 1) /\ y \in Int /\ p = y * Size + x
  BY <1>1
<1> HIDE DEF x, y
<1>3. y >= 0
  <2> SUFFICES ASSUME y <= -1 PROVE FALSE
    BY <1>2
  <2>1. PICK k \in Nat : y = -1 - k
    <3>1. -1 - y \in Nat /\ y = -1 - (-1 - y)
      BY <1>2
    <3> QED BY <3>1
  <2>2. y * Size = -Size - k * Size /\ k * Size >= 0
    BY <1>1, <2>1
  <2> QED BY <1>1, <1>2, <2>2
<1>4. y < Size
  <2> SUFFICES ASSUME y >= Size PROVE FALSE
    BY <1>1, <1>2
  <2>1. PICK k \in Nat : y = Size + k
    <3>1. y - Size \in Nat /\ y = Size + (y - Size)
      BY <1>1, <1>2
    <3> QED BY <3>1
  <2>2. y * Size = Size * Size + k * Size /\ k * Size >= 0
    BY <1>1, <2>1
  <2> QED BY <1>1, <1>2, <2>2
<1> QED BY <1>1, <1>2, <1>3, <1>4 DEF x, y

LEMMA CoordinatesCell ==
  ASSUME NEW x \in 0..(Size - 1), NEW y \in 0..(Size - 1)
  PROVE  y * Size + x \in Cells
<1>1. Size \in Nat /\ Size > 0
  BY GridAssumption
<1>2. PICK k \in Nat : Size = y + 1 + k
  <2>1. Size - (y + 1) \in Nat /\ Size = y + 1 + (Size - (y + 1))
    BY <1>1
  <2> QED BY <2>1
<1>3. Size * Size = y * Size + Size + k * Size /\ k * Size >= 0 /\ y * Size >= 0
  BY <1>1, <1>2
<1>4. y * Size \in Int /\ Size * Size \in Int /\ k * Size \in Int
  BY <1>1
<1>5. y * Size + x >= 0 /\ y * Size + x < Size * Size
  BY <1>1, <1>3, <1>4
<1> QED BY <1>4, <1>5 DEF Cells

(* The six entries of the scalar version.                                  *)
LEMMA ScalarEntries ==
  ASSUME NEW t
  PROVE
    /\ ApplyAction(t, 0) = IF (t.pos \div Size) + 1 < Size
         THEN Yield(((t.pos \div Size) + 1) * Size + (t.pos % Size), t.good, TRUE, 0)
         ELSE Yield(t.pos, t.good, TRUE, -1000)
    /\ ApplyAction(t, 1) = IF (t.pos % Size) + 1 < Size
         THEN Yield((t.pos \div Size) * Size + ((t.pos % Size) + 1), t.good, TRUE, 0)
         ELSE Yield(t.pos, t.good, FALSE, 100)
    /\ ApplyAction(t, 2) = IF (t.pos \div Size) - 1 >= 0
         THEN Yield(((t.pos \div Size) - 1) * Size + (t.pos % Size), t.good, TRUE, 0)
         ELSE Yield(t.pos, t.good, TRUE, -1000)
    /\ ApplyAction(t, 3) = IF (t.pos % Size) - 1 >= 0
         THEN Yield((t.pos \div Size) * Size + ((t.pos % Size) - 1), t.good, TRUE, 0)
         ELSE Yield(t.pos, t.good, TRUE, -1000)
    /\ \E r : ApplyAction(t, 4) = Yield(t.pos, t.good \ RocksIn(t.pos), TRUE, r)
    /\ ApplyAction(t, 5) = Yield(t.pos, t.good, TRUE, 0)
<1> DEFINE x == t.pos % Size
           y == t.pos \div Size
<1>1. ApplyAction(t, 0) = IF y + 1 < Size
         THEN Yield((y + 1) * Size + x, t.good, TRUE, 0)
         ELSE Yield(t.pos, t.good, TRUE, -1000)
  BY DEF ApplyAction
<1>2. ApplyAction(t, 1) = IF x + 1 < Size
         THEN Yield(y * Size + (x + 1), t.good, TRUE, 0)
         ELSE Yield(t.pos, t.good, FALSE, 100)
  BY DEF ApplyAction
<1>3. ApplyAction(t, 2) = IF y - 1 >= 0
         THEN Yield((y - 1) * Size + x, t.good, TRUE, 0)
         ELSE Yield(t.pos, t.good, TRUE, -1000)
  BY DEF ApplyAction
<1>4. ApplyAction(t, 3) = IF x - 1 >= 0
         THEN Yield(y * Size + (x - 1), t.good, TRUE, 0)
         ELSE Yield(t.pos, t.good, TRUE, -1000)
  BY DEF ApplyAction
<1>5. \E r : ApplyAction(t, 4) = Yield(t.pos, t.good \ RocksIn(t.pos), TRUE, r)
  <2>1. ApplyAction(t, 4)
          = Yield(t.pos, t.good \ RocksIn(t.pos), TRUE,
                    IF RocksIn(t.pos) = {} THEN -1000
                    ELSE IF RocksIn(t.pos) \subseteq t.good THEN 100 ELSE -100)
    BY DEF ApplyAction
  <2> QED BY <2>1
<1>6. ApplyAction(t, 5) = Yield(t.pos, t.good, TRUE, 0)
  BY DEF ApplyAction
<1> QED BY <1>1, <1>2, <1>3, <1>4, <1>5, <1>6

(* The two versions agree on every step but for the reward.                *)
LEMMA SameStep ==
  ASSUME NEW t \in RockStates, NEW a \in 0..5
  PROVE  /\ StepBatch(t, a).pos = ApplyAction(t, a).pos
         /\ StepBatch(t, a).good = ApplyAction(t, a).good
         /\ StepBatch(t, a).active = ApplyAction(t, a).active
<1> DEFINE x == t.pos % Size
           y == t.pos \div Size
           nx == x + Dx[a]
           ny == y + Dy[a]
           exit == a = East /\ nx >= Size
           off == a < Sample /\ ~exit /\ OffGrid(nx, ny)
           b == StepBatch(t, a)
           c == ApplyAction(t, a)
<1>1. /\ Size \in Nat /\ Size > 0
      /\ x \in 0..(Size - 1) /\ y \in 0..(Size - 1) /\ t.pos = y * Size + x
  BY CellCoordinates, GridAssumption DEF RockStates
<1>2. /\ b.pos = IF a < Sample /\ ~exit /\ ~off THEN ny * Size + nx ELSE t.pos
      /\ b.good = IF a = Sample THEN t.good \ RocksIn(t.pos) ELSE t.good
      /\ b.active = ~exit
  BY Zenon DEF StepBatch, Yield, Sampled
<1> DEFINE ddx == Dx[a]
           ddy == Dy[a]
<1>g. exit \in BOOLEAN
  OBVIOUS
<1>d. /\ ddx = IF a = 1 THEN 1 ELSE IF a = 3 THEN -1 ELSE 0
      /\ ddy = IF a = 0 THEN 1 ELSE IF a = 2 THEN -1 ELSE 0
  BY DEF Dx, Dy, North, East, South, West
<1>x. /\ nx = x + ddx /\ ny = y + ddy
  OBVIOUS
<1>e. /\ exit <=> (a = 1 /\ nx >= Size)
      /\ off <=> (a < 4 /\ ~exit /\ (nx \notin 0..(Size - 1) \/ ny \notin 0..(Size - 1)))
  BY DEF OffGrid, East, Sample
<1>f. /\ b.pos = IF a < 4 /\ ~exit /\ ~off THEN ny * Size + nx ELSE t.pos
      /\ b.good = IF a = 4 THEN t.good \ RocksIn(t.pos) ELSE t.good
      /\ b.active = ~exit
  BY <1>2 DEF Sample
<1>s. /\ ApplyAction(t, 0) = IF y + 1 < Size
         THEN Yield((y + 1) * Size + x, t.good, TRUE, 0)
         ELSE Yield(t.pos, t.good, TRUE, -1000)
      /\ ApplyAction(t, 1) = IF x + 1 < Size
         THEN Yield(y * Size + (x + 1), t.good, TRUE, 0)
         ELSE Yield(t.pos, t.good, FALSE, 100)
      /\ ApplyAction(t, 2) = IF y - 1 >= 0
         THEN Yield((y - 1) * Size + x, t.good, TRUE, 0)
         ELSE Yield(t.pos, t.good, TRUE, -1000)
      /\ ApplyAction(t, 3) = IF x - 1 >= 0
         THEN Yield(y * Size + (x - 1), t.good, TRUE, 0)
         ELSE Yield(t.pos, t.good, TRUE, -1000)
      /\ \E r : ApplyAction(t, 4) = Yield(t.pos, t.good \ RocksIn(t.pos), TRUE, r)
      /\ ApplyAction(t, 5) = Yield(t.pos, t.good, TRUE, 0)
  BY ScalarEntries
<1> HIDE DEF x, y, nx, ny, exit, off, b, c, ddx, ddy
<1>4. CASE a = 0
  <2>1. nx = x /\ ny = y + 1 /\ ~exit /\ (off <=> ~(y + 1 < Size))
    BY <1>1, <1>d, <1>x, <1>e, <1>4
  <2>2. b.pos = IF y + 1 < Size THEN (y + 1) * Size + x ELSE t.pos
    BY <1>f, <1>4, <2>1
  <2>3. /\ c.pos = IF y + 1 < Size THEN (y + 1) * Size + x ELSE t.pos
        /\ c.good = t.good
        /\ c.active = TRUE
    <3>1. CASE y + 1 < Size
      <4>1. c = Yield((y + 1) * Size + x, t.good, TRUE, 0)
        BY <1>s, <1>4, <3>1 DEF c
      <4>2. c.pos = (y + 1) * Size + x /\ c.good = t.good /\ c.active = TRUE
        BY <4>1 DEF Yield
      <4> QED BY <3>1, <4>2
    <3>2. CASE ~(y + 1 < Size)
      <4>1. c = Yield(t.pos, t.good, TRUE, -1000)
        BY <1>s, <1>4, <3>2 DEF c
      <4>2. c.pos = t.pos /\ c.good = t.good /\ c.active = TRUE
        BY <4>1 DEF Yield
      <4> QED BY <3>2, <4>2
    <3> QED BY <3>1, <3>2
  <2>4. b.good = t.good /\ b.active = ~exit
    BY <1>f, <1>4
  <2> QED BY <1>g, <2>1, <2>2, <2>3, <2>4 DEF b, c
<1>5. CASE a = 1
  <2>1. nx = x + 1 /\ ny = y /\ (exit <=> ~(x + 1 < Size)) /\ ~off
    BY <1>1, <1>d, <1>x, <1>e, <1>5
  <2>2. b.pos = IF x + 1 < Size THEN y * Size + (x + 1) ELSE t.pos
    BY <1>f, <1>5, <2>1
  <2>3. /\ c.pos = IF x + 1 < Size THEN y * Size + (x + 1) ELSE t.pos
        /\ c.good = t.good
        /\ c.active = IF x + 1 < Size THEN TRUE ELSE FALSE
    <3>1. CASE x + 1 < Size
      <4>1. c = Yield(y * Size + (x + 1), t.good, TRUE, 0)
        BY <1>s, <1>5, <3>1 DEF c
      <4>2. c.pos = y * Size + (x + 1) /\ c.good = t.good /\ c.active = TRUE
        BY <4>1 DEF Yield
      <4> QED BY <3>1, <4>2
    <3>2. CASE ~(x + 1 < Size)
      <4>1. c = Yield(t.pos, t.good, FALSE, 100)
        BY <1>s, <1>5, <3>2 DEF c
      <4>2. c.pos = t.pos /\ c.good = t.good /\ c.active = FALSE
        BY <4>1 DEF Yield
      <4> QED BY <3>2, <4>2
    <3> QED BY <3>1, <3>2
  <2>4. b.good = t.good /\ b.active = ~exit
    BY <1>f, <1>5
  <2> QED BY <1>g, <2>1, <2>2, <2>3, <2>4 DEF b, c
<1>6. CASE a = 2
  <2>1. nx = x /\ ny = y - 1 /\ ~exit /\ (off <=> ~(y - 1 >= 0))
    BY <1>1, <1>d, <1>x, <1>e, <1>6
  <2>2. b.pos = IF y - 1 >= 0 THEN (y - 1) * Size + x ELSE t.pos
    BY <1>f, <1>6, <2>1
  <2>3. /\ c.pos = IF y - 1 >= 0 THEN (y - 1) * Size + x ELSE t.pos
        /\ c.good = t.good
        /\ c.active = TRUE
    <3>1. CASE y - 1 >= 0
      <4>1. c = Yield((y - 1) * Size + x, t.good, TRUE, 0)
        BY <1>s, <1>6, <3>1 DEF c
      <4>2. c.pos = (y - 1) * Size + x /\ c.good = t.good /\ c.active = TRUE
        BY <4>1 DEF Yield
      <4> QED BY <3>1, <4>2
    <3>2. CASE ~(y - 1 >= 0)
      <4>1. c = Yield(t.pos, t.good, TRUE, -1000)
        BY <1>s, <1>6, <3>2 DEF c
      <4>2. c.pos = t.pos /\ c.good = t.good /\ c.active = TRUE
        BY <4>1 DEF Yield
      <4> QED BY <3>2, <4>2
    <3> QED BY <3>1, <3>2
  <2>4. b.good = t.good /\ b.active = ~exit
    BY <1>f, <1>6
  <2> QED BY <1>g, <2>1, <2>2, <2>3, <2>4 DEF b, c
<1>7. CASE a = 3
  <2>1. nx = x - 1 /\ ny = y /\ ~exit /\ (off <=> ~(x - 1 >= 0))
    BY <1>1, <1>d, <1>x, <1>e, <1>7
  <2>2. b.pos = IF x - 1 >= 0 THEN y * Size + (x - 1) ELSE t.pos
    BY <1>f, <1>7, <2>1
  <2>3. /\ c.pos = IF x - 1 >= 0 THEN y * Size + (x - 1) ELSE t.pos
        /\ c.good = t.good
        /\ c.active = TRUE
    <3>1. CASE x - 1 >= 0
      <4>1. c = Yield(y * Size + (x - 1), t.good, TRUE, 0)
        BY <1>s, <1>7, <3>1 DEF c
      <4>2. c.pos = y * Size + (x - 1) /\ c.good = t.good /\ c.active = TRUE
        BY <4>1 DEF Yield
      <4> QED BY <3>1, <4>2
    <3>2. CASE ~(x - 1 >= 0)
      <4>1. c = Yield(t.pos, t.good, TRUE, -1000)
        BY <1>s, <1>7, <3>2 DEF c
      <4>2. c.pos = t.pos /\ c.good = t.good /\ c.active = TRUE
        BY <4>1 DEF Yield
      <4> QED BY <3>2, <4>2
    <3> QED BY <3>1, <3>2
  <2>4. b.good = t.good /\ b.active = ~exit
    BY <1>f, <1>7
  <2> QED BY <1>g, <2>1, <2>2, <2>3, <2>4 DEF b, c
<1>8. CASE a = 4
  <2>1. ~exit
    BY <1>e, <1>8
  <2>2. PICK r : c = Yield(t.pos, t.good \ RocksIn(t.pos), TRUE, r)
    <3>1. c = ApplyAction(t, 4)
      BY <1>8 DEF c
    <3>2. \E r : ApplyAction(t, 4) = Yield(t.pos, t.good \ RocksIn(t.pos), TRUE, r)
      BY <1>s
    <3> QED BY <3>1, <3>2
  <2>3. c.pos = t.pos /\ c.good = t.good \ RocksIn(t.pos) /\ c.active = TRUE
    BY <2>2 DEF Yield
  <2>4. b.pos = t.pos /\ b.good = t.good \ RocksIn(t.pos) /\ b.active = ~exit
    BY <1>f, <1>8, <2>1
  <2> QED BY <2>1, <2>3, <2>4 DEF b, c
<1>9. CASE a = 5
  <2>1. ~exit
    BY <1>e, <1>9
  <2>2. c = Yield(t.pos, t.good, TRUE, 0)
    BY <1>s, <1>9 DEF c
  <2>3. c.pos = t.pos /\ c.good = t.good /\ c.active = TRUE
    BY <2>2 DEF Yield
  <2>4. b.pos = t.pos /\ b.good = t.good /\ b.active = ~exit
    BY <1>f, <1>9, <2>1
  <2> QED BY <2>1, <2>3, <2>4 DEF b, c
<1> QED BY <1>4, <1>5, <1>6, <1>7, <1>8, <1>9

(* A step stays on the grid.                                               *)
LEMMA StepInside ==
  ASSUME NEW t \in RockStates, NEW a \in 0..5
  PROVE  StepBatch(t, a).pos \in Cells /\ StepBatch(t, a).good \in SUBSET t.good
<1> DEFINE nx == (t.pos % Size) + Dx[a]
           ny == (t.pos \div Size) + Dy[a]
           exit == a = East /\ nx >= Size
           off == a < Sample /\ ~exit /\ OffGrid(nx, ny)
           moved == a < Sample /\ ~exit /\ ~off
<1>1. StepBatch(t, a).pos = IF moved THEN ny * Size + nx ELSE t.pos
  BY Zenon DEF StepBatch, Yield
<1>2. StepBatch(t, a).good = IF a = Sample THEN t.good \ RocksIn(t.pos) ELSE t.good
  BY Zenon DEF StepBatch, Yield, Sampled
<1>3. moved => nx \in 0..(Size - 1) /\ ny \in 0..(Size - 1)
  BY DEF OffGrid
<1>4. t.pos \in Cells
  BY DEF RockStates
<1> HIDE DEF nx, ny, moved
<1>5. StepBatch(t, a).pos \in Cells
  <2>1. CASE moved
    <3>1. ny * Size + nx \in Cells
      BY <1>3, <2>1, CoordinatesCell
    <3> QED BY <1>1, <2>1, <3>1
  <2>2. CASE ~moved
    BY <1>1, <1>4, <2>2
  <2> QED BY <2>1, <2>2
<1> QED BY <1>2, <1>5

LEMMA RocksFinite == IsFiniteSet(Rocks)
<1>1. RockCell \in Injection(Rocks, Cells)
  BY GridAssumption DEF Injection, IsInjective
<1>2. IsFiniteSet(Cells)
  <2>1. Size * Size - 1 \in Int
    BY GridAssumption
  <2>2. IsFiniteSet(0..(Size * Size - 1))
    BY <2>1, FS_Interval
  <2> QED BY <2>2 DEF Cells
<1> QED BY <1>1, <1>2, FS_Injection

(* The state stays on the grid, and what a branch has collected is bounded *)
(* by the rocks it has sampled, none of which is good any more.            *)
WalkInv ==
  /\ robot \in RockStates
  /\ harvest \in Nat
  /\ sampled \in SUBSET Rocks
  /\ RockPaysOnce

LEMMA WalkInvInit == WalkInit => WalkInv
<1> SUFFICES ASSUME WalkInit PROVE WalkInv
  OBVIOUS
<1>1. Cardinality(sampled) = 0
  BY FS_EmptySet DEF WalkInit
<1> QED BY <1>1 DEF WalkInit, WalkInv, RockPaysOnce

LEMMA WalkInvStep == WalkInv /\ [WalkNext]_walkVars => WalkInv'
<1> SUFFICES ASSUME WalkInv, [WalkNext]_walkVars PROVE WalkInv'
  OBVIOUS
<1>1. CASE UNCHANGED walkVars
  BY <1>1 DEF WalkInv, RockPaysOnce, walkVars
<1>2. ASSUME NEW a \in 0..5, Expand(a) PROVE WalkInv'
  <2> DEFINE out == StepBatch(robot, a)
             more == sampled \union RocksIn(robot.pos)
  <2>1. /\ robot \in RockStates /\ harvest \in Nat /\ sampled \in SUBSET Rocks
        /\ harvest <= Cardinality(sampled) /\ sampled \intersect robot.good = {}
    BY DEF WalkInv, RockPaysOnce
  <2>2. /\ robot' = [pos |-> out.pos, good |-> out.good]
        /\ harvest' = IF a = Sample /\ out.reward > 0 THEN harvest + 1 ELSE harvest
        /\ sampled' = IF a = Sample THEN more ELSE sampled
    BY <1>2 DEF Expand
  <2>3. out.pos \in Cells /\ out.good \in SUBSET robot.good
    BY <2>1, StepInside
  <2>4. robot.good \in SUBSET Rocks
    BY <2>1 DEF RockStates
  <2>5. robot' \in RockStates /\ robot'.good = out.good
    BY <2>2, <2>3, <2>4 DEF RockStates
  <2>6. more \in SUBSET Rocks /\ sampled \subseteq more
    BY <2>1 DEF RocksIn
  <2>7. IsFiniteSet(sampled) /\ IsFiniteSet(more)
    BY <2>1, <2>6, RocksFinite, FS_Subset
  <2>8. CASE a = Sample
    <3>1. out.good = robot.good \ RocksIn(robot.pos)
      BY <2>8, Zenon DEF StepBatch, Yield, Sampled
    <3>2. out.reward = SampleReward(robot)
      BY <2>8, Zenon DEF StepBatch, Yield
    <3>3. more \intersect robot'.good = {}
      BY <2>1, <2>5, <3>1
    <3>4. Cardinality(sampled) <= Cardinality(more)
      BY <2>6, <2>7, FS_Subset
    <3>5. Cardinality(sampled) \in Nat /\ Cardinality(more) \in Nat
      BY <2>7, FS_CardinalityType
    <3>6. ASSUME out.reward > 0 PROVE harvest + 1 <= Cardinality(more)
      <4>1. RocksIn(robot.pos) \intersect robot.good # {}
        BY <3>2, <3>6 DEF SampleReward
      <4>2. PICK r \in RocksIn(robot.pos) : r \in robot.good
        BY <4>1
      <4>3. r \notin sampled /\ sampled \union {r} \subseteq more
        BY <2>1, <2>6, <4>2
      <4>4. Cardinality(sampled \union {r}) = Cardinality(sampled) + 1
        BY <2>7, <4>3, FS_AddElement
      <4>5. Cardinality(sampled \union {r}) <= Cardinality(more)
        BY <2>7, <4>3, FS_Subset
      <4> QED BY <2>1, <3>5, <4>4, <4>5
    <3>7. harvest' \in Nat /\ harvest' <= Cardinality(sampled')
      BY <2>1, <2>2, <2>8, <3>4, <3>5, <3>6
    <3> QED BY <2>2, <2>5, <2>6, <2>8, <3>3, <3>7 DEF WalkInv, RockPaysOnce
  <2>9. CASE a # Sample
    <3>1. harvest' = harvest /\ sampled' = sampled
      BY <2>2, <2>9
    <3>2. sampled \intersect robot'.good = {}
      BY <2>1, <2>3, <2>5
    <3> QED BY <2>1, <2>5, <3>1, <3>2 DEF WalkInv, RockPaysOnce
  <2> QED BY <2>8, <2>9
<1> QED BY <1>1, <1>2 DEF WalkNext

THEOREM WalkCorrect == WalkSpec => []WalkInv
BY WalkInvInit, WalkInvStep, PTL DEF WalkSpec

(* Whatever the size of the grid, wherever the rocks lie and wherever the  *)
(* robot stands, stepBatch ends where applyAction does.                    *)
THEOREM BatchMatchesScalarHolds == WalkSpec => []BatchMatchesScalar
<1>1. WalkInv => BatchMatchesScalar
  BY SameStep DEF WalkInv, BatchMatchesScalar
<1> QED BY <1>1, WalkCorrect, PTL

(* Along a branch of any length a rock pays once.                          *)
THEOREM RockPaysOnceHolds == WalkSpec => []RockPaysOnce
<1>1. WalkInv => RockPaysOnce
  BY DEF WalkInv
<1> QED BY <1>1, WalkCorrect, PTL

(* What the search asks of a domain Rock Sample provides on every grid: a  *)
(* step leads from state to state, and the candidates of every layer are   *)
(* among its six actions.  So all that is shown above of the search holds  *)
(* of the search in Rock Sample.                                           *)
THEOREM RockSampleIsADomain ==
  ASSUME NEW height \in Nat
  PROVE  /\ BlankRock \in RockStates
         /\ StepTable \in [RockStates \X (0..5) ->
                             [state : RockStates, active : BOOLEAN, bad : BOOLEAN]]
         /\ CandidateTable(height) \in [0..(height + 1) -> Seq(0..5)]
<1>1. BlankRock \in RockStates
  <2>1. 0 \in Cells
    <3>1. Size \in Nat /\ Size >= 1
      BY GridAssumption
    <3>2. PICK k \in Nat : Size = k + 1
      <4>1. Size - 1 \in Nat /\ Size = (Size - 1) + 1
        BY <3>1
      <4> QED
        BY <4>1
    <3>3. Size * Size = k * k + 2 * k + 1 /\ k * k >= 0
      BY <3>2
    <3>4. Size * Size \in Int /\ k * k \in Int
      BY <3>2
    <3> QED
      BY <3>2, <3>3, <3>4 DEF Cells
  <2> QED
    BY <2>1 DEF BlankRock, RockStates
<1>2. ASSUME NEW x \in RockStates \X (0..5)
      PROVE  LET out == StepBatch(x[1], x[2])
             IN [state |-> [pos |-> out.pos, good |-> out.good], active |-> out.active,
                 bad |-> out.reward < PrunedThreshold]
                  \in [state : RockStates, active : BOOLEAN, bad : BOOLEAN]
  <2> DEFINE out == StepBatch(x[1], x[2])
  <2>1. x[1] \in RockStates /\ x[2] \in 0..5
    OBVIOUS
  <2>2. out.pos \in Cells /\ out.good \in SUBSET x[1].good
    BY <2>1, StepInside
  <2>3. x[1].good \in SUBSET Rocks
    BY <2>1 DEF RockStates
  <2>4. out.active \in BOOLEAN
    <3> DEFINE exit == x[2] = East /\ (x[1].pos % Size) + Dx[x[2]] >= Size
    <3>1. out.active = ~exit
      BY Zenon DEF StepBatch, Yield
    <3>2. (~exit) \in BOOLEAN
      OBVIOUS
    <3> QED
      BY <3>1, <3>2
  <2> HIDE DEF out
  <2>5. [pos |-> out.pos, good |-> out.good] \in RockStates
    BY <2>2, <2>3 DEF RockStates
  <2>6. (out.reward < PrunedThreshold) \in BOOLEAN
    OBVIOUS
  <2> QED
    BY <2>4, <2>5, <2>6 DEF out
<1>3. StepTable \in [RockStates \X (0..5) -> [state : RockStates, active : BOOLEAN, bad : BOOLEAN]]
  BY <1>2 DEF StepTable
<1>4. CandidateTable(height) \in [0..(height + 1) -> Seq(0..5)]
  <2>1. /\ <<Sense, North, East, South, West, Sample>> \in Seq(0..5)
        /\ <<North, East, South, West, Sample>> \in Seq(0..5)
    BY DEF Sense, North, East, South, West, Sample
  <2> QED
    BY <2>1 DEF CandidateTable
<1> QED
  BY <1>1, <1>3, <1>4

=============================================================================
