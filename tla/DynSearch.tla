----------------------------- MODULE DynSearch -----------------------------
(***************************************************************************)
(* The dynamic belief-tree search: DynVecQMDP (vec_qmdp_dynamic.cpp) on a  *)
(* DynSoAPool (dynamic_soa_pool.hpp), driven by the search loop and the    *)
(* batch expansion of RockSampleVecQMDP (rock_sample_dynamic_vecqmdp.cpp). *)
(*                                                                         *)
(* One worker owns everything here, so the interleaving is the program's   *)
(* own order: per iteration all scenarios select, then all expand, then    *)
(* all back-propagate.  One action is one turn of a loop of the code: a    *)
(* level of a descent, a lane of the batch, a level of a back-propagation. *)
(* Q values are not kept: the UCB maximum may be any visited candidate and *)
(* a cumulative value may or may not fall below the pruning threshold.     *)
(* Slots keep their contents over resetDynStructures, as the chunks do.    *)
(***************************************************************************)
EXTENDS Integers, Sequences, Functions

CONSTANTS
  NumScenarios,  \* scenario_size_
  NumActions,    \* num_actions_
  TreeHeight,    \* tree_height_
  MaxIters,      \* max_iters of beliefTreeSearch
  States,        \* domain states (robot position and rock bits)
  InitStates,    \* the states of the particles handed to beliefTreeSearch
  BlankState,    \* what ensureDomainCapacity fills new slots with
  Step,          \* stepBatch for one lane: [States \X Actions -> Outcome]
  Candidates,    \* computeNodeCandidateActionsDyn: [0..(TreeHeight + 1) -> Seq]
  MayFallBelow,  \* can a cumulative value be below pruned_threshold_ alone?
  ChunkCapacity, \* DYN_CHUNK_CAPACITY
  InitialChunks, \* the constructor's initial_chunks
  MaxSlots,      \* bound: slots the model has memory for
  MaxRounds      \* bound: searches on the same worker

Scenarios == 0..(NumScenarios - 1)
Actions   == 0..(NumActions - 1)
Slots     == 0..(MaxSlots - 1)
Invalid   == -1                      \* DYN_INVALID_IDX
Outcome   == [state : States, active : BOOLEAN, bad : BOOLEAN]

ASSUME SizesAssumption ==
  /\ NumScenarios \in Nat \ {0} /\ NumActions \in Nat \ {0}
  /\ TreeHeight \in Nat \ {0}   /\ MaxIters \in Nat
  /\ MayFallBelow \in BOOLEAN
  /\ ChunkCapacity \in Nat \ {0} /\ InitialChunks \in Nat \ {0}
  /\ MaxSlots \in Nat /\ MaxSlots >= NumScenarios /\ MaxRounds \in Nat
ASSUME DomainAssumption ==
  /\ InitStates \subseteq States /\ BlankState \in States
  /\ Step \in [States \X Actions -> Outcome]
  /\ Candidates \in [0..(TreeHeight + 1) -> Seq(Actions)]

VARIABLES
  total,       \* total_allocated_
  chunks,      \* chunks_.size()
  depth, parent_idx, child_base, visit_count, active_flag, curr_action,
  bad_reward,  \* the stored reward is below pruned_threshold_
  dom,         \* robot_pos_flat_ and rock_bits_flat_
  cache,       \* dyn_candidate_actions_: a partial function on slots
  pc,          \* "idle", "loop", "explore", "expand" or "backprop"
  iter,        \* iterations of the search loop so far
  lane,        \* the scenario the current loop is at
  cur,         \* cur_g or cur: the node a descent or a back-up stands on
  result,      \* explore_results: [Scenarios -> [parent, action]]
  round,       \* searches started on this worker (history)
  written,     \* slots whose domain state this search has written (history)
  owner        \* [Slots -> scenario whose tree holds the slot] (history)

pool    == <<total, chunks, depth, parent_idx, child_base, visit_count,
             active_flag, curr_action, bad_reward>>
control == <<pc, iter, lane, cur, result, round>>
ghosts  == <<written, owner>>
vars    == <<pool, dom, cache, control, ghosts>>

Allocated == 0..(total - 1)
Block(b)  == b..(b + NumActions - 1)

(* The constructor: chunks are value-initialised, nothing is allocated.    *)
Init ==
  /\ total = 0 /\ chunks = InitialChunks
  /\ depth = [g \in Slots |-> 0]
  /\ parent_idx = [g \in Slots |-> 0]
  /\ child_base = [g \in Slots |-> 0]
  /\ visit_count = [g \in Slots |-> 0]
  /\ active_flag = [g \in Slots |-> FALSE]
  /\ curr_action = [g \in Slots |-> 0]
  /\ bad_reward = [g \in Slots |-> FALSE]
  /\ dom = [g \in Slots |-> BlankState]
  /\ cache = <<>>
  /\ pc = "idle" /\ iter = 0 /\ lane = 0 /\ cur = Invalid
  /\ result = [s \in Scenarios |-> [parent |-> Invalid, action |-> 0]]
  /\ round = 0 /\ written = {} /\ owner = [g \in Slots |-> 0]

-----------------------------------------------------------------------------
(* DynSoAPool::allocate and init_node for the slots of B, all at depth d   *)
(* below parent p; kids gives the child_base the caller leaves on p.       *)

ChunksFor(n) == ((n - 1) \div ChunkCapacity) + 1

InitNodes(B, d, p) ==
  /\ depth' = [g \in Slots |-> IF g \in B THEN d ELSE depth[g]]
  /\ parent_idx' = [g \in Slots |-> IF g \in B THEN p ELSE parent_idx[g]]
  /\ visit_count' = [g \in Slots |-> IF g \in B THEN 0 ELSE visit_count[g]]

Allocate(n) ==
  /\ total' = total + n
  /\ chunks' = IF ChunksFor(total + n) > chunks THEN ChunksFor(total + n)
                                                ELSE chunks

(* getDynCandidateActions: the list for g, and the cache with g in it.     *)
CandidatesOf(g) ==
  IF g \in DOMAIN cache THEN cache[g] ELSE Candidates[depth[g]]

CacheCandidates(g) ==
  cache' = [h \in DOMAIN cache \union {g} |-> CandidatesOf(h)]

-----------------------------------------------------------------------------
(* Fault: the lists of the last search stay.                               *)
KeepCandidates == cache' = cache

ClearCandidates == cache' = <<>>

(* beliefTreeSearch up to its loop: resetDynStructures, initDynRoots and   *)
(* sampleScenarios.                                                        *)
BeginSearch ==
  /\ pc = "idle"
  /\ round < MaxRounds
  /\ round' = round + 1
  /\ total' = NumScenarios
  /\ chunks' = IF ChunksFor(NumScenarios) > chunks THEN ChunksFor(NumScenarios)
                                                   ELSE chunks
  /\ InitNodes(Scenarios, 0, Invalid)
  /\ child_base' = [g \in Slots |-> IF g \in Scenarios THEN Invalid ELSE child_base[g]]
  /\ active_flag' = [g \in Slots |-> (g \in Scenarios) \/ active_flag[g]]
  /\ curr_action' = [g \in Slots |-> IF g \in Scenarios THEN 0 ELSE curr_action[g]]
  /\ bad_reward' = [g \in Slots |-> (g \notin Scenarios) /\ bad_reward[g]]
  /\ ClearCandidates
  /\ \E particle \in [Scenarios -> InitStates] :
       dom' = [g \in Slots |-> IF g \in Scenarios THEN particle[g] ELSE dom[g]]
  /\ written' = Scenarios
  /\ owner' = [g \in Slots |-> IF g \in Scenarios THEN g ELSE owner[g]]
  /\ iter' = 0
  /\ pc' = "loop"
  /\ UNCHANGED <<lane, cur, result>>

(* The loop leaves on max_iters, or, on every tenth iteration, because the *)
(* wall clock has passed max_planning_time_ms_.                            *)
EndSearch ==
  /\ pc = "loop"
  /\ iter = MaxIters \/ iter % 10 = 0
  /\ pc' = "idle"
  /\ UNCHANGED <<pool, dom, cache, iter, lane, cur, result, round, ghosts>>

BeginIteration ==
  /\ pc = "loop"
  /\ iter < MaxIters
  /\ pc' = "explore"
  /\ lane' = 0
  /\ cur' = 0
  /\ UNCHANGED <<pool, dom, cache, iter, result, round, ghosts>>

-----------------------------------------------------------------------------
(* exploreNodes, for the scenario in lane.                                 *)

(* Fault: the next descent starts at this scenario's root again.           *)
SelectStale(p, a) ==
  /\ result' = [result EXCEPT ![lane] = [parent |-> p, action |-> a]]
  /\ IF lane < NumScenarios - 1
     THEN pc' = "explore" /\ lane' = lane + 1 /\ cur' = lane
     ELSE pc' = "expand" /\ lane' = 0 /\ cur' = Invalid

Select(p, a) ==
  /\ result' = [result EXCEPT ![lane] = [parent |-> p, action |-> a]]
  /\ IF lane < NumScenarios - 1
     THEN pc' = "explore" /\ lane' = lane + 1 /\ cur' = lane + 1
     ELSE pc' = "expand" /\ lane' = 0 /\ cur' = Invalid

IsLeaf(g) ==
  depth[g] >= TreeHeight \/ child_base[g] = Invalid \/ ~active_flag[g]

Unvisited(g) ==
  {i \in 1..Len(CandidatesOf(g)) :
     visit_count[child_base[g] + CandidatesOf(g)[i]] = 0}

(* A root without visits is taken as it is, with its first candidate.      *)
SelectRoot ==
  /\ pc = "explore" /\ cur = lane
  /\ visit_count[cur] = 0
  /\ CacheCandidates(cur)
  /\ Select(cur, IF CandidatesOf(cur) = <<>> THEN 0 ELSE CandidatesOf(cur)[1])
  /\ UNCHANGED <<pool, dom, iter, round, ghosts>>

Descending == pc = "explore" /\ (cur = lane => visit_count[cur] # 0)

(* A leaf is taken with the action stored in its curr_action.              *)
SelectLeaf ==
  /\ Descending
  /\ IsLeaf(cur)
  /\ CacheCandidates(cur)
  /\ Select(cur, curr_action[cur])
  /\ UNCHANGED <<pool, dom, iter, round, ghosts>>

(* Otherwise the first unvisited candidate, in priority order.             *)
SelectUnvisited ==
  /\ Descending
  /\ ~IsLeaf(cur)
  /\ CacheCandidates(cur)
  /\ \E i \in Unvisited(cur) :
       /\ \A j \in Unvisited(cur) : i <= j
       /\ Select(cur, CandidatesOf(cur)[i])
  /\ UNCHANGED <<pool, dom, iter, round, ghosts>>

(* selectNodeDyn: one level down to the candidate with the highest UCB; to *)
(* child_base itself if there is no candidate.                             *)
(* Fault: no way down.                                                     *)
DescendNowhere ==
  /\ Descending /\ ~IsLeaf(cur)
  /\ Unvisited(cur) = {}
  /\ CacheCandidates(cur)
  /\ cur' = lane
  /\ UNCHANGED <<pool, dom, pc, iter, lane, result, round, ghosts>>

Descend ==
  /\ Descending
  /\ ~IsLeaf(cur)
  /\ Unvisited(cur) = {}
  /\ CacheCandidates(cur)
  /\ LET cands == CandidatesOf(cur) IN
       \E a \in {cands[i] : i \in 1..Len(cands)}
                  \union (IF cands = <<>> THEN {0} ELSE {}) :
         cur' = child_base[cur] + a
  /\ UNCHANGED <<pool, dom, pc, iter, lane, result, round, ghosts>>

-----------------------------------------------------------------------------
(* expandNodesBatch for one lane: allocateDomainChildBlock on the first    *)
(* visit of the parent, stepBatch from the parent's domain state, and the  *)
(* scatter, which is skipped for a parent that is too deep or terminal.    *)

(* Faults: a block for every visit; the slot numbered by the lane.         *)
NewBlockAlways(p) == TRUE
LaneSlot(base, a) == base + lane

ChildSlot(base, a) == base + a

NewBlock(p) == child_base[p] = Invalid

Fits == total + NumActions <= MaxSlots

ExpandLane ==
  /\ pc = "expand"
  /\ LET p     == result[lane].parent
         a     == result[lane].action
         B     == IF NewBlock(p) THEN Block(total) ELSE {}
         child == ChildSlot(IF NewBlock(p) THEN total ELSE child_base[p], a)
         valid == depth[p] < TreeHeight /\ active_flag[p]
         out   == Step[<<dom[p], a>>]
     IN
     /\ NewBlock(p) => Fits
     /\ IF NewBlock(p) THEN Allocate(NumActions) ELSE UNCHANGED <<total, chunks>>
     /\ InitNodes(B, depth[p] + 1, p)
     /\ child_base' = [g \in Slots |->
          IF g \in B THEN Invalid
          ELSE IF g = p /\ NewBlock(p) THEN total ELSE child_base[g]]
     /\ active_flag' = [g \in Slots |->
          IF g = child /\ valid THEN out.active ELSE (g \in B) \/ active_flag[g]]
     /\ curr_action' = [g \in Slots |->
          IF g = child /\ valid THEN a ELSE IF g \in B THEN 0 ELSE curr_action[g]]
     /\ bad_reward' = [g \in Slots |->
          IF g = child /\ valid THEN out.bad ELSE (g \notin B) /\ bad_reward[g]]
     /\ dom' = IF valid THEN [dom EXCEPT ![child] = out.state] ELSE dom
     /\ written' = IF valid THEN written \union {child} ELSE written
     /\ owner' = [g \in Slots |-> IF g \in B THEN owner[p] ELSE owner[g]]
  /\ IF lane < NumScenarios - 1
     THEN lane' = lane + 1 /\ pc' = pc
     ELSE lane' = 0 /\ pc' = "backprop"
  /\ UNCHANGED <<cache, iter, cur, result, round>>

-----------------------------------------------------------------------------
(* Back-propagation, one scenario after the other.                         *)

NextLane ==
  /\ cur' = Invalid
  /\ IF lane < NumScenarios - 1
     THEN lane' = lane + 1 /\ UNCHANGED <<pc, iter>>
     ELSE lane' = 0 /\ pc' = "loop" /\ iter' = iter + 1

(* Fault: the child of a terminal parent is backed up.                     *)
BeginBackPropBelow ==
  /\ pc = "backprop" /\ cur = Invalid
  /\ cur' = child_base[result[lane].parent] + result[lane].action
  /\ UNCHANGED <<pool, dom, cache, pc, iter, lane, result, round, ghosts>>

(* A terminal parent is backed up itself, otherwise the expanded child.    *)
BeginBackProp ==
  /\ pc = "backprop" /\ cur = Invalid
  /\ LET p == result[lane].parent IN
       IF active_flag[p] /\ child_base[p] = Invalid
       THEN NextLane
       ELSE /\ cur' = IF active_flag[p] THEN child_base[p] + result[lane].action
                                        ELSE p
            /\ UNCHANGED <<pc, iter, lane>>
  /\ UNCHANGED <<pool, dom, cache, result, round, ghosts>>

(* Fault: the visit goes to the parent.                                    *)
BackPropParent ==
  /\ pc = "backprop" /\ cur # Invalid
  /\ IF parent_idx[cur] = Invalid
     THEN NextLane /\ UNCHANGED visit_count
     ELSE /\ visit_count' = [visit_count EXCEPT ![parent_idx[cur]] = @ + 1]
          /\ cur' = parent_idx[cur] /\ UNCHANGED <<pc, iter, lane>>
  /\ UNCHANGED <<total, chunks, depth, parent_idx, child_base, active_flag,
                 curr_action, bad_reward, dom, cache, result, round, ghosts>>

(* One level of backPropagate: count the visit; stop if the reward or the  *)
(* cumulative value is below the threshold, or at the root; else go up.    *)
BackPropLevel ==
  /\ pc = "backprop" /\ cur # Invalid
  /\ visit_count' = [visit_count EXCEPT ![cur] = @ + 1]
  /\ \E value_below \in {FALSE, MayFallBelow} :
       IF bad_reward[cur] \/ value_below \/ parent_idx[cur] = Invalid
       THEN NextLane
       ELSE cur' = parent_idx[cur] /\ UNCHANGED <<pc, iter, lane>>
  /\ UNCHANGED <<total, chunks, depth, parent_idx, child_base, active_flag,
                 curr_action, bad_reward, dom, cache, result, round, ghosts>>

-----------------------------------------------------------------------------
Work ==
  \/ EndSearch \/ BeginIteration
  \/ SelectRoot \/ SelectLeaf \/ SelectUnvisited \/ Descend
  \/ ExpandLane
  \/ BeginBackProp \/ BackPropLevel

Next == BeginSearch \/ Work

(* A worker thread that is inside a search keeps running; nobody has to    *)
(* start another search.                                                   *)
SafeSpec == Init /\ [][Next]_vars
Spec     == SafeSpec /\ WF_vars(Work)

-----------------------------------------------------------------------------
(* Each variable stays within its type.                                    *)
TypeOK ==
  /\ total \in 0..MaxSlots
  /\ chunks \in Nat \ {0}
  /\ depth \in [Slots -> 0..(TreeHeight + 1)]
  /\ parent_idx \in [Slots -> Slots \union {Invalid}]
  /\ child_base \in [Slots -> Slots \union {Invalid}]
  /\ visit_count \in [Slots -> Nat]
  /\ active_flag \in [Slots -> BOOLEAN]
  /\ curr_action \in [Slots -> Actions]
  /\ bad_reward \in [Slots -> BOOLEAN]
  /\ dom \in [Slots -> States]
  /\ DOMAIN cache \subseteq Slots
  /\ \A g \in DOMAIN cache : cache[g] \in Seq(Actions)
  /\ pc \in {"idle", "loop", "explore", "expand", "backprop"}
  /\ iter \in 0..MaxIters
  /\ lane \in Scenarios
  /\ cur \in Slots \union {Invalid}
  /\ result \in [Scenarios -> [parent : Slots \union {Invalid}, action : Actions]]
  /\ round \in 0..MaxRounds
  /\ written \subseteq Slots
  /\ owner \in [Slots -> Scenarios]

(* The explicit topology is a forest: parent and child links are each      *)
(* other's inverse, so no two parents share a block and no block is lost,  *)
(* and every link stays below total_allocated_, whatever earlier searches  *)
(* left in the slots.                                                      *)
TreeShape ==
  pc # "idle" =>
    \A g \in Allocated :
      /\ g \in Scenarios => depth[g] = 0 /\ parent_idx[g] = Invalid
      /\ g \notin Scenarios =>
           /\ parent_idx[g] \in 0..(g - 1)
           /\ depth[g] = depth[parent_idx[g]] + 1
           /\ child_base[parent_idx[g]] # Invalid
           /\ g \in Block(child_base[parent_idx[g]])
      /\ child_base[g] # Invalid =>
           /\ Block(child_base[g]) \subseteq Allocated \ Scenarios
           /\ \A c \in Block(child_base[g]) : parent_idx[c] = g

(* The gather of expandNodesBatch reads a state that this search wrote:    *)
(* slots are reused without being cleared, and a node becomes selectable   *)
(* only after its own expansion stored its state.                          *)
FreshDomainState ==
  /\ pc = "explore" => cur \in written \intersect Allocated
  /\ pc = "expand" =>
       \A s \in lane..(NumScenarios - 1) :
         result[s].parent \in written \intersect Allocated

(* Every stored state is its parent's state moved on by the action of its  *)
(* place in the block, with the flag that goes with it: no lane of a batch *)
(* ends up in the slot of another, and no stored state changes afterwards  *)
(* under the children that were computed from it.                          *)
StatesFollowTransitions ==
  pc # "idle" =>
    \A g \in (written \intersect Allocated) \ Scenarios :
      LET p   == parent_idx[g]
          out == Step[<<dom[p], g - child_base[p]>>]
      IN p \in written /\ dom[g] = out.state /\ active_flag[g] = out.active

(* Scenarios share one pool but never each other's nodes: a descent or a   *)
(* back-propagation started for a scenario stays in its own tree.          *)
LaneIsolation ==
  /\ pc \in {"explore", "backprop"} /\ cur # Invalid => owner[cur] = lane
  /\ pc \in {"expand", "backprop"} =>
       \A s \in lane..(NumScenarios - 1) : owner[result[s].parent] = s

(* Selection never returns a node deeper than tree_height_, so the vote    *)
(* array of exploreNodesVote, sized tree_height_ + 1, is indexed in range. *)
SelectedDepthInRange ==
  pc \in {"expand", "backprop"} =>
    \A s \in Scenarios : depth[result[s].parent] <= TreeHeight

(* UCB takes the logarithm of the parent's visit count: the descent never  *)
(* scores the children of a node that has not been visited itself.         *)
UcbParentVisited ==
  (pc = "explore" /\ (cur = lane => visit_count[cur] # 0)) => visit_count[cur] > 0

(* Visits are counted once per back-propagation: between iterations a root *)
(* has no more visits than its children together, and an active node below *)
(* depth 1 at most one more than its children.                             *)
VisitAccounting ==
  pc = "loop" =>
    \A g \in Allocated :
      LET below == [c \in Block(child_base[g]) |-> visit_count[c]] IN
      child_base[g] # Invalid /\ active_flag[g] /\ depth[g] # 1 =>
        visit_count[g] <= (IF depth[g] = 0 THEN 0 ELSE 1)
                            + FoldFunction(LAMBDA x, y : x + y, 0, below)

(* Nothing is searched behind a terminal node: it is backed up itself, so  *)
(* the block it gets when it is selected again stays without visits.       *)
TerminalChildrenUnvisited ==
  pc = "loop" =>
    \A g \in Allocated :
      ~active_flag[g] /\ child_base[g] # Invalid =>
        \A c \in Block(child_base[g]) : visit_count[c] = 0

(* Every allocated slot lies in a chunk that exists.                       *)
ChunksCover == total <= chunks * ChunkCapacity

(* A cached candidate list is the one of the node that holds the slot now, *)
(* not of a node an earlier search had there.                              *)
CacheCurrent ==
  pc # "idle" =>
    \A g \in DOMAIN cache : g \in Allocated /\ cache[g] = Candidates[depth[g]]

(* A search ends whatever the tree and the values look like: each descent  *)
(* goes down, each back-propagation goes up, each iteration counts.        *)
SearchEnds == (pc # "idle") ~> (pc = "idle")

-----------------------------------------------------------------------------
(* Statements of the comments and documents that the code does not keep.   *)

(* Comment of backPropagate: "If pruned before reaching root: bump root    *)
(* visit count so UCB does not treat it as unexplored."                    *)
PruneBumpsRoot ==
  [][(pc = "backprop" /\ cur # Invalid /\ cur' = Invalid)
       => visit_count'[lane] = visit_count[lane] + 1]_vars

(* Constructor's documentation: the search has "layers 0 ... tree_height". *)
VisitedWithinHeight ==
  pc = "loop" =>
    \A g \in Allocated : visit_count[g] > 0 => depth[g] <= TreeHeight
=============================================================================
