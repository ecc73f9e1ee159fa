---------------------------- MODULE StaticSearch ----------------------------
(***************************************************************************)
(* The pre-allocated tree search for driving: VecQMDP                      *)
(* (vec_qmdp_static.cpp) with exploreNodesVote, driven by the search loop  *)
(* and the batch expansion of VecQMDP_AD (vec_qmdp_ad.cpp).                *)
(*                                                                         *)
(* Nodes are heap indices: child a of node n is n * num_actions + 1 + a.   *)
(* Of a count only its being zero matters, of (path, offset) only the      *)
(* action that encodes it.  Q values are not kept: UCB may prefer any      *)
(* candidate, except that the depth penalty outweighs it if GapDominates.  *)
(* Scenarios have trees of their own and one thread runs them all, so the  *)
(* order among the lanes of a batch does not matter; here it is 0, 1, ...  *)
(***************************************************************************)
EXTENDS Integers, Sequences, FiniteSetsExt, Functions

CONSTANTS
  NumScenarios,  \* scenario_size_
  NumActions,    \* num_actions_
  TreeHeight,    \* tree_height_
  MaxIters,      \* bound: iterations of all the searches together
  MaxRounds,     \* bound: searches on the same object
  RootActions,   \* encodeAction(curr_path_idx, 1) for the ego's path
  Transitions,   \* computeNodeCandidateActions: [Actions -> Seq(Actions)]
  Step,          \* StepBatch: [Scenarios \X Actions \X Actions -> Outcome]
  GapDominates   \* is depth_sync_lambda_ larger than any UCB difference?

Scenarios == 0..(NumScenarios - 1)
Actions   == 0..(NumActions - 1)
Outcome   == [at : Actions, active : BOOLEAN]

(* tree_node_sizes_per_depth_ summed up, and the links of the heap layout. *)
LayerStart[d \in 0..(TreeHeight + 1)] ==
  IF d = 0 THEN 0 ELSE NumActions * LayerStart[d - 1] + 1
tree_node_size == LayerStart[TreeHeight + 1]
Nodes          == 0..(tree_node_size - 1)
Child(n, a)    == NumActions * n + 1 + a
Parent(n)      == (n - 1) \div NumActions
Children(n)    == {Child(n, a) : a \in Actions}
Depth[n \in Nodes] == IF n = 0 THEN 0 ELSE Depth[Parent(n)] + 1

ASSUME StaticAssumption ==
  /\ NumScenarios \in Nat \ {0} /\ NumActions \in Nat \ {0} /\ TreeHeight \in Nat \ {0}
  /\ MaxIters \in Nat /\ MaxRounds \in Nat /\ GapDominates \in BOOLEAN
  /\ RootActions \subseteq Actions
  /\ Transitions \in [Actions -> Seq(Actions)]
  /\ Step \in [Scenarios \X Actions \X Actions -> Outcome]

VARIABLES
  visited,     \* [Scenarios -> nodes with node_count_ > 0]
  active,      \* node_active_flags_
  at,          \* ego_curr_ref_path_idxs_ and _lateral_offsets_, encoded
  curr_action, \* node_curr_action_idxs_
  lo, hi,      \* node_min_depth_, node_max_depth_
  cands,       \* node_candidate_actions_ where node_actions_computed_
  pc,          \* "idle", "loop", "probe", "realign", "expand", "backup"
  iter, lane,
  cur,         \* the node a descent or backupDepth stands on
  sel,         \* explore_nodes and tmp_actions: [Scenarios -> [node, action]]
  target,      \* target_sync, or -1 while there is none
  repeated,    \* an expansion hit a visited child (history)
  round        \* searches started (history)

tree    == <<visited, active, at, curr_action, lo, hi>>
control == <<pc, iter, lane, cur, sel, target, repeated, round>>
vars    == <<tree, cands, control>>

Unreached == TreeHeight + 1   \* what resetTreeStructures puts in min_depth
Far       == TreeHeight + 2   \* numeric_limits<int>::max() in backupDepth

NoSelection == [s \in Scenarios |-> [node |-> 0, action |-> 0]]
PerNode(x) == [s \in Scenarios |-> [n \in Nodes |-> x]]

Init ==
  /\ visited = [s \in Scenarios |-> {}]
  /\ active = PerNode(TRUE) /\ at = PerNode(0) /\ curr_action = PerNode(0)
  /\ lo = PerNode(Unreached) /\ hi = PerNode(-1)
  /\ cands = [s \in Scenarios |-> <<>>]
  /\ pc = "idle" /\ iter = 0 /\ lane = 0 /\ cur = 0 /\ target = -1
  /\ sel = NoSelection
  /\ repeated = FALSE /\ round = 0

CandidatesOf(s, n) == IF n \in DOMAIN cands[s] THEN cands[s][n]
                                               ELSE Transitions[at[s][n]]
Cache(s, n) ==
  cands' = [cands EXCEPT ![s] =
              [m \in DOMAIN cands[s] \union {n} |-> CandidatesOf(s, m)]]

-----------------------------------------------------------------------------
(* Fault: the lists of the last search stay.                               *)
KeepCandidates == UNCHANGED cands

ClearCandidates == cands' = [s \in Scenarios |-> <<>>]

(* beliefTreeSearch up to its loop: resetTreeStructures, which leaves the  *)
(* active flags and the stored states of the last search, and the roots.   *)
BeginSearch ==
  /\ pc = "idle" /\ round < MaxRounds
  /\ visited' = [s \in Scenarios |-> {}]
  /\ lo' = PerNode(Unreached) /\ hi' = PerNode(-1)
  /\ ClearCandidates
  /\ \E root \in RootActions :
       /\ at' = [s \in Scenarios |-> [at[s] EXCEPT ![0] = root]]
       /\ curr_action' = [s \in Scenarios |-> [curr_action[s] EXCEPT ![0] = root]]
  /\ pc' = "loop" /\ round' = round + 1
  /\ UNCHANGED <<active, iter, lane, cur, sel, target, repeated>>

(* The planning time is over, or checkEarlyTermination says so.            *)
EndSearch ==
  /\ pc = "loop"
  /\ pc' = "idle"
  /\ UNCHANGED <<tree, cands, iter, lane, cur, sel, target, repeated, round>>

BeginIteration ==
  /\ pc = "loop" /\ iter < MaxIters
  /\ iter' = iter + 1
  /\ pc' = "probe"
  /\ UNCHANGED <<tree, cands, lane, cur, sel, target, repeated, round>>

-----------------------------------------------------------------------------
(* exploreNodesVote.  A descent stops at an unvisited root, at a leaf      *)
(* (both with the node's own action) or at the first unvisited candidate.  *)

Unvisited(s, n) ==
  {i \in 1..Len(CandidatesOf(s, n)) : Child(n, CandidatesOf(s, n)[i]) \notin visited[s]}

StopsAtItself(s, n) ==
  \/ n = 0 /\ n \notin visited[s]
  \/ Depth[n] = TreeHeight /\ CandidatesOf(s, n) # <<>>

StopAction(s, n) ==
  IF StopsAtItself(s, n) THEN curr_action[s][n]
  ELSE CandidatesOf(s, n)[Min(Unvisited(s, n))]

Stops(s, n) == StopsAtItself(s, n) \/ Unvisited(s, n) # {}

(* depth_votes and the target chosen among them: most votes, the deeper    *)
(* one on a tie, the leaf layer only if it is the only one.                *)
Votes(depths, d) == Cardinality({s \in Scenarios : depths[s] = d})

(* Fault: the leaf layer has a vote like every other.                      *)
VoteOfAll(depths) ==
  CHOOSE d \in 0..TreeHeight :
    \A e \in 0..TreeHeight :
      \/ Votes(depths, e) < Votes(depths, d)
      \/ Votes(depths, e) = Votes(depths, d) /\ e <= d

VoteUpTo(depths) ==
  LET winner[d \in -1..TreeHeight] ==
        IF d = -1 THEN [sync |-> 0, votes |-> -1]
        ELSE LET w == winner[d - 1]   n == Votes(depths, d) IN
             IF n = 0 \/ (d = TreeHeight /\ w.votes # -1) THEN w
             ELSE IF n >= w.votes THEN [sync |-> d, votes |-> n] ELSE w
  IN winner[TreeHeight].sync

(* Past the last probe: expand if the depths agree, else vote.             *)
Mismatched(s) == Depth[sel'[s].node] # target'

StartPhase(agreed) ==
  IF agreed
  THEN pc' = "expand" /\ lane' = 0 /\ UNCHANGED target
  ELSE /\ target' = VoteUpTo([s \in Scenarios |-> Depth[sel'[s].node]])
       /\ pc' = "realign"
       /\ lane' = Min({s \in Scenarios : Mismatched(s)})

AfterProbe ==
  IF lane < NumScenarios - 1
  THEN lane' = lane + 1 /\ UNCHANGED <<pc, target>>
  ELSE StartPhase(\A s, r \in Scenarios : Depth[sel'[s].node] = Depth[sel'[r].node])

AfterRealign ==
  LET rest == {s \in Scenarios : s > lane /\ Depth[sel[s].node] # target} IN
  /\ UNCHANGED target
  /\ IF rest = {} THEN pc' = "expand" /\ lane' = 0
                  ELSE lane' = Min(rest) /\ UNCHANGED pc

Stop ==
  /\ pc \in {"probe", "realign"}
  /\ Stops(lane, cur)
  /\ sel' = [sel EXCEPT ![lane] = [node |-> cur, action |-> StopAction(lane, cur)]]
  /\ IF cur = 0 /\ 0 \notin visited[lane] THEN UNCHANGED cands ELSE Cache(lane, cur)
  /\ cur' = 0
  /\ IF pc = "probe" THEN AfterProbe ELSE AfterRealign
  /\ UNCHANGED <<tree, iter, repeated, round>>

(* calculateUCB's penalty: the distance of target to [min, max].           *)
Gap(s, n) ==
  LET eff == IF target <= lo[s][n] THEN lo[s][n]
             ELSE IF target >= hi[s][n] THEN hi[s][n] ELSE target
  IN IF eff > target THEN eff - target ELSE target - eff

(* Fault: no candidate beats the initial best, the root.                   *)
DescendToRoot ==
  /\ pc \in {"probe", "realign"}
  /\ ~Stops(lane, cur)
  /\ Cache(lane, cur)
  /\ cur' = 0
  /\ UNCHANGED <<tree, pc, iter, lane, sel, target, repeated, round>>

(* selectNode: a child, in realignment with the least penalty; the root if *)
(* there is no candidate.                                                  *)
Descend ==
  /\ pc \in {"probe", "realign"}
  /\ ~Stops(lane, cur)
  /\ Cache(lane, cur)
  /\ LET below == {Child(cur, CandidatesOf(lane, cur)[i]) :
                     i \in 1..Len(CandidatesOf(lane, cur))}
     IN \E c \in (IF below = {} THEN {0} ELSE below) :
          /\ (pc = "realign" /\ GapDominates) =>
               \A d \in below : Gap(lane, c) <= Gap(lane, d)
          /\ cur' = c
  /\ UNCHANGED <<tree, pc, iter, lane, sel, target, repeated, round>>

-----------------------------------------------------------------------------
(* expandNodesBatch for one lane, with backPropagate.  Its visits go to    *)
(* the child and ancestors that have been visited already; if a value is   *)
(* below the pruning threshold they stop short, but the root gets one.     *)

NextLane ==
  IF lane < NumScenarios - 1
  THEN pc' = "expand" /\ lane' = lane + 1 /\ UNCHANGED <<sel, target>>
  ELSE pc' = "loop" /\ lane' = 0 /\ sel' = NoSelection /\ target' = -1

(* Fault: a pruned back-propagation does not count at the root.            *)
CountVisitsBelow(s, n) ==
  \E reached \in {{}, {0}} : visited' = [visited EXCEPT ![s] = @ \union {n} \union reached]

CountVisits(s, n) == visited' = [visited EXCEPT ![s] = @ \union {n, 0}]

(* Nothing lies below the last layer: the parent itself is backed up.      *)
ExpandLeaf ==
  /\ pc = "expand" /\ Depth[sel[lane].node] = TreeHeight
  /\ CountVisits(lane, sel[lane].node)
  /\ NextLane
  /\ UNCHANGED <<active, at, curr_action, lo, hi, cands, iter, cur, repeated, round>>

(* StepBatch leaves an inactive lane as it is.  The child is written, its  *)
(* visit counted, and backupDepth starts with the child's own depth.       *)
Expand ==
  /\ pc = "expand" /\ Depth[sel[lane].node] < TreeHeight
  /\ LET n   == sel[lane].node
         c   == Child(n, sel[lane].action)
         out == IF active[lane][n] THEN Step[lane, at[lane][n], sel[lane].action]
                ELSE [at |-> at[lane][n], active |-> FALSE]
     IN /\ repeated' = (repeated \/ c \in visited[lane])
        /\ active' = [active EXCEPT ![lane][c] = out.active]
        /\ at' = [at EXCEPT ![lane][c] = out.at]
        /\ curr_action' = [curr_action EXCEPT ![lane][c] = sel[lane].action]
        /\ CountVisits(lane, c)
        /\ lo' = [lo EXCEPT ![lane][c] = Depth[c]]
        /\ hi' = [hi EXCEPT ![lane][c] = Depth[c]]
        /\ cur' = c
  /\ pc' = "backup"
  /\ UNCHANGED <<cands, iter, lane, sel, target, round>>

(* One turn of backupDepth's loop: the parent's interval from its active   *)
(* children, its own depth if a candidate is unvisited; unchanged: leave.  *)
(* Fault: terminal children count.                                         *)
NewLoOfAll(s, p) ==
  Min({lo[s][c] : c \in Children(p)}
        \union (IF Unvisited(s, p) # {} THEN {Depth[p]} ELSE {}))

NewLo(s, p) ==
  Min({IF active[s][c] THEN lo[s][c] ELSE Far : c \in Children(p)}
        \union (IF Unvisited(s, p) # {} THEN {Depth[p]} ELSE {}))
NewHi(s, p) ==
  Max({IF active[s][c] THEN hi[s][c] ELSE 0 : c \in Children(p)}
        \union (IF Unvisited(s, p) # {} THEN {Depth[p]} ELSE {}))

BackupLevel ==
  /\ pc = "backup"
  /\ LET p == Parent(cur) IN
       /\ Cache(lane, p)
       /\ lo' = [lo EXCEPT ![lane][p] = NewLo(lane, p)]
       /\ hi' = [hi EXCEPT ![lane][p] = NewHi(lane, p)]
       /\ IF p = 0 \/ (lo'[lane][p] = lo[lane][p] /\ hi'[lane][p] = hi[lane][p])
          THEN NextLane /\ cur' = 0
          ELSE cur' = p /\ UNCHANGED <<pc, lane, sel, target>>
  /\ UNCHANGED <<visited, active, at, curr_action, iter, repeated, round>>

-----------------------------------------------------------------------------
Work ==
  \/ EndSearch \/ BeginIteration \/ Stop \/ Descend
  \/ ExpandLeaf \/ Expand \/ BackupLevel

Next == BeginSearch \/ Work

(* The thread inside a search keeps running.                               *)
Spec == Init /\ [][Next]_vars /\ WF_vars(Work)

-----------------------------------------------------------------------------
(* Each variable stays within its type.                                    *)
TypeOK ==
  /\ visited \in [Scenarios -> SUBSET Nodes]
  /\ active \in [Scenarios -> [Nodes -> BOOLEAN]]
  /\ at \in [Scenarios -> [Nodes -> Actions]]
  /\ curr_action \in [Scenarios -> [Nodes -> Actions]]
  /\ lo \in [Scenarios -> [Nodes -> 0..Far]]
  /\ hi \in [Scenarios -> [Nodes -> -1..TreeHeight]]
  /\ \A s \in Scenarios :
       /\ DOMAIN cands[s] \subseteq Nodes
       /\ \A n \in DOMAIN cands[s] : cands[s][n] \in Seq(Actions)
  /\ pc \in {"idle", "loop", "probe", "realign", "expand", "backup"}
  /\ iter \in 0..MaxIters /\ lane \in Scenarios /\ cur \in Nodes
  /\ sel \in [Scenarios -> [node : Nodes, action : Actions]]
  /\ target \in -1..TreeHeight
  /\ repeated \in BOOLEAN /\ round \in 0..MaxRounds

(* The depths at which a descent through active nodes below n can stop.    *)
LeafDepths(s) ==
  LET ends[n \in Nodes] ==
        (IF Depth[n] = TreeHeight \/ Unvisited(s, n) # {} THEN {Depth[n]} ELSE {})
          \union (IF Depth[n] = TreeHeight THEN {} ELSE
                  UNION {ends[c] : c \in {d \in Children(n) :
                                            d \in visited[s] /\ active[s][d]}})
  IN ends

(* "[min_depth, max_depth] intervals that record the shallowest and        *)
(* deepest leaves reachable": backupDepth stops climbing at the first      *)
(* unchanged interval and reads flags an earlier search left, and still    *)
(* every interval is the one a full recomputation gives.                   *)
IntervalExact ==
  pc = "loop" =>
    \A s \in Scenarios :
      LET ends == LeafDepths(s) IN
      \A n \in visited[s] :
        (n = 0 \/ active[s][n]) /\ ends[n] # {} =>
          lo[s][n] = Min(ends[n]) /\ hi[s][n] = Max(ends[n])

(* The synchronisation depth has the most votes below the leaf layer, the  *)
(* deeper one on a tie, and is the leaf layer only if nobody is above it.  *)
VoteIsMajority ==
  [][(pc = "probe" /\ pc' = "realign") =>
       LET votes(d) == Cardinality({s \in Scenarios : Depth[sel'[s].node] = d}) IN
       /\ target' < TreeHeight /\ votes(target') > 0
       /\ \A d \in 0..(TreeHeight - 1) :
            votes(d) <= votes(target') /\ (votes(d) = votes(target') => d <= target')]_vars

(* No simulation is spent on a child that has been expanded before: pruned *)
(* back-propagations included, a root once expanded counts as visited.     *)
NoReexpansion == ~repeated

(* The cached candidates of a node are those of its present state, also    *)
(* after the ego has changed to another path between two searches.         *)
CandidatesCurrent ==
  pc = "loop" =>
    \A s \in Scenarios : \A n \in DOMAIN cands[s] :
      cands[s][n] = Transitions[at[s][n]]

(* A scenario is left at another depth than the voted one only if no       *)
(* descent through active nodes could have stopped at the voted depth.     *)
SyncWhenPossible ==
  (pc = "expand" /\ lane = 0 /\ target # -1) =>
    \A s \in Scenarios :
      Depth[sel[s].node] # target =>
        LET reach[n \in Nodes] ==
              \/ n = 0
              \/ n \in visited[s] /\ active[s][n] /\ reach[Parent(n)]
                   /\ ~Stops(s, Parent(n))
        IN \A n \in Nodes : (reach[n] /\ Depth[n] = target) => ~Stops(s, n)

(* A search ends, however the descents and the climbs go.                  *)
SearchEnds == (pc # "idle") ~> (pc = "idle")

=============================================================================
