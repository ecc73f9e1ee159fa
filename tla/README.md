# VecQMDP in TLA+

VecQMDP is an online planner under partial observability: it samples scenarios
(particles of a belief), searches a tree for each of them, many scenarios at a
time with SIMD instructions, and combines the trees' root values into one action
(QMDP). It drives cars in nuPlan (`src/src`, `src/python_planner`) and plays Rock
Sample (`src/examples/rock_sample`). This directory holds TLA+ models of its control
logic, TLC runs that check them on small instances, and TLAPS proofs for all
instances. `PROJECT.json` maps each definition to the lines it models.

## 1. Inventory

| Part | Code | State it keeps | Operations | Correct means |
|---|---|---|---|---|
| Thread pool | `utils/global_utils` | task queue, `stop`, worker threads | `enqueue`/`addTask`, the workers' loop, destructor | every accepted task runs once; shutdown drains the queue and ends |
| Dynamic node pool | `dynamic_soa_pool.hpp` | chunks of node arrays, `total_allocated_` | `allocate`, `init_node`, `reset` | every slot is backed by a chunk; contents of a reused slot never show |
| Dynamic tree search | `vec_qmdp_dynamic` | explicit tree links, visit counts, Q values, candidate cache | `initDynRoots`, `exploreNodes`, `selectNodeDyn`, `allocateChildBlock`, `backPropagate` | the links form one tree per scenario; descents and back-ups end and stay in their tree |
| Rock Sample domain | `rock_sample_dynamic_vecqmdp` | position and rocks of every slot, generators, entropy bonuses | `beliefTreeSearch`, `expandNodesBatch`, `stepBatch`, `applyAction`, `sampleScenarios`, `getBestAction` | SIMD and scalar transitions agree; a stored state is its parent's successor |
| Parallel dispatch | `dispatchParallelSearch` (both back-ends), `parallelBeliefTreeSearch` | worker instances, aggregation buffers | dispatch, futures, averages, best action | the aggregate is that of this dispatch's workers; nothing outlives what it refers to |
| Static tree search | `vec_qmdp_static` | heap-indexed nodes, depth intervals, candidate cache | `resetTreeStructures`, `exploreNodesVote`, `selectNode`, `backPropagate`, `backupDepth` | scenarios are expanded at one depth where possible; no simulation is repeated |
| Driving domain | `vec_qmdp_ad` | sampled agents, their indices, node contexts, returns | `sampleScenarios`, `expandNodesBatch` with its rollout | a return is what the scenario alone would be charged; branches do not see each other |
| Forward simulation | `context_qmdp` (`StepBatch` and its laws of motion), `reward_functions` | lanes of a batch | lead search, lane-change allowance, red lights, kinematics, path switch, penalties | a lane's outcome does not depend on the lanes it shares a batch with |
| Early termination | both back-ends | per-tree counters, last best action and value | `updateConvergenceTracking`, `checkEarlyTermination` | stops only after the stated number of stable checks |
| Trajectory planner | `qmdp_trajectory_planner` | last best action, a second pool, Python thread state | `planTrajectory`, `getBestAction`, `parallelTrajectoryOptimization` | the trajectory belongs to the action that was chosen |
| Closed-loop planner | `vec_qmdp_closed_planner` | statics over frames: last action, reference line ids | `MakePlanning`, `initialize` | what an earlier frame left still fits the present paths |
| Map and reference paths | `map_utils`, `path_utils` | path slots, caches of map objects | `GetEgoRefPaths`, `UpdateEgoRefPaths`, `ExtendPath`, `UpdateEgoEdge` | the current index names the ego's path; tables indexed by points fit the points |
| Drivable map | `occupancy_map`, `python_planner/utils/map_utils_py.py` | polygons in C++, what was sent in Python | `UpdateDrivableMapObjects`, `GetDrivableMapObjects` | both sides agree on what is there |
| Packed spatial index | `collision/STRtree` | boxes in arrays that are never cleared | `insertBatch`, `build`, `queryBatch` | a query answers for the boxes of this frame only |
| Collision tests | `context_qmdp`, `reward_functions` | agents that are dismissed | separating-axis tests, `HasCollisionBatch`, kind of a contact | the verdict is the geometry's; a dismissed agent hides nobody |
| Trajectory optimisation | `trajectory_optimization`, the proposal batches of `context_qmdp` | proposals, published points, sampled futures, values | generate, `importanceSampleScenarios`, `crossScenarioEvaluationBatch`, choice, emergency brake | what is scored is what is driven; a row's values are its members' |
| Belief, ego and agent state | `net_belief`, `state` | agents, modes, histories | update, sample, Frenet points | the sampled futures are those of the belief |
| Trajectory tracker | `tracker` | LQR state | floating-point algebra | outside TLC's reach |
| Python | `python_planner` | agents' histories | conversion between nuPlan and C++ | a history belongs to its agent |

How they interact: `MakePlanning` builds the reference paths and calls the
trajectory planner, which calls `parallelBeliefTreeSearch`. That hands one task per
worker instance to the `ThreadPool` through `dispatchParallelSearch` and blocks on
the futures; a task resets the instance's tree and iterates selection (all
scenarios), expansion (SIMD batch) and back-propagation. The caller aggregates the
root values, reads the workers' trees for a second action, and optimises
trajectories on a second pool: each proposal is moved along its path by `ContextQMDP`,
scored against futures that are sampled anew and indexed anew, and one is published or
a brake in its stead. There is no shared mutable state inside a dispatch
except the pool's queue; everything else is one thread per instance.

What is hard: the wake-ups and the shutdown of the pool; a task that throws while
others still run; buffers, slots and caches that are reused without being cleared
(over searches, dispatches, frames); indices computed before they are known to be
valid (SIMD); the depth synchronisation, which relies on intervals that are
maintained incrementally; loops with no bound (descents); lanes of one SIMD batch that begin, crash,
reach their goal or change path at different steps and still share a loop, a query box and
a law of motion; statics and globals that outlive a frame or a scenario while the
reference paths they index are replaced; a map that two processes update by differences. `PROJECT.json`
lists these hazards at their lines, each with the properties that cover it.

## 2. Modules

| Module | Models | Run or use |
|---|---|---|
| `TaskQueue` | what a user may assume of a pool: a FIFO queue of tasks with a closing | abstract specification |
| `ThreadPool` | mutex, condition variable, worker loop, `addTask`, destructor | `pool` |
| `DynSearch` | node pool, dynamic search and the Rock Sample search loop, for any domain | `MCDynSearch`, `MCRockSample` |
| `DynSearchProofs` | theorems about `DynSearch`, `RockSample` and `RockWalk` | TLAPS |
| `RockSample` | grid, rocks, both transition functions, candidate lists | constant-level |
| `RockWalk` | one scenario along a branch | `MCRockWalk` |
| `ParallelSearch` | dispatch, aggregation, choice, destruction; uses `TaskQueue` as its pool | `parallel` |
| `StaticSearch` | the pre-allocated search with majority vote and depth intervals | `MCStaticSearch` |
| `StaticSearchProofs` | theorems about `StaticSearch` | TLAPS |
| `RouteMap` | the road graph as `MapUtils` answers for it, and `UpdateEgoEdge` | constant-level, used by `RefPaths` |
| `RefPaths` | `ExtendPath`, `GetEgoRefPaths`, `UpdateEgoRefPaths`, lights | used by `PlannerFrame` |
| `PlannerFrame` | `MakePlanning` and `planTrajectory` over frames and scenarios, the drivable map | `planner` (`MCPlanner`) |
| `PlannerFrameProofs` | theorems about the drivable map, the lights, the current path and the point tables | TLAPS |
| `ParallelSearchProofs` | theorems about `ThreadPool` and `ParallelSearch` | TLAPS |
| `Motion` | what `ContextQMDP` moves a lane by: gaps, allowance, car following, steering | used by the next two |
| `ForwardStep` | `sampleScenarios` and `expandNodesBatch` of the driving domain with `StepBatch` | `forward` (`MCForward`) |
| `ForwardStepProofs` | theorems about `ForwardStep` | TLAPS |
| `DataLemmas` | induction over sets of numbers, minima, maxima and sums, for the proofs | TLAPS |
| `ProposalSteps` | the lane-following and lane-changing proposal batches | `proposals` (`MCProposals`) |
| `ProposalStepsProofs` | theorems about `ProposalSteps` | TLAPS |
| `BoxOverlap` | oriented boxes, exact over rational headings | constant-level |
| `SpatialIndex` | `STRtree` with its reused arrays | constant-level, used by `CrossEvaluation` |
| `CrossEvaluation` | sampled futures, both `HasCollisionBatch`, evaluation, choice, brake | `evaluation` (`MCEvaluation`) |
| `CrossEvaluationProofs` | theorems about `SpatialIndex` as `CrossEvaluation` uses it | TLAPS |

`ParallelSearch` composes the other layers: its pool is an instance of `TaskQueue`,
which `ThreadPool` is shown to implement, and what a task does is one search, which
`DynSearch` and `StaticSearch` show to end. `StaticSearch` takes the transition of the
driving domain as a table; `ForwardStep` is that transition, with any order of expansions
the search may choose. `CrossEvaluation` puts the collision tests on top of the index.

### Correspondence

*ThreadPool.* A critical section is one action; what the code does outside the
mutex is an action of its own, so `notify_one` after a push (`NotifyOne`) and
`notify_all` after `stop` (`NotifyAll`) race with workers that go to sleep.
`worker[w] = "waiting"` is a thread inside `condition.wait`; a wake-up moves it to
"ready", from where it must test the predicate again; `SpuriousWakeup` does that
for no reason. A worker of the code is one of `Threads`, the threads that call `enqueue` are `Clients`
(names of its own, as its proofs share a module with `ParallelSearch`'s). `addTask` on a stopped pool throws (`refused`). `packaged_task`
catches what a task throws, so tasks always finish.

*DynSearch.* One action is one turn of a loop of the code: a level of a descent, a
lane of a batch, a level of a back-propagation. Arrays of the pool are functions on
slot numbers and keep their contents over `BeginSearch`, as `pool_.reset()` keeps
them. The value of a node is not represented: the UCB maximum is any visited
candidate, and a cumulative value may fall below the pruning threshold if
`MayFallBelow` says so. The domain is a table (`Step`), given by a corridor of two
cells with a punished action, or by `RockSample` itself. The three variables
`round`, `written`, `owner` are history only. The batch's padding lanes and the SIMD
width do not appear: lanes do not influence each other except through the slots they
write, which `StatesFollowTransitions` is about.

*RockSample.* `StepBatch` mirrors the order of the SIMD version (candidate cell first,
then selects), `ApplyAction` the scalar switch. Rewards are in tenths. Bit masks are
sets of rocks.

*ParallelSearch.* The outcome of a task is any function from root actions to a value
or "never visited", or an exception. The destruction frees the instances first and
then joins the pool, in reverse order of the members' declaration. `scenarios` records
which part of which random stream a search was given.

*StaticSearch.* Nodes are heap indices. Of a visit count only zero or not zero matters,
so a node is in `visited` or not; of (path, offset) only the action that encodes it.
`Stop`/`Descend` are the probe and the re-alignment of `exploreNodesVote`, `BackupLevel`
is one turn of `backupDepth`. With `GapDominates` the depth penalty outweighs every
UCB difference, as `depth_sync_lambda = 10000` does in the driving configuration;
without it, any candidate may be chosen. `StepBatch` is a table in which scenarios
differ, because their sampled traffic does.

*RouteMap, RefPaths.* An edge has a number of points; a path is the chunks of edges it is
strung from, with the tables that are indexed by its points (starts of edges, curvature
segments, anchors, the first red light, the goal). Coordinates are left out: every property
is about indices. `Around`, `Assemble` and `Tabulate` are the phases of `ExtendPath` in their
order; its two loops are `Behind` and `Onward`, one pass of each `WithPredecessor` and `WithSuccessor`. What a search past the end of a short list would find in `buildSortedPaths` is taken
to be no edge.

*PlannerFrame.* A frame is `Observe` (the world moves), `LocaliseFirst` or `LocaliseNext`
(the ego edge, then the paths, then the drivable map) and `Plan`. The variables say which
of the code's objects they are: `executed` is the static of `MakePlanning`, `chosen` the
trajectory planner's member, `ego` the path fields of the ego state with the globals
`approaching_terminal_point` and `PATH_SIZE`, `built` what the Python side remembers.
`NextScenario` makes a new planner object and leaves the statics. Whether the blocks
ahead are within the radius (`reach`) is one flag for all of them; polygons that cannot be made and the Python side's exception path are left out. The value of an action is
abstracted to what `getBestAction` tells apart, its early return included.

*Motion.* Straight parallel paths, speeds in distances per step; every threshold of the code
is a constant or a named definition. The gaps, the look-ahead along the prediction and the
allowance of a lane change keep the code's tests and their order; the car-following law and
Stanley steering are monotone integer stand-ins of the same sign and saturation.

*ForwardStep.* `Begin`, `Allowed`, `Driven`, `Moved`, `Struck` are the stages of a step of
`StepBatch`, `Advance` their composition, and `expandNodesBatch` steps all lanes by the
action, then by the rollout, and backs up what it returns. Which node is grown is arbitrary.
`missed` and `furthest` are history variables. Rewards are written as costs. A slot of the agents'
buffers keeps what an earlier frame sampled until a frame with that many agents writes it again.

*ProposalSteps.* One action is one time step of a batch. `exact` and `on` are the masks
`assumed_exactly_on_target_path_mask` and `on_target_path_mask`, `comp` the
`distance_compensation` of the thread's workspace, which no call resets. The points that are compared have
place and speed; their heading `theta` is left out.

*SpatialIndex, BoxOverlap, CrossEvaluation.* A heading is a pair of integers over `D`, so the
separating-axis tests are exact. The index's arrays keep what earlier frames left, and
`SampleScenarios` fills them again. `EvaluateStep` is one time step for all rows; penalties
are small integers with the order of magnitude of the code's. Three details are coarser: the partial penalty for
coming close (`Nudge`) is one cost, the code scales it by the distance; mode probabilities are positive, so the guard
against weights that are not finite does not occur; and speeds are compared in whole steps (`Slow`). Agents may sit on a stretch of
road whose projection is elsewhere on the path, which is what the noticed vehicles are for.

## 3. Runs

| Run | Instance | Question |
|---|---|---|
| `pool` | 3 tasks, 2 workers, 2 submitters, destructor at any time | Is a wake-up or a task ever lost, does the destructor return, is the pool a FIFO queue? |
| `dyn_corridor` | 1 scenario, 3 actions, height 2, 10 iterations, chunks of 4 slots | Visit accounting, depth limit, terminal and pruned nodes, chunk growth, termination |
| `dyn_reuse` | 2 scenarios, 2 actions, height 2, 4 iterations over two searches | Does anything of an earlier search or of another lane show? |
| `rock_steps` | 3x3 grid, 3 rocks, every state | Do the two transition functions agree, does a rock pay once? |
| `parallel` | up to 3 threads, 2 actions, 2 dispatches, tasks that throw | Exact aggregate, sensible best action, lifetimes, quiet trees |
| `static_vote` | 2 scenarios, 2 actions, height 3, 7 iterations over 2 searches | Vote, intervals, caches, repeated simulations, termination |
| `planner` | 21 edges: three lanes that merge, diverge and leave at a junction, a roundabout, two destinations; three routes, red lights | Do the current index, the last action, ranks, lights, point tables and the drivable map stay consistent over frames and scenarios? |
| `forward` | 2 scenarios, 2 actions, 6 frames of traffic, height 2, horizon 5, 3 expansions | Does batching, the rollout or a sibling change what a scenario is charged? Is a contact or the end of a prediction missed? |
| `proposals` | 374 situations, 2 rows by 2 futures, 6 steps, two calls in one workspace | Do the scored and the published trajectory agree, and what does assuming a lane on its line do to it? |
| `evaluation` | 5 offsets by 2 speeds, 2 scenarios, 8 frames with fleets of 0 to 6 agents, capacity 2 | Are queries, verdicts and values those of a linear scan and of one proposal at a time, and does the brake come for the chosen proposal? |
| `dyn_prune`, `forward_buffers` | see the configurations | statements of comments or documents that the code does not keep (section 5) |

Bounds. Two waiting workers and two submitters are the least for a
notification to reach the wrong thread; three tasks keep one queued while two run.
Height 2 has a root, an inner layer, the layer at the limit and the layer the code
allocates below it; ten iterations visit every node of a corridor tree and reach the
clock test of every tenth iteration; chunks of 4 slots make blocks straddle chunks.
A second search is enough to see what the first left. Two scenarios are
the least for a tie in the vote; height 3 the least for a re-alignment that passes an
inner node; three threads the least for a future read while two others run.
`MaxIters`, `MaxRounds`, `MaxCalls`, `MaxDispatches` and `MaxSlots` bound the behaviours; every
other constant is one of the program's own. The map of `planner` has every situation
`GetEgoRefPaths` distinguishes: a neighbour on either side, three successors, a merge into a
neighbour's lane, a dead end, a lane shorter than the look-ahead, a loop shorter than a path,
a goal on one of several paths. The frames of `evaluation` leave an index empty, partly filled,
full in one subtree and spread over two, one after the other in any order. Three expansions in
`forward` reach a grandchild and a sibling of its parent. A second call in `proposals` sees the
workspace of the first, with the direction of the change reversed.
`CHECK_DEADLOCK FALSE` is in every configuration but those of `planner` and `evaluation`
(which never stop) since each system comes to rest: a destroyed pool, a worker that is not
asked to search again, a bounded number of planning steps. The liveness properties
exclude a premature stop.

Fairness. `ThreadPool`: worker threads and a submitter inside `addTask` are scheduled
(weak fairness per worker and submitter), nobody has to submit or to destroy; once begun, the destructor goes on.
A notification wakes some waiting thread. `DynSearch`, `StaticSearch`: a thread inside
a search keeps running (weak fairness of `Work`). `ParallelSearch`: the dispatching
thread and the pool's threads run; that a task ends is `SearchEnds` of the searches.
The modules of the frame, the simulation and the evaluation have no fairness: their loops are
bounded by the code's own constants and nothing in them waits.

Properties worth reading first: `NoStrandedTask` (lost wake-ups), `TreeShape` and
`StatesFollowTransitions` (stale slots and lanes), `IntervalExact` (the incremental
intervals are those of a full recomputation although `backupDepth` stops at the first
unchanged one and reads flags that a reset leaves), `AggregateExact`, `CaptureAlive`,
`LastActionHasPath` (an action kept over frames in which the paths it indexes are replaced),
`ReturnsMatchScalar` (batch, rollout and advance charge after a crash against one lane stepped
alone), `LanesIndependent` and `BrakesBeforeCrash` (a row of proposals, one query, shared early
exits against each proposal by itself).

Each property has a mutant in `PROJECT.json`: an operator marked "Fault" or "Slip" in its module
replaces a mapped definition, and the run must then find the property violated.

## 4. Proofs

The first part of `ParallelSearchProofs` proves for all finite sets `PoolTasks`, `Threads` and
`Clients`, from the three assumptions of `ThreadPool` (there is at least one thread):

* `TypeCorrect`, and `ShutdownCorrect` from the inductive `ShutdownInv`: `stop` and the
  destructor's progress agree, once `notify_all` has run nobody waits, a worker
  has left only if the pool is stopped and empty, and after the joins all have.
  `StopWakesAll`, `NoAbandonedTask` and `DrainedAtJoin` follow.
* `NoStrandedTaskHolds`: `NoStrandedTask` counts - while somebody waits, queued tasks
  are at most the ready workers plus pending notifications. Each step changes
  one side by a known amount; the proof is arithmetic on cardinalities.
* `OncePlacedHolds`: a task is in one place of the queue, the threads' hands and `finished`.
* `PoolImplementsQueue`: under the mapping `queue <- tasks`, `running <- task`,
  `closed <- stop`, `joined <- (dtor = "gone")`, every step is a `TaskQueue`
  step or a stutter.

`DynSearchProofs` proves about `DynSearch`, for every pool size, height, number of scenarios
and domain, from `SizesAssumption` and `DomainAssumption`:

* `SearchCorrect`: `IndInv`, the conjunction of `TypeOK`, `Shape` (of every allocated slot: its parent
  is allocated before it and one level up, its children are a block of allocated slots),
  `Owners` (a slot belongs to its parent's scenario), `CacheInv` and `Control` (what the loop
  holds at each program counter). The parts need each other: that a descent stays inside the
  arrays rests on the shape, the shape on the node being expanded having been reached by a
  descent in its own tree and within the height, that in turn on `Control`.
  `TypeCorrect`, `TreeShapeHolds`, `SelectedDepthHolds`, `CacheCurrentHolds` and
  `LaneIsolationHolds` follow.
* `StatesCorrect`: on top of `IndInv`, `StateInv` says which slots have been written and reached.
  It needs every depth to have a candidate (`CandidatesExist`, true of Rock Sample: without
  one, the fall-back of `selectNodeDyn` names a slot that was never expanded). A node that is expanded a second
  time overwrites its children with the values they hold, which
  gives `FreshDomainStateHolds`, `StatesFollowHolds` and `UcbParentVisitedHolds`.
* `TerminalChildrenHolds` and `VisitAccountingHolds`, under `CandidatesExist` too. `TerminalInv`
  says that expanded nodes have active parents and that back-ups come up below active nodes only, so
  a terminal node's children keep no visit. `VisitInv` follows the count that is
  on its way up: the node at `cur` may be owed one visit, a child that waits for its back-propagation
  has none yet, and a node below the first layer has one of its own at most (`Balanced`, `ChoiceFresh`).
* `ChunksCoverHolds`: the chunks allocated always hold every allocated slot (`ChunksForFits`
  is the rounding-up division).

The theorems about `ThreadPool` and `DynSearch` are about `SafeSpec`, the specification without its fairness.

Its last part proves of Rock Sample, from `GridAssumption` (a grid of at least one cell, at most
one rock per cell): `SameStep`, the SIMD transition and the scalar one agree in cell, rocks and
termination for all six actions; and `WalkCorrect`, whose invariant adds that the sampled
rocks are no longer good, so that a paying sample always adds a rock to them. From these
`BatchMatchesScalarHolds` and `RockPaysOnceHolds`. Its arithmetic is the division of a
cell into row and column (`CellCoordinates`, `CoordinatesCell`). `RockSampleIsADomain`: on every
grid Rock Sample meets `DomainAssumption`, so what is proved of the search holds of the search
in Rock Sample (`RockWalk` has names of its own for its specification, as `DynSearchProofs` extends both).

`CrossEvaluationProofs` proves `QueryExactHolds`: for every node capacity, fleet of at most
`Entries` agents, sampled scenario and time step, with one subtree or two, a query's answers meet
it, none is given twice, and all are given up to the limit. `EvaluationAssumption` says that
the agents fit into a tree (`MAX_SIM_VEHICLES` and `STRTREE_MAX_NODE_NUM` are both 96) and
that a sample picks modes its agents have; `IndexAssumption` that the arrays hold whole
batches and two subtrees suffice. The argument follows the code:

* Sorting permutes: the k-th member of a strict order numbers its set (`NthFact`, by counting
  who comes before), so the sort by x and the one within slices leave every agent exactly one place (`SortPermutes`).
* Filling a batch at a time writes lanes past the valid ones and the next batch covers them, so after
  the last round the first entries are the agents' boxes (`FillHolds`), whatever was there before.
* `BuildIndexes`: after `build` the leaf slots of each subtree hold the agents once each, a parent covers
  its leaves and a root its parents (`HullCovers`), although slots past the last leaf keep old boxes.
* `FoundExactly`: an agent that meets the query is met by its parent and root, hence found, and
  `ValidLeaf` and `ValidParent` keep the stale slots out; truncating and sorting lose
  none below the limit (`QueryFact`).

The inductive invariant is `TreesCurrent` (`TreesStayCurrent`): every tree keeps the shape that lets it be filled
again, and while proposals are evaluated it is the index of this frame's boxes.

`PlannerFrameProofs` proves, for every map, route and sequence of frames,
`DrivableMirrorsHolds`: the differences that Python announces leave C++ with exactly the edges
Python believes it has. `DrivableMirrorsPython` alone is not inductive. A block that is kept is
not announced again, so its edges must be here already: `BlocksBuilt` adds that the blocks
Python believes constructed are among the edges it believes constructed. About the reference
paths it proves:

* `LightsCurrentHolds`, for every map. `LightsInv` adds what a slot and an extra path can hold
  (`EgoShape`): an extra path may show an old light until it is promoted, and
  must then be one whose light can be looked up again. That `Tabulate` and `UpdateTrafficInfo`
  find the same first light is `TabulateMade`; the rest follows every operation on paths.
* `CurrentPathValidHolds` and `LastActionHasPathHolds`, under `[]SomePathLeft`: some path of every plan does
  not run in a loop. Without it they fail, as the code drops every looping path and falls back to index 0
  (`map_utils.cpp:1196-1245`); in the run it holds, as `CurrentPathValid` does. `IndexInv` carries both from
  frame to frame. A junction fills its slots from the left (`Packed`), which shifting for a left
  neighbour relies on; a dropped path hands the index to a neighbour (`DropLoopHeld`);
  promotion moves the ego's path to slot 1; and an action that is kept belongs to a frame whose
  slots did not change since.
* `PathTablesCompleteHolds`, for every map, unconditionally. A path is strung together by two loops (`Behind`,
  `Onward`), and what they keep true is `Backs` and `Chains`: the chunks so far lie one behind the
  other without a hole and inside the path. Of one chunk, `SegmentsOf` grows and ends where the chunk does,
  and the anchors of `AnchorSegments` cover it; so the tables of all chunks grow (`SegmentsAlongFact`) and,
  with the gaps at both ends, cover the path (`ExtendWhole`). `TablesInv` carries this through ranks,
  goals, lights, extra paths and shifted slots, and from frame to frame: `PATH_SIZE` must stay
  that of the paths and leave points ahead of the lookback, or the neighbour that an ego gets
  on a connector could have no end. It needs that a scenario starts on an edge, and of the map that lanes do
  not lie side by side in a circle (`MapAssumption`): `ComputeLeftDepth` would not return on one
  (`map_utils.hpp:422`), nor has `LeftDepth` a value there.

`ParallelSearchProofs` proves, from `ParallelAssumption`, for every number of threads, actions and
planning steps, tasks that throw included:

* `CaptureAliveHolds` and `OneTaskPerInstanceHolds`, from `CaptureInv`. A task is in one place
  (`OnePlace`); if it is unfinished, its dispatch was left by an exception or its future is the
  pending one of the present dispatch (`Live`); and the loop over the futures has only ready ones
  behind it (`Loops`), so it cannot end while a task of its own is unfinished.
* `TreesQuietHolds`: `TreeInv` adds that, as long as no dispatch was left, a result stands for a finished
  tree of the present dispatch, and that the loop has a result of every worker behind it.

* `AggregateExactHolds`, from `AggInv`: what the buffers hold is the count and the sum over
  the workers whose futures the loop has behind it; a result, once read, cannot change as no task of this
  dispatch is left (`TreeInv`). `BestActionVisitedHolds`, from `BestInv`: the best of the averages with
  the bonus is one that somebody visited, as the sentinel of the others is below every
  average by more than the bonus.

`StaticSearchProofs` proves about `StaticSearch`, from `StaticAssumption`, for every number of scenarios and
actions, every height and domain:

* `HeapLayout`: the arithmetic of `n * A + a + 1` against the starts of the layers, which are
  defined recursively: depth and parent of a child, and that it lies in the arrays.
* `TypeCorrect` from `TypeInv`. `NeverRepeated`, `CacheCurrent` and `VoteCorrect` from `SearchInv`, which
  adds that a visited node's parent is visited and its cache fits (`TreeSound`), where each scenario
  stands in its descent, and that what was selected stays unvisited until it is expanded.
* `IntervalsExact`: between iterations the intervals are those of a recomputation. `DepthInv`
  says it of every node except the parent that a climb of `backupDepth` has yet to come to
  (`Pending`), and that a climb left at an unchanged interval owes its ancestors nothing. It
  assumes a set of actions that the ego never leaves and in which each has candidates (`OnPaths(L)`).
  In the code the transition table offers an action's own path first (`vec_qmdp_ad.hpp:72-92`), which
  is a path that exists, so `computeNodeCandidateActions` finds a candidate wherever the ego
  can be; in the runs `L` is the set of all actions.

`ForwardStepProofs` proves about `ForwardStep`, from its `SizesAssumption` (the tree reaches no further than
the sampled futures), for every batch, action set, map and traffic:

* `WithinHorizonHolds`: an active lane of a batch is at the time that its node's depth says, in `StepBatch`
  as in each layer of a rollout, and a lane is inactive as soon as its layers are used up.
  `HorizonInv` carries the time that was read last; look-ahead is cut at the last sample by
  the code, which the lemmas about `Intersected` use.
* `BranchesIndependentHolds`: the node that a batch writes is the one a scenario reaches alone. Two
  lanes are `Alike` if they agree in all but their charges. A step takes alike lanes
  to alike lanes (`AdvanceAlike`); a further action does not change what came before its
  turn (`AlonePrefix`); a turn of the batch is a turn alone (`SteppedAlone`), so a child is where its
  actions lead if its parent is (`ChildFaithful`). In an unchanged frame the reference does not change
  (`AloneSame`), so the nodes that stay are right as well.
* `ReturnsMatchScalarHolds`: rewards on the way to a node plus what is backed up from it are what one vehicle
  alone is charged over the horizon. It needs `ChargesAssumption` too: the tree ends exactly where
  the sampled futures do (`params.hpp:66,82,91`: 4 layers of 10 steps, 41 samples), a crash costs
  something, as a lane that crashes is told by its charge (434), and start speeds and
  goal penalties are numbers. The lane's account is `Square`: while it is active, what it was charged is the
  reference's sum so far and nothing is charged ahead; once it is not, its charge for the step
  and its charge ahead make up the reference's sum at the end of the horizon, which after a crash grows
  by the same rest every step (`AloneRest`). A time step keeps the account (`StepSquare`), so does
  a turn of the batch (`TurnSquare`) and the rollout (`RolledSquare`), where a lane is
  switched off at the last layer. `ChargeInv` carries it over the tree: the sum of the rewards to an active
  node is the reference's at its depth, and a tree that grows keeps its sums (`CostOfSame`).

`ProposalStepsProofs` proves about `ProposalSteps`, from `ProposalAssumption` (the ego is beside the paths of a
call, speeds and lengths are numbers, 0.2 m are at most two units sideways), for every set of rows,
futures and calls and any traffic:

* `Inductive`: `IndInv` says of a call in progress that every lane has its points so far (`Paired`: the
  published trajectory has those of the stored one at every other place), that the last of them is
  where the lane is, and that a lane assumed on its line is on it, with the index it is carried
  from equal to where it is (`Good`). `PublishedAgreeHolds` follows; it is not inductive alone, as the re-anchoring
  of the first points must find trajectories of one point.
* `OnLineForGoodHolds`, from what a step makes of a lane (`OneStep`): once it is assumed on its line
  both laws leave it so (`HalvesFact`), whatever it measures of the target path.
* `NoSuddenJumpHolds`: a lane comes to its line from a unit beside it, as `TargetDistance` of a lane that is
  not there yet is measured (`MeasuredFact`), or by an immediate change. It assumes `PathsReach`: the
  paths are as long as the ego can drive during the call. Without it the property fails: a lane that
  is steered past the last index and is then taken to be on its line is set back to the end of
  the path. `JumpInv` adds the way that is left to drive; the run's calls satisfy the assumption.

The prover cannot use the library's induction theorems, whose parameter is an operator. `DataLemmas`
has induction for sets instead (`SetInduction`, `StrongInduction`), proved from the least
element of a set of numbers: what is to be shown of every number is that the set of the
numbers it holds of contains all. It also gives the existence of what a recursive
function defines, turn by turn, without which nothing can be said of its values. So loops of the
code that are recursive functions here (layers of the heap, a batch's steps, sums over
workers) can be proved about.

The theorems `TypeCorrect` (three times), `HeapLayout`, `RockSampleIsADomain`,
`Inductive`, `TreesStayCurrent`, `StopWakesAllHolds`, `NoAbandonedTaskHolds`,
`DrainedAtJoinHolds`, `OncePlacedHolds`, `SelectedDepthHolds`, `FreshDomainStateHolds`,
`UcbParentVisitedHolds`, `ChunksCoverHolds` and `OneTaskPerInstanceHolds` state properties that
no run lists, since the proofs cover them for every instance and the runs' time goes to what is not proved.

Only model-checked: liveness (`EveryTaskRuns`, `DestructorReturns`, `SearchEnds`,
`DispatchReturns`) and everything about `ENABLED`, which the provers do not reach; the properties
without a theorem in `PROJECT.json`. Of these, `NoContactMissed` and `BrakesBeforeCrash`
hold for the geometry of the instance (lane distance, margin, speeds) and not for every one;
`RanksFollowLanes` needs maps whose lanes have an order from left to right, and the ranks of extra paths are
those of the paths they were made with. `SearchVerdict`, `LanesIndependent` and `BrakesBeforeCrash` compare folds
over candidates and depend on their limits (`LaneLimit`, `RowLimit`), which the instance chooses large enough.
They also set the separating-axis tests against boxes that share a point, whose equivalence is nonlinear arithmetic over
four corners, beyond the provers.

## 5. Where text and code disagree

Two runs expect a violation:

* `dyn_prune`: a pruned back-propagation of the dynamic search does not increment the root's
  visit count, though a comment and `docs/vec_qmdp.md` say it does (the static search does).
* `forward_buffers`: `sampleScenarios` returns before it copies agents or clears the roots'
  flags when a frame has none (`vec_qmdp_ad.cpp:218`), though the comment at line 120 says the
  buffers are fully overwritten each round. TLC's trace is a frame with two agents and then one with
  none, in which an agent of the first is still the root's lead vehicle (slots that were never filled are
  left out of the comparison).

Six more configurations state what a text says and TLC refutes them too; they are kept to be
run by hand and are not listed in `PROJECT.json`:

* `Planner_goals.cfg`: a path promoted from the extra paths keeps a goal distance of 0 although
  another path ends at the goal (`map_utils.cpp:1335-1356` returns before the loop whose comment,
  line 1439, says "assign a large frenet_s to the remaining paths").
* `Proposals_late.cfg`: a lane assumed on its line because an immediate change is allowed
  (`context_qmdp.cpp:1485`) is assumed so after the masks were computed (1362, 1393), so in the next step its
  lead, desired speed and red light are still those of the initial path; comments at 1484 and
  1631 treat it as on the target lane already.
* `RockSample_height.cfg`: the dynamic search visits nodes one layer below `tree_height`.
* `StaticSearch_sync.cfg`: the interval of a node with an unvisited candidate includes depths no
  descent can stop at, so the re-alignment can miss the voted depth where a node of it is eligible.
* `ParallelSearch_seeds.cfg`: worker instances of the dynamic Rock Sample draw identical scenario sets.
* `RockWalk_rewards.cfg`: the SIMD transition charges 0.1 for sensing; the comments around it and
  the scalar version say it is free.

Observed while modelling, and kept in the models as the code has it:

* `distance_compensation` belongs to the thread's workspace and is used, as the last call left it,
  in steps in which no lane is assumed on its line (`context_qmdp.cpp:1504`, `1537`).
* A lane for which an immediate change is allowed after the first step is moved to its line at
  once, a whole lane away (1485): the jump `NoSuddenJump` excepts.
* In a batch where some lane is assumed on its line, the steering of the others is computed after
  their speed was updated (1692), otherwise before. Lane following adds the lateral
  compensation after the red light was looked at (1090), lane changing before.
* Returns below a crashed node are 0 and lack the charge for the rest of the horizon.
* The collision query of a lane that has just changed path uses its distance to the old one (818);
  `NoContactMissed` says the margin of the query covers that.
* When all successors are filtered out, the search for the ego's own connection looks at three
  entries of a list that may be shorter (`map_utils.cpp:860`).
* The nine-action assumption of `backupDepth` and the size of the UCB table hold for the
  configured constants only.

## 6. Plan

Done: the thread pool, the dynamic search with its domain, and their proofs; the dispatch; the
static search and its proofs; the closed loop with reference paths and drivable map; the proofs about the
dispatch, the drivable map, the lights and the current path; the driving transition, with proofs that it keeps its lanes apart
and charges each what it would be charged alone; proposals and their proofs; collision tests, index and
cross-scenario evaluation, with the proof that the index answers exactly.

Left, in this order:

1. Proofs: `LanesIndependent`, from the exactness of the queries and a candidate limit that suffices.
2. An abstract tree search (a set of expanded nodes closed under parents) that `DynSearch` and
   `StaticSearch` refine.
3. The counters of early termination refining "stable for N checks".

Not modelled, and why: the tracker, splines, projections and the smooth comfort terms (floating-point
algebra without control decisions); the belief's matching of agents and the prediction network
(distances and network output: the models start from any belief they can yield); the static
back-end of Rock Sample (its transition repeats the dynamic one's, its lock-step selection is not
used by the planner); the simulator and the benchmark drivers; `determineReferencePath` and the
tracking of the chosen proposal; the Python interpreter's thread state around the second pool
(`qmdp_trajectory_planner.cpp:184`, the one hazard without a property); vendored libraries.
`PROJECT.json` gives the reason for each part.
