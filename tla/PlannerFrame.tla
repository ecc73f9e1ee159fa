---------------------------- MODULE PlannerFrame ----------------------------
(***************************************************************************)
(* The closed loop of the planner: VecQMDPClosedPlanner::MakePlanning      *)
(* (vec_qmdp_closed_planner.cpp) with planTrajectory                       *)
(* (qmdp_trajectory_planner.cpp), frame after frame and scenario after     *)
(* scenario.  Every scenario has a planner object of its own; the function *)
(* statics of MakePlanning and the globals of params.cpp are shared by all.*)
(*                                                                         *)
(* A frame is three steps: the world moves (Observe), the ego is located   *)
(* and its reference paths are renewed (Localise), an action is chosen     *)
(* (Plan).  Of the searched values only what getBestAction tells apart is  *)
(* kept.                                                                   *)
(***************************************************************************)
EXTENDS RefPaths

CONSTANTS
  RoadBlocks,    \* the edges, grouped by roadblock
  Scenarios,     \* [blocks |-> _roadblock_ids, goals |-> edges they end on]
  Spots,         \* positions, as sequences of the edges that contain them
  Starts,        \* those of them a scenario can start at
  Moves,         \* [Spots -> SUBSET Spots]: where a frame can take the ego
  LightStates,   \* sets of connectors that can be red together
  LongConnector  \* JUNCTION_MIN_CONNECTOR_LENGTH

ASSUME FrameAssumption ==
  /\ UNION RoadBlocks = Edges
  /\ \A b, c \in RoadBlocks : b = c \/ b \intersect c = {}
  /\ \A sc \in Scenarios : sc.blocks \in Seq(RoadBlocks) /\ UNION Range(sc.blocks) \in Routes /\ sc.goals \subseteq Edges
  /\ Spots \subseteq Seq(Edges) /\ Starts \subseteq Spots \ {<<>>}
  /\ Moves \in [Spots -> SUBSET Spots]
  /\ LightStates \subseteq SUBSET Connectors /\ LongConnector \in Nat

VARIABLES
  pc,         \* "observe", "localise", "plan"
  first,      \* is this frame iteration 0?
  blocks,     \* _roadblock_ids of the scenario
  spot, near, \* where the ego is, and whether its lane ends soon
  edge,       \* ego_state_: edge_token_
  ego,        \* ego_ref_paths_, ego_extra_ref_paths_, curr_ref_path_idx_,
              \* is_close_to_junction, refline ids, approaching_terminal_point, PATH_SIZE
  executed,   \* last_best_action of MakePlanning
  chosen,     \* last_best_action_idx_ of the trajectory planner
  built,      \* Python: blocks and edges it believes constructed
  drivable    \* OccupancyMap: route_edges_

scene == <<blocks, route, goals, spot, near, lights>>
vars  == <<pc, first, scene, edge, ego, executed, chosen, built, drivable>>

ACTION_TO_PATH(a) == a \div 3
PATH_TO_ACTION(i) == i * 3 + 1   \* the offset does not matter here
NoBlock == {}
BlockOf(e) == CHOOSE b \in RoadBlocks : e \in b

NewEgo == [paths |-> NoPaths, extra |-> <<>>, idx |-> 0, close |-> FALSE,
           line |-> {}, terminal |-> FALSE, size |-> 0]

Arrive(sc) ==
  /\ blocks' = sc.blocks /\ goals' = sc.goals /\ route' = UNION Range(sc.blocks)
  /\ spot' \in Starts /\ near' \in BOOLEAN

Init ==
  /\ pc = "observe" /\ first = TRUE
  /\ \E sc \in Scenarios :
       blocks = sc.blocks /\ goals = sc.goals /\ route = UNION Range(sc.blocks)
  /\ spot \in Starts /\ near \in BOOLEAN
  /\ lights = {} /\ edge = NoEdge
  /\ ego = NewEgo
  /\ executed = -1 /\ chosen = -1
  /\ built = [blocks |-> {}, edges |-> {}, at |-> NoBlock] /\ drivable = {}

(* A new scenario: a new planner.  What is static or global stays, but     *)
(* last_best_action, the refline edges and PATH_SIZE are written before    *)
(* they are read again.                                                    *)
NextScenario ==
  /\ pc = "observe" /\ ~first
  /\ first' = TRUE
  /\ \E sc \in Scenarios : Arrive(sc)
  /\ edge' = NoEdge /\ chosen' = -1 /\ executed' = -1 /\ lights' = {}
  /\ ego' = [NewEgo EXCEPT !.close = ego.close, !.terminal = ego.terminal]
  /\ built' = [blocks |-> {}, edges |-> {}, at |-> NoBlock] /\ drivable' = {}
  /\ UNCHANGED pc

(* The world between two calls.  The end of a lane only comes nearer.      *)
Observe ==
  /\ pc = "observe" /\ pc' = "localise"
  /\ lights' \in LightStates
  /\ IF first THEN UNCHANGED <<spot, near>>
     ELSE /\ spot' \in Moves[spot] \union {spot}
          /\ near' \in BOOLEAN
          /\ spot' = spot => (near => near')
  /\ UNCHANGED <<first, blocks, route, goals, edge, ego, executed, chosen, built, drivable>>

---------------------------------------------------------------------------
(* UpdateDrivableMapObjects: Python returns what to insert and to delete   *)
(* against what it returned before, and the C++ side keeps the polygons.   *)
(* reach: the centres of the blocks ahead are within the radius.           *)
DrivableMapObjects(e, line, reach) ==
  LET here   == BlockOf(e)
      at     == {i \in DOMAIN blocks : blocks[i] = here}
      from   == Min(at)
      behind == IF built.at = NoBlock /\ from > 1 THEN {blocks[from - 1]} ELSE {built.at} \ {NoBlock}
      passes(i) == i <= from + 1 \/ blocks[i] \in built.blocks \/ reach
      onward == {blocks[i] : i \in {k \in from..Len(blocks) : \A j \in from..k : passes(j)}}
      taken  == IF at = {} THEN {} ELSE behind \union onward
      known  == UNION (taken \intersect built.blocks)
      fresh  == UNION (taken \ built.blocks)
      edges  == known \union fresh \union line
  IN  [built  |-> [blocks |-> taken, edges |-> edges, at |-> here],
       insert |-> fresh \union (line \ known),
       delete |-> built.edges \ edges]

(* Slip: what Python deletes stays inserted.                               *)
InsertMapObjects(e, line) ==
  \E reach \in BOOLEAN : \E objects \in {DrivableMapObjects(e, line, reach)} :
    /\ built' = objects.built
    /\ drivable' = drivable \union objects.insert

UpdateDrivableMapObjects(e, line) ==
  \E reach \in BOOLEAN : \E objects \in {DrivableMapObjects(e, line, reach)} :
    /\ built' = objects.built
    /\ drivable' = (drivable \ objects.delete) \union objects.insert

(* Iteration 0.  UpdateEgoStartingLaneId prefers edges of the route; the   *)
(* ego is taken to stand in the direction of its lane.                     *)
LocaliseFirst ==
  LET onRoute == {i \in DOMAIN spot : spot[i] \in route}
      starts  == IF onRoute = {} THEN {1} ELSE onRoute
  IN
  /\ pc = "localise" /\ first
  /\ edge' = spot[Min(starts)]
  /\ ego' = GetEgoRefPaths(spot[Min(starts)], NoEdge, {spot[i] : i \in starts}, near,
                            ego.close, ego.terminal)
  /\ UpdateDrivableMapObjects(edge', ego'.line)
  /\ pc' = "plan"
  /\ UNCHANGED <<first, scene, executed, chosen>>

(* Later iterations: UpdateEgoEdge, and what follows from its result.      *)
Located ==
  UpdateEgoEdge(edge, spot,
    IF executed = -1 THEN {} ELSE ToSet(ego.paths[ACTION_TO_PATH(executed)].ids))

Closing(e) == e \in Lanes /\ ~ego.close /\ near /\ Len(RouteSuccessors(e)) > 1

(* Slip: the lights of the frame that built the paths.                     *)
AsBuilt(b) == b

Relit(b) == [b EXCEPT !.paths = UpdateTrafficInfo(@)]

(* The drivable area follows a change of the kind of edge, or a distance   *)
(* driven.                                                                 *)
LocaliseOn(e) ==
  /\ pc = "localise" /\ ~first /\ pc' = "plan"
  /\ edge' = e
  /\ \/ UpdateDrivableMapObjects(e, ego'.line)
     \/ (e \in Lanes) = (edge \in Lanes) /\ UNCHANGED <<built, drivable>>
  /\ UNCHANGED <<first, scene, executed>>

(* Slip: without resetLastBestAction.                                      *)
EnterLaneOnly(e) ==
  /\ e # edge /\ e \in Lanes
  /\ ego' = GetEgoRefPaths(e, edge, {}, near, FALSE, ego.terminal)
  /\ UNCHANGED chosen

(* A new lane: all paths are made anew.                                    *)
EnterLane(e) ==
  /\ e # edge /\ e \in Lanes
  /\ ego' = GetEgoRefPaths(e, edge, {}, near, FALSE, ego.terminal)
  /\ chosen' = -1

(* A new connector: the path it is on, and a neighbour beyond that.        *)
EnterConnector(e, candidates) ==
  /\ e # edge /\ e \in Connectors
  /\ \E idx \in {UpdateEgoCurrRefPathIdx(ego.paths, e, candidates, ego.idx)} :
       ego' = Relit(UpdateEgoRefPaths([ego EXCEPT !.close = FALSE, !.idx = idx]))
  /\ chosen' = -1

(* The same lane: its end has come near, and there is a choice.            *)
ApproachJunction(e) ==
  /\ e = edge /\ Closing(e)
  /\ ego' = Relit(GetEgoRefPaths(e, edge, {}, near, TRUE, ego.terminal))
  /\ chosen' = -1

StayOnEdge(e) ==
  /\ e = edge /\ ~Closing(e)
  /\ ego' = Relit(ego)
  /\ UNCHANGED chosen

LocaliseNext ==
  /\ pc = "localise" /\ ~first
  /\ \E found \in {Located} :
       /\ \/ EnterLane(found.edge)
          \/ EnterConnector(found.edge, found.candidates)
          \/ ApproachJunction(found.edge)
          \/ StayOnEdge(found.edge)
       /\ LocaliseOn(found.edge)

---------------------------------------------------------------------------
(* The paths that parallelBeliefTreeSearch leaves to the search.           *)
Searched == {i \in Valid(ego.paths) : i = ego.idx \/ ~ego.paths[i].offRoute}

(* IsCloseToJunction; speed and distance are left open, and so is what     *)
(* the other agents make of it.                                            *)
MayStandStill ==
  /\ edge \in Lanes \intersect Straight
  /\ NextOnRoute(edge) # NoEdge /\ Points[NextOnRoute(edge)] >= LongConnector

(* getBestAction: no value at all, and nothing is stored; the best value;  *)
(* or all collide, and the last action is better than the one that goes on *)
(* along the current path by a margin, or it is not.                       *)
BestAction ==
  \/ chosen' = chosen
  \/ \E i \in Searched : chosen' = PATH_TO_ACTION(i)
  \/ chosen' = PATH_TO_ACTION(ego.idx)

(* planTrajectory, whose result MakePlanning keeps.                        *)
Plan ==
  /\ pc = "plan" /\ pc' = "observe" /\ first' = FALSE
  /\ (MayStandStill /\ chosen' = -1) \/ BestAction
  /\ executed' = chosen'
  /\ UNCHANGED <<scene, edge, ego, built, drivable>>

Next == NextScenario \/ Observe \/ LocaliseFirst \/ LocaliseNext \/ Plan

Spec == Init /\ [][Next]_vars

---------------------------------------------------------------------------
(* The current index names a path: the default action, the fall-backs and  *)
(* the next connector all dereference it.                                  *)
CurrentPathValid ==
  pc = "plan" => ego.idx \in Valid(ego.paths)

(* The action of the last frame still has a path when the next frame looks *)
(* up the edges of that path, though frames replace the paths and an early *)
(* return of getBestAction leaves an older action in place.                *)
LastActionHasPath ==
  (pc # "plan" /\ ~first /\ executed # -1) => ACTION_TO_PATH(executed) \in Valid(ego.paths)

(* Between the slots ranks grow from left to right, and differ exactly     *)
(* where the lane the path starts on does, however the slots were shifted. *)
RanksFollowLanes ==
  pc = "plan" =>
    \A i, j \in Valid(ego.paths) : i < j =>
      /\ ego.paths[i].rank <= ego.paths[j].rank
      /\ ego.paths[i].rank = ego.paths[j].rank <=> ego.paths[i].lane = ego.paths[j].lane

(* No path plans with the lights of an earlier frame.                      *)
LightsCurrent ==
  pc = "plan" => UpdateTrafficInfo(ego.paths) = ego.paths

(* All paths the search indexes by point have PATH_SIZE points, and their  *)
(* segment table names one segment for each: the ends never go back, where *)
(* the unsigned length of the fill would wrap, and reach the last point.   *)
PathTablesComplete ==
  pc = "plan" =>
    \A i \in Valid(ego.paths) :
      LET p == ego.paths[i] IN
      /\ p.size = ego.size
      /\ \A k \in 1..(Len(p.segments) - 1) : p.segments[k] <= p.segments[k + 1]
      /\ Last(p.segments) = p.size - 1
      /\ \A k \in 0..(p.size - 1) : k \in p.blank \/ \E a \in p.anchors : a[1] <= k /\ k <= a[2]

(* The polygons kept here are the ones the Python side takes to be here.   *)
DrivableMirrorsPython == drivable = built.edges

(* A comment of UpdateEgoRefPaths: "If one of the paths reaches a terminal *)
(* point, assign a large frenet_s to the remaining paths."                 *)
GoalsFilled ==
  (pc = "plan" /\ \E i \in Valid(ego.paths) : ego.paths[i].goal \in 1..(Far - 1)) =>
    \A i \in Valid(ego.paths) : ego.paths[i].goal # 0
=============================================================================
