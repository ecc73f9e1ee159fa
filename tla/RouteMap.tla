------------------------------ MODULE RouteMap ------------------------------
(***************************************************************************)
(* The road graph as MapUtils answers for it (map_utils.hpp): successors   *)
(* and predecessors by preference, neighbours, dead ends, red lights, and  *)
(* the edge the ego is on.  The graph comes from the Python side; its      *)
(* answers are cached per scenario and never change within one, so a cache *)
(* is the function it caches.  Red lights are cached for one frame only.   *)
(***************************************************************************)
EXTENDS Integers, FiniteSets, SequencesExt

CONSTANTS
  Lanes, Connectors,   \* edges, by EdgeType
  Succ, Pred,          \* GetSuccessorIdsById, GetPredecessorIdsById: sequences
  LeftOf, RightOf,     \* neighbours of a lane, NoEdge if there is none
  Miss,                \* ActualMissGoalNum
  Points,              \* points of GetRefLine at PATH_POINT_INTERVAL
  Curved,              \* edges whose weighted_avg_r_squared_ is too small
  Routes,              \* what UpdateGlobalRouteEdgeIds can be given
  DeadEndPoints        \* DEAD_END_MIN_PATH_LENGTH in points

NoEdge == ""
Edges  == Lanes \union Connectors

ASSUME MapAssumption ==
  /\ NoEdge \notin Edges /\ Lanes \intersect Connectors = {}
  /\ Succ \in [Edges -> Seq(Edges)] /\ Pred \in [Edges -> Seq(Edges)]
  /\ \A e, f \in Edges : f \in ToSet(Succ[e]) <=> e \in ToSet(Pred[f])
  /\ LeftOf \in [Edges -> Lanes \union {NoEdge}]
  /\ RightOf \in [Edges -> Lanes \union {NoEdge}]
  /\ \A e, f \in Lanes : LeftOf[e] = f <=> RightOf[f] = e
  /\ \A side \in SUBSET Lanes : side = {} \/ \E e \in side : LeftOf[e] \notin side
  /\ Miss \in [Edges -> Nat] /\ Points \in [Edges -> Nat \ {0}]
  /\ Curved \subseteq Edges /\ Routes \subseteq SUBSET Edges /\ DeadEndPoints \in Nat

VARIABLES
  route,    \* GLOBAL_ROUTE_EDGE_ID
  goals,    \* LANE_ID_MAP_IS_TERMINATED: edges the route ends on
  lights    \* connectors that are red in this frame

HeadOr(s) == IF s = <<>> THEN NoEdge ELSE s[1]

(* The entries at the indices at, by std::sort with <; ties keep their     *)
(* order, as in the library's insertion sort of short ranges.              *)
SortedAt(s, at, key) ==
  LET before(i, j) == key[s[i]] < key[s[j]] \/ (key[s[i]] = key[s[j]] /\ i < j)
      place(i)     == 1 + Cardinality({j \in at : before(j, i)})
      sorted       == [k \in 1..Cardinality(at) |-> s[CHOOSE i \in at : place(i) = k]]
  IN  SubSeq(sorted, 1, Cardinality(at))

SortedBy(s, key) == SortedAt(s, DOMAIN s, key)

(* The entries at the indices at, in their order.                          *)
Kept(s, at) == SortedAt(s, at, [x \in ToSet(s) |-> 0])

(* The first of them, and the first of all if there is none.               *)
FirstAt(s, at) == IF at = {} THEN HeadOr(s) ELSE s[Min(at)]

(* What GetRouteSuccessorIdsById keeps: on the route, and not about to end *)
(* in a short dead end; all if it would keep none.                         *)
LeadsOn(r, id) ==
  /\ id \in r /\ Succ[id] # <<>>
  /\ LET next == Succ[id][1] IN Succ[next] # <<>> \/ Points[next] > DeadEndPoints

GetRouteSuccessorIdsById(r, e) ==
  LET kept == {i \in DOMAIN Succ[e] : LeadsOn(r, Succ[e][i])}
  IN  SortedAt(Succ[e], IF kept = {} THEN DOMAIN Succ[e] ELSE kept, Miss)

GetRoutePredecessorIdsById(r, e) ==
  LET kept == {i \in DOMAIN Pred[e] : Pred[e][i] \in r}
  IN  IF kept = {} THEN Pred[e] ELSE Kept(Pred[e], kept)

(* LANE_ID_MAP_ROUTE_SUCCESSORS and _PREDECESSORS, for every route.        *)
SuccessorTable   == [r \in Routes |-> [e \in Edges |-> GetRouteSuccessorIdsById(r, e)]]
PredecessorTable == [r \in Routes |-> [e \in Edges |-> GetRoutePredecessorIdsById(r, e)]]

RouteSuccessors(e)   == IF e \in Edges THEN SuccessorTable[route][e] ELSE <<>>
RoutePredecessors(e) == PredecessorTable[route][e]

NextOnRoute(e) == HeadOr(RouteSuccessors(e))

LeftNeighbor  == [e \in Edges \union {NoEdge} |-> IF e = NoEdge THEN NoEdge ELSE LeftOf[e]]
RightNeighbor == [e \in Edges \union {NoEdge} |-> IF e = NoEdge THEN NoEdge ELSE RightOf[e]]

LeftDepth[e \in Edges \union {NoEdge}] ==
  IF e = NoEdge THEN 10
  ELSE IF LeftOf[e] = NoEdge THEN 0 ELSE 1 + LeftDepth[LeftOf[e]]

(* Also the lanes' answer: they are not lane connectors, so never red.     *)
HasRedTrafficLight(e) == e \in lights

---------------------------------------------------------------------------
(* A position is the edges that contain it.  GetEdgeIdByPosition prefers a *)
(* lane, then gives all connectors.                                        *)
EdgesAt(spot) ==
  LET lanes == SelectSeq(spot, LAMBDA e : e \in Lanes)
  IN  IF lanes # <<>> THEN <<lanes[1]>> ELSE spot

(* UpdateEgoEdge: the new edge and candidate_edge_tokens, from the old one *)
(* and the edges of the path that the last action drives along.            *)
UpdateEgoEdge(prev, spot, target) ==
  LET ids   == EdgesAt(spot)
      next  == RouteSuccessors(prev)
      onto  == SelectSeq(ids, LAMBDA e : e \in ToSet(next))
      along == SelectSeq(ids, LAMBDA e : e \in target)
      kept  == SelectSeq(ids, LAMBDA e : e \in route)
      stay  == [edge |-> prev, candidates |-> {}]
      last(s) == [edge |-> Last(s), candidates |-> ToSet(s)]
  IN
  CASE prev \in ToSet(spot) \/ spot = <<>> -> stay
    [] ids[1] \in Lanes ->
         IF next = <<>> \/ ids[1] \in {next[1], LeftOf[prev], RightOf[prev]}
         THEN [stay EXCEPT !.edge = ids[1]] ELSE stay
    [] ids[1] \in Connectors /\ prev \in Lanes ->
         IF onto # <<>> THEN last(onto)
         ELSE last(<<HeadOr(along \o ids)>>)
    [] OTHER -> IF kept # <<>> THEN last(kept) ELSE stay
=============================================================================
