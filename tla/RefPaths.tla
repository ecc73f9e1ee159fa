------------------------------ MODULE RefPaths ------------------------------
(***************************************************************************)
(* The ego's reference paths (map_utils.cpp): how edges are strung into a  *)
(* path, and which three paths the search may choose between.              *)
(*                                                                         *)
(* A path keeps the edges it is made of and the tables that are indexed by *)
(* its points; coordinates, headings and curvatures are left out.  Slots   *)
(* are 0, 1, 2 from left to right, and distances count points.             *)
(***************************************************************************)
EXTENDS RouteMap

CONSTANTS
  Lookback,   \* PATH_LOOKBACK_DISTANCE
  Ahead,      \* what the lookahead adds to the current and the next edge
  Segment,    \* CURVATURE_SEGMENT_LENGTH_SIZE
  Straight    \* edges whose IsStraight holds

ASSUME PathAssumption ==
  /\ {Lookback, Ahead, Segment} \subseteq Nat \ {0} /\ Straight \subseteq Edges

Slots   == 0..2
None    == [lane |-> NoEdge]
Far     == 10000     \* MAX_VALUE and TERMINAL_POINT_LARGE_FRENET_S
NoPaths == [i \in Slots |-> None]
Triple(left, own, right) == [i \in Slots |-> IF i = 0 THEN left ELSE IF i = 1 THEN own ELSE right]
SlotWise(path(_)) == Triple(path(0), path(1), path(2))
Valid(paths) == {i \in Slots : paths[i] # None}
Least(a, b)  == IF a < b THEN a ELSE b

(* GetRefLine: where the curvature segments of an edge end; the last one   *)
(* takes the points that do not fill a segment.                            *)
SegmentEnds(e) ==
  LET whole == Points[e] \div Segment
  IN  [i \in 1..(IF whole > 1 THEN whole ELSE 1) |->
         IF i < whole THEN i * Segment - 1 ELSE Points[e] - 1]

(* UpdateAnchorSegments: one anchor for a straight edge, else one every    *)
(* Segment points and the rest.                                            *)
AnchorSegments(e, at, count) ==
  IF e \in Straight THEN {<<at, at + count - 1>>}
  ELSE LET begins == {b \in 0..(count - 1) : b % Segment = 0 /\ b < count - Segment}
           rest   == IF begins = {} THEN 0 ELSE Max(begins) + Segment
       IN  {<<at + b, at + b + Segment>> : b \in begins}
             \union {<<at + rest, at + count - 1>>}

(* A chunk: the points of an edge from the src-th on, at at..at+count-1.   *)
Chunk(e, src, at, count) == [id |-> e, src |-> src, at |-> at, count |-> count]

PastEnd(c) == c.at + c.count

(* Where the k-th curvature segment of the edge ends in the path, and the  *)
(* segments that end in the chunk or behind it (ends only grow).           *)
MovedEnd(c, k) == SegmentEnds(c.id)[k] - c.src + c.at
Reaching(c) == {k \in DOMAIN SegmentEnds(c.id) : SegmentEnds(c.id)[k] >= c.src}

(* Slip: the ends of an edge that is cut off are kept.                     *)
AllSegmentsOf(c) ==
  LET from == Min(Reaching(c))
  IN  [k \in 1..(Len(SegmentEnds(c.id)) - from + 1) |-> MovedEnd(c, from + k - 1)]

(* The curvature segments of a chunk, up to the first that is cut off.     *)
SegmentsOf(c) ==
  LET limit == PastEnd(c) - 1
      from  == Min(Reaching(c))
      last  == Min({k \in Reaching(c) : MovedEnd(c, k) >= limit})
  IN  [k \in 1..(last - from + 1) |-> Least(MovedEnd(c, from + k - 1), limit)]

SegmentsAlong(chain) ==
  LET upTo[k \in 0..Len(chain)] ==
        IF k = 0 THEN <<>> ELSE upTo[k - 1] \o SegmentsOf(chain[k])
  IN  upTo[Len(chain)]

(* Predecessors fill the points before the own edge, from the back.        *)
WithPredecessor(chain) ==
  LET first == Last(chain)
      ids   == RoutePredecessors(first.id)
      count == Least(Points[ids[1]], first.at)
  IN  IF first.at = 0 \/ ids = <<>> THEN chain
      ELSE Append(chain, Chunk(ids[1], Points[ids[1]] - count, first.at - count, count))

Behind(own) ==
  LET upTo[k \in 0..own.at] == IF k = 0 THEN <<own>> ELSE WithPredecessor(upTo[k - 1])
  IN  upTo[own.at]

(* Successors fill the points after it.                                    *)
WithSuccessor(chain, successor, size) ==
  LET at == PastEnd(Last(chain))
      id == IF Len(chain) = 1 THEN successor ELSE NextOnRoute(Last(chain).id)
  IN  IF at = size \/ id = NoEdge THEN chain
      ELSE Append(chain, Chunk(id, 0, at, Least(Points[id], size - at)))

Onward(own, successor, size) ==
  LET upTo[k \in 0..size] ==
        IF k = 0 THEN <<own>> ELSE WithSuccessor(upTo[k - 1], successor, size)
  IN  upTo[size]

(* The points of the edge itself: a lane from its start, the lane before a *)
(* connector up to its end.                                                *)
OwnChunk(e, back, ahead, forLane) ==
  LET count == Least(Points[e], IF forLane THEN ahead ELSE back)
  IN  Chunk(e, IF forLane THEN 0 ELSE Points[e] - count,
            IF forLane THEN back ELSE back - count, count)

(* The gap before the first predecessor is extended from the point after   *)
(* it, which nothing has been copied to if there was no predecessor.       *)
FrontGap(need, back) ==
  IF 0 < need /\ need < back THEN {<<0, need>>} ELSE {}

(* A gap at the end is extended from the last point, if there is any.      *)
HasBackGap(end, back, size) == end < size /\ end # back

(* The path of the chunks, the own edge and its predecessors from the back *)
(* and the own edge and its successors; they fill the points from need to  *)
(* end.                                                                    *)
Tabulate(e, behind, chain, need, end, back, size) ==
  LET chunks == ToSet(behind) \union ToSet(chain)
      ending == {k \in 1..Len(chain) : chain[k].id \in goals}
      reds   == {k \in 1..Len(chain) : HasRedTrafficLight(chain[k].id)}
      rest   == HasBackGap(end, back, size)
  IN  [lane |-> e, size |-> size, rank |-> 0, offRoute |-> FALSE,
       ids    |-> [k \in 1..Len(chain) |-> chain[k].id],
       starts |-> [k \in 1..Len(chain) |-> chain[k].at],
       loop   |-> Cardinality({c.id : c \in chunks}) < Len(behind) + Len(chain) - 1,
       goal   |-> IF ending = {} THEN 0 ELSE chain[Min(ending)].at + chain[Min(ending)].count,
       red    |-> IF reds = {} THEN Far ELSE chain[Min(reds)].at,
       segments |-> SegmentsAlong(chain) \o (IF rest THEN <<size - 1>> ELSE <<>>),
       anchors  |-> (UNION {AnchorSegments(c.id, c.at, c.count) : c \in chunks})
                      \union FrontGap(need, back)
                      \union (IF rest THEN {<<end, size - 1>>} ELSE {}),
       blank    |-> (IF need = chain[1].at THEN 0..(need - 1) ELSE {})
                      \union (IF end = back THEN back..(size - 1) ELSE {})]

Assemble(e, behind, chain, back, size) ==
  Tabulate(e, behind, chain, Last(behind).at, PastEnd(Last(chain)), back, size)

Around(e, successor, own, back, size) ==
  Assemble(e, Behind(own), Onward(own, successor, size), back, size)

ExtendPath(e, successor, back, ahead, forLane) ==
  Around(e, successor, OwnChunk(e, back, ahead, forLane), back, back + ahead)

---------------------------------------------------------------------------
(* Choosing successors so that paths neither skip a lane nor merge.        *)
FilteredNeighborSuccessor(neighbor, side, current) ==
  LET succs == RouteSuccessors(neighbor)
      nexts == {NextOnRoute(c) : c \in ToSet(current)}
      fits(s) == /\ NextOnRoute(s) # NoEdge
                 /\ IF Len(current) = 1 THEN NextOnRoute(s) = side[NextOnRoute(current[1])]
                                        ELSE NextOnRoute(s) \notin nexts
  IN  IF neighbor \notin route THEN NoEdge
      ELSE FirstAt(succs, {i \in DOMAIN succs : current # <<>> /\ fits(succs[i])})

FilteredCurrentSuccessor(succs, left, right) ==
  LET beside == {NextOnRoute(left), NextOnRoute(right)} \ {NoEdge}
  IN  FirstAt(succs, {i \in DOMAIN succs : NextOnRoute(succs[i]) \notin beside})

ShouldReplaceSuccessorWithNeighbor(e, successor) ==
  /\ NextOnRoute(successor) # NoEdge
  /\ \E n \in {LeftOf[e], RightOf[e]} \intersect route :
       \E s \in ToSet(RouteSuccessors(n)) :
         NextOnRoute(s) = NextOnRoute(successor) /\ s \notin Curved

(* The lookahead reaches past the current edge and the next one.           *)
LookAhead(e) ==
  Ahead + Points[e] + (IF NextOnRoute(e) = NoEdge THEN 0 ELSE Points[NextOnRoute(e)])

(* buildSortedPaths: one path per successor of start, from left to right.  *)
(* If all are filtered out, the ego's own or the first; the search for its *)
(* own looks at three entries even of a shorter list, where what it would  *)
(* find past the end is taken to be no edge.                               *)
PathInto(start, s, ahead, forLane) ==
  [ExtendPath(start, s, Lookback, ahead, forLane) EXCEPT !.offRoute = s \notin route]

Sorted(kept, start, here, candidates, ahead, forLane) ==
  LET n   == Least(Len(kept), 3)
      own == {i \in 0..(n - 1) : kept[i + 1] = here}
  IN  [paths |-> [i \in Slots |->
                    IF i < n THEN PathInto(start, kept[i + 1], ahead, forLane) ELSE None],
       idx |-> IF forLane THEN n \div 2
               ELSE IF Len(kept) = 3 /\ kept[2] \in candidates THEN 1
               ELSE IF own # {} THEN Min(own)
               ELSE n \div 2,
       extra |-> <<>>]

Fallback(start, succs, here, ahead, forLane) ==
  LET first3 == SubSeq(succs, 1, Least(Len(succs), 3))
      into   == IF ~forLane /\ here \in ToSet(first3) THEN here ELSE HeadOr(succs)
  IN  [paths |-> [NoPaths EXCEPT ![0] = ExtendPath(start, into, Lookback, ahead, forLane)],
       idx |-> 0, extra |-> <<>>]

BuildSortedPaths(start, succs, here, last, candidates, ahead, forLane) ==
  LET allowed(s) == Succ[s] = <<>> \/ /\ Succ[s][1] \notin {last, start}
                                      /\ ~ShouldReplaceSuccessorWithNeighbor(start, s)
      leftmost == [s \in ToSet(succs) |-> LeftDepth[HeadOr(Succ[s])]]
      next == {i \in DOMAIN succs : allowed(succs[i])}
  IN  IF next = {} THEN Fallback(start, succs, here, ahead, forLane)
      ELSE Sorted(SortedAt(succs, next, leftmost), start, here, candidates, ahead, forLane)

(* addNeighborPaths: paths of the neighbours, the one nearer to the goal   *)
(* first; a left one shifts the others, what does not fit becomes extra.   *)
AddPath(built, path, onLeft) ==
  LET p == built.paths
      n == Cardinality(Valid(p))
  IN
  CASE n = 3 ->
         [built EXCEPT !.extra = Append(@, [path EXCEPT !.rank = IF onLeft THEN 0 ELSE 4])]
    [] n < 3 /\ onLeft ->
         [built EXCEPT
            !.paths = IF p[0] = None THEN [p EXCEPT ![0] = path]
                      ELSE Triple(path, p[0], p[1]),
            !.idx   = IF @ < 2 THEN 1 ELSE @]
    [] OTHER -> [built EXCEPT !.paths[n] = path]

AddNeighbor(built, found, k, ahead, forLane) ==
  IF k \notin DOMAIN found THEN built
  ELSE AddPath(built, PathInto(found[k].lane, found[k].successor, ahead, forLane), found[k].left)

ByMiss(found) == SortedBy(found, [f \in ToSet(found) |-> Miss[f.lane]])

Neighbor(lane, successor, onLeft) ==
  IF successor = NoEdge THEN <<>>
  ELSE <<[lane |-> lane, successor |-> successor, left |-> onLeft]>>

AddNeighborPaths(built, center, succs, ahead, forLane) ==
  LET into(lane, side) == FilteredNeighborSuccessor(lane, side, succs)
      found == ByMiss(Neighbor(LeftOf[center], into(LeftOf[center], LeftNeighbor), TRUE)
               \o Neighbor(RightOf[center], into(RightOf[center], RightNeighbor), FALSE))
  IN  AddNeighbor(AddNeighbor(built, found, 1, ahead, forLane), found, 2, ahead, forLane)

(* A lane whose end is far: the neighbours' paths on either side.          *)
ThreePaths(e, own, left, right, ahead) ==
  LET beside(lane, s) == IF s = NoEdge THEN None ELSE PathInto(lane, s, ahead, TRUE)
  IN  [paths |-> Triple(beside(LeftOf[e], left), PathInto(e, own, ahead, TRUE),
                        beside(RightOf[e], right)),
       idx |-> 1, extra |-> <<>>]

BesidePaths(e, succs, left, right, ahead) ==
  ThreePaths(e, FilteredCurrentSuccessor(succs, left, right), left, right, ahead)

LaneChangePaths(e, ahead) ==
  LET into(lane, side) == FilteredNeighborSuccessor(lane, side, RouteSuccessors(e))
  IN  BesidePaths(e, RouteSuccessors(e), into(LeftOf[e], LeftNeighbor),
                  into(RightOf[e], RightNeighbor), ahead)

(* Slip: the current index stays with the dropped path.                    *)
DropLoopOnly(built, i) ==
  IF built.paths[i] = None \/ ~built.paths[i].loop THEN built
  ELSE [built EXCEPT !.paths[i] = None]

(* Of several paths those that run in a loop are dropped, one by one.      *)
DropLoop(built, i) ==
  LET p    == built.paths
      more == {j \in Valid(p) : j > i}
      less == {j \in Valid(p) : j < i}
  IN  IF p[i] = None \/ ~p[i].loop THEN built
      ELSE [built EXCEPT
              !.paths[i] = None,
              !.idx = IF @ # i THEN @ ELSE IF more # {} THEN Min(more)
                      ELSE IF less # {} THEN Max(less) ELSE 0]

WithoutLoops(built) ==
  IF Cardinality(Valid(built.paths)) > 1 THEN DropLoop(DropLoop(DropLoop(built, 0), 1), 2) ELSE built

(* Slip: one rank per path.                                                *)
RankOfSlot(paths, i) == 1 + Cardinality({j \in Valid(paths) : j < i})

(* One rank per lane a path starts on, counted from the left.              *)
RankOf(paths, i) ==
  1 + Cardinality({j \in Valid(paths) \intersect 1..i :
        LET before == {k \in Valid(paths) : k < j}
        IN  before # {} /\ paths[Max(before)].lane # paths[j].lane})

(* Ranks, and the goal: once some path has ended at it                     *)
(* (approaching_terminal_point), a path that does not is given a far one.  *)
Finish(built) ==
  LET p    == built.paths
      near == built.terminal \/ \E i \in Valid(p) : p[i].goal > 0
      last == IF Valid(p) = {} THEN 1 ELSE RankOf(p, Max(Valid(p)))
  IN  [built EXCEPT
         !.terminal = near,
         !.paths = SlotWise(LAMBDA i : IF p[i] = None THEN None ELSE
                      [p[i] EXCEPT !.rank = RankOf(p, i),
                                   !.goal = IF near /\ @ = 0 THEN Far ELSE @]),
         !.extra = [k \in DOMAIN @ |-> IF @[k].rank = 4 THEN [@[k] EXCEPT !.rank = last + 1] ELSE @[k]]]

EdgesOf(paths, extra) ==
  (UNION {ToSet(paths[i].ids) : i \in Valid(paths)}) \union (UNION {ToSet(x.ids) : x \in ToSet(extra)})

(* A path along e alone, to its first successor if it has one.             *)
Alone(e, ahead) ==
  [paths |-> [NoPaths EXCEPT ![0] = ExtendPath(e, NextOnRoute(e), Lookback, ahead, TRUE)],
   idx |-> 0, extra |-> <<>>]

(* Paths from start into every successor, and from the lanes beside start. *)
JunctionPaths(start, e, last, candidates, ahead, forLane) ==
  AddNeighborPaths(
    BuildSortedPaths(start, RouteSuccessors(start), e, last, candidates, ahead, forLane),
    start, RouteSuccessors(start), ahead, forLane)

(* start: the lane the ego is on, or the edge before its connector.  It    *)
(* leads nowhere only if the lane ends or no edge is before the connector. *)
PathsFrom(start, e, last, candidates, near, ahead) ==
  CASE e \in Lanes /\ ~near -> LaneChangePaths(e, ahead)
    [] (e \in Lanes => near) /\ RouteSuccessors(start) = <<>> -> Alone(e, ahead)
    [] OTHER -> JunctionPaths(start, e, last, candidates, ahead, e \in Lanes)

StartOf(e) == IF e \in Lanes THEN e ELSE HeadOr(RoutePredecessors(e))

(* GetEgoRefPaths on edge e, entered from last; near: the end of the lane  *)
(* is near.  is_close_to_junction is left alone on a connector.            *)
Renewed(built, ahead, close, terminal) ==
  [paths |-> built.paths, idx |-> built.idx, extra |-> built.extra, terminal |-> terminal,
   close |-> close, line |-> EdgesOf(built.paths, built.extra), size |-> Lookback + ahead]

Completed(all, alone) == IF alone THEN all ELSE Finish(WithoutLoops(all))

GetEgoRefPaths(e, last, candidates, near, close, terminal) ==
  Completed(
    Renewed(PathsFrom(StartOf(e), e, last, candidates, near, LookAhead(e)),
            LookAhead(e), IF e \in Lanes THEN near ELSE close, terminal),
    e \in Lanes /\ near /\ RouteSuccessors(e) = <<>>)

---------------------------------------------------------------------------
(* UpdateEgoCurrRefPathIdx, on entering a connector.                       *)
UpdateEgoCurrRefPathIdx(paths, e, candidates, idx) ==
  LET with == {i \in Valid(paths) : e \in ToSet(paths[i].ids)}
  IN  IF ToSet(paths[idx].ids) \intersect candidates # {} \/ with = {} THEN idx ELSE Min(with)

(* UpdateEgoRefPaths: an ego on an outer path gets a neighbour beyond it,  *)
(* from the extra paths or built anew, and the outer path becomes slot 1.  *)
Shifted(b, p) ==
  IF b.idx = 0 THEN Triple(p, b.paths[0], b.paths[1])
               ELSE Triple(b.paths[1], b.paths[2], p)

WithExtra(b, k) ==
  [b EXCEPT !.paths = Shifted(b, b.extra[k]), !.idx = 1, !.extra = RemoveAt(@, k)]

WithMade(b, made) ==
  [Finish([b EXCEPT !.paths = Shifted(b, made), !.line = @ \union ToSet(made.ids)])
     EXCEPT !.idx = 1, !.extra = b.extra]

(* The path into the successor that leads beside the ego's own path.       *)
MakeBeyond(b, beyond, succs, wanted) ==
  LET into == FirstAt(succs, {i \in DOMAIN succs : wanted # NoEdge /\ NextOnRoute(succs[i]) = wanted})
  IN  WithMade(b, ExtendPath(beyond, into, Lookback, b.size - Lookback, FALSE))

Beyond(b, here, side) ==
  LET beyond == side[here[1]]
      ready  == {k \in DOMAIN b.extra : b.extra[k].lane = beyond}
  IN
  CASE beyond = NoEdge -> b
    [] beyond # NoEdge /\ ready # {} -> WithExtra(b, Min(ready))
    [] beyond # NoEdge /\ ready = {} /\ RouteSuccessors(beyond) = <<>> -> b
    [] OTHER -> MakeBeyond(b, beyond, RouteSuccessors(beyond), side[IF Len(here) > 2 THEN here[3] ELSE NoEdge])

UpdateEgoRefPaths(b) ==
  IF b.idx = 1 THEN b
  ELSE Beyond(b, b.paths[b.idx].ids, IF b.idx = 0 THEN LeftNeighbor ELSE RightNeighbor)

(* UpdateEgoRefPathsTrafficInfo: the first red light along each path.      *)
UpdateTrafficInfo(paths) ==
  SlotWise(LAMBDA i :
     IF paths[i] = None THEN None
     ELSE LET reds == {k \in DOMAIN paths[i].ids : HasRedTrafficLight(paths[i].ids[k])}
          IN  [paths[i] EXCEPT !.red = IF reds = {} THEN Far ELSE paths[i].starts[Min(reds)]])
=============================================================================
