--------------------------- MODULE CrossEvaluation ---------------------------
(***************************************************************************)
(* TrajectoryOptimization after the search: the agents' futures are        *)
(* sampled from the belief and indexed, every proposed trajectory is       *)
(* simulated against every sampled scenario, a whole SIMD row at a time,   *)
(* and one proposal is published, or a brake command instead of it.  The   *)
(* search's own collision check runs on an index of the same kind.         *)
(*                                                                         *)
(* Agents and ego are boxes on a straight reference path along x, so (x,   *)
(* y) is (s, l); an agent may sit on a stretch that projects elsewhere     *)
(* (alias), which is what NOTICE_VEHICLE_IDXS is for.                      *)
(***************************************************************************)
EXTENDS BoxOverlap, SpatialIndex

CONSTANTS
  Frames,      \* what a planning frame can start from
  Scenarios,   \* NUM_SCENARIOS_TRAJ_OPT_PER_THREAD
  Offsets,     \* LATERAL_OFFSETS: one row of proposals each, right to left
  Width,       \* proposals of a row
  FullLen, ShortLen,       \* CROSS_EVALUATION_LEN, and the shorter one for a fast ego
  EgoWide, EgoLong, EgoMargin, ExoMargin, \* extents; ExoMargin is times D
  LaneHalf, RoadHalf,      \* half widths of the lane and of the drivable area
  LaneLimit, RowLimit,     \* how many candidates a query returns
  Crash, Metric, Nudge,    \* penalties, as positive costs
  Gap, EdgeGap,            \* CROSS_EVAL_COLLISION_GAP_THRESHOLD, CROSS_EVAL_SPEED_GAP_THRESHOLD
  Critical, Extended       \* EMERGENCY_TTC_CRITICAL, EMERGENCY_TTC_EXTENDED

(* A mode of the prediction, its probability and its displacement per time *)
(* step, and an agent of the belief with its modes.                        *)
Prediction == [prob : Nat, step : Int \X Int]
Vehicle == [x : Int, y : Int, dir : Int \X Int, wide : Nat, long : Nat, alias : Int,
            modes : Seq(Prediction)]

(* No more vehicles than MAX_SIM_VEHICLES, which a tree has room for, and  *)
(* a sample picks one of a vehicle's modes.                                *)
ASSUME EvaluationAssumption ==
  /\ FullLen \in Nat /\ LaneLimit \in Nat /\ RowLimit \in Nat /\ ExoMargin \in Int
  /\ \A f \in Frames :
       /\ f.fleet \in Seq(Vehicle) /\ Len(f.fleet) <= Entries
       /\ \A s \in Scenarios, i \in DOMAIN f.fleet : f.picks[s][i] \in DOMAIN f.fleet[i].modes

VARIABLES
  phase,      \* "idle", "evaluate" or "done"
  frame,      \* the frame being planned
  trees,      \* exo_expanded_strtrees_, per scenario and time step
  near,       \* the search's exo_strtrees, for its first time step
  probe,      \* the last HasCollisionBatch of the search
  now,        \* <<scenario_offset, t>>
  active,     \* active_flags
  inactive,   \* exo_inactive_flags, per proposal
  reward,     \* rewards of this scenario
  value,      \* value_array_sum
  ttc,        \* collided_timesteps
  choice      \* best proposal, time_to_infraction_ and what was published

vars == <<phase, frame, trees, near, probe, now, active, inactive, reward, value, ttc, choice>>

Rows  == 1..Len(Offsets)
Lanes == Rows \X (1..Width)
Never == 100
Slow == 1                 \* REWARD_SPEED_MID, LOW_SPEED_THRESHOLD and their like
Fast == 2
Agents(f) == 0..Len(f.fleet) - 1

EvaluationLen(v) == IF v > Slow THEN ShortLen ELSE FullLen

(* The sampled future of an agent: its mode's displacement per step.       *)
Exo(f, s, t, i) ==
  LET a == f.fleet[i + 1]
      m == a.modes[f.picks[s][i + 1]]
  IN  [x |-> a.x + m.step[1] * t, y |-> a.y + m.step[2] * t, dir |-> a.dir,
       wide |-> a.wide, long |-> a.long, v |-> Abs(m.step[1]) + Abs(m.step[2])]

Expanded(b) == [b EXCEPT !.wide = @ + 1, !.long = @ + 1]

(* Modes an agent can be given: the likely ones, or the likeliest.         *)
TruncatedModes(a, threshold) ==
  LET likely == {m \in DOMAIN a.modes : a.modes[m].prob >= threshold}
      best   == Max({a.modes[m].prob : m \in DOMAIN a.modes})
  IN  IF likely # {} THEN likely
      ELSE {Min({m \in DOMAIN a.modes : a.modes[m].prob = best})}

(* actual_prob / importance_prob up to the factors all scenarios share:    *)
(* the number of modes an agent's was drawn from, and all of an agent that *)
(* has one mode to draw.                                                   *)
ImportanceWeight(f, s) ==
  LET drawn(i) == IF Cardinality(TruncatedModes(f.fleet[i], f.threshold)) = 1 THEN 1
                  ELSE f.fleet[i].modes[f.picks[s][i]].prob
  IN  FoldLeft(LAMBDA n, i : n * drawn(i), 1, [i \in DOMAIN f.fleet |-> i])

(* The box an agent takes in the frame of the path, times D.               *)
FrenetEntry(b, alias, margin, id) ==
  LET rs == Abs(b.dir[1]) * b.long + Abs(b.dir[2]) * b.wide
      rl == Abs(b.dir[2]) * b.long + Abs(b.dir[1]) * b.wide + margin
      s  == D * (b.x + alias)
      l  == D * b.y
  IN  [lo |-> <<s - rs, l - rl>>, hi |-> <<s + rs, l + rl>>, at |-> <<s, l>>, id |-> id]

(* Junk past the valid vehicles is the box of the whole plane.             *)
Junk == [lo |-> <<-1000, -1000>>, hi |-> <<1000, 1000>>, at |-> <<0, 0>>, id |-> -2]

buildSTRtreesFrenetBatch(tree, entries) ==
  LET n == Len(entries)
      batch(k) == [j \in 1..Cap |-> IF k + j <= n THEN entries[k + j] ELSE Junk]
      fill[r \in 0..Ceil(n, Cap)] ==
        IF r = 0 THEN clear(tree)
        ELSE insertBatch(fill[r - 1], batch((r - 1) * Cap), Min({Cap, n - (r - 1) * Cap}))
  IN  build(fill[Ceil(n, Cap)])

ExoEntries(f, s, t, larger) ==
  [i \in DOMAIN f.fleet |->
     LET b == Exo(f, s, t, i - 1)
     IN FrenetEntry(IF larger THEN Expanded(b) ELSE b, f.fleet[i].alias, ExoMargin, i - 1)]

QueryBox(e) ==
  [lo |-> <<D * (e.x - e.long - EgoMargin), D * (e.y - e.wide - EgoMargin)>>,
   hi |-> <<D * (e.x + e.long + EgoMargin), D * (e.y + e.wide + EgoMargin)>>]

-----------------------------------------------------------------------------
AnyContactCrashes(tree, e, exo, ignored) ==
  LET found == ToSet(queryBatch(tree, QueryBox(e), LaneLimit)) \ ignored
  IN  [hit |-> \E i \in found : checkSATCollisionLocal(e, exo[i]), ignored |-> ignored]

(* HasCollisionBatch of the search: a contact from behind is not a crash,  *)
(* but the agent is ignored from then on; a crash ends the scan.           *)
Scan(found, touched, crashes, ignored) ==
  LET scanned == IF crashes = {} THEN DOMAIN found ELSE 1..Min(crashes) - 1
  IN  [hit |-> crashes # {}, ignored |-> ignored \union {found[k] : k \in touched \intersect scanned}]

CheckFound(found, e, exo, touched, ignored) ==
  Scan(found, touched, {k \in touched : ~Behind(e, exo[found[k]], PI_1_4)}, ignored)

CheckQueried(found, e, exo, ignored) ==
  CheckFound(found, e, exo,
             {k \in DOMAIN found : found[k] \notin ignored /\ checkSATCollisionLocal(e, exo[found[k]])},
             ignored)

HasCollisionBatch(tree, e, exo, ignored) ==
  CheckQueried(queryBatch(tree, QueryBox(e), LaneLimit), e, exo, ignored)

(* HasCollisionBatch of the evaluation, one row of proposals: one query    *)
(* with the hull of the active lanes; the first agent to touch a lane is   *)
(* kept, one that touches the unexpanded box instead of one that does not. *)
Coarse == 50    \* kCoarseCheckDistSq

Met(found, met, hard, i) ==
  LET update == {l \in met \ found.original : l \in hard \/ l \notin found.expanded}
  IN  [original |-> found.original \union hard, expanded |-> found.expanded \union met,
       agent |-> [l \in DOMAIN found.agent |-> IF l \in update THEN i ELSE found.agent[l]]]

HardOf(found, met, ego, i, body) ==
  Met(found, met, {l \in met : checkSATCollisionLocal(ego[l], body)}, i)

ProcessAgent(found, lanes, ego, i, body, coarse) ==
  LET close(l) == Dot(From(ego[l], body), From(ego[l], body)) < Coarse
  IN  HardOf(found,
             {l \in lanes : /\ coarse => close(l)
                            /\ i \notin inactive[l]
                            /\ checkSATCollisionLocal(ego[l], Expanded(body))},
             ego, i, body)

NoContact(lanes) == [original |-> {}, expanded |-> {}, agent |-> [l \in lanes |-> -1]]

RowQuery(tree, lanes, ego) == queryBatch(tree, Hull({QueryBox(ego[l]) : l \in lanes}), RowLimit)

StopsAtFirstLane(tree, lanes, ego, exo, noticed) ==
  IF lanes = {} THEN NoContact(lanes)
  ELSE FoldLeft(LAMBDA acc, i : IF acc.original # {} THEN acc
                                ELSE ProcessAgent(acc, lanes, ego, i, exo[i], FALSE),
                NoContact(lanes), RowQuery(tree, lanes, ego) \o noticed)

(* Coarse is tested for the noticed vehicles only.                         *)
ScanRow(candidates, lanes, ego, exo, noticed) ==
  FoldLeft(LAMBDA acc, c : IF lanes \subseteq acc.original THEN acc
                           ELSE ProcessAgent(acc, lanes, ego, c[1], exo[c[1]], c[2]),
           NoContact(lanes),
           [k \in DOMAIN candidates |-> <<candidates[k], FALSE>>]
             \o [k \in DOMAIN noticed |-> <<noticed[k], TRUE>>])

RowCollisions(tree, lanes, ego, exo, noticed) ==
  IF lanes = {} THEN NoContact(lanes)
  ELSE ScanRow(RowQuery(tree, lanes, ego), lanes, ego, exo, noticed)

(* A contact is the ego's fault if it drove into a standing agent or one   *)
(* ahead of it, or into one beside it while out of its lane.  An agent     *)
(* touched through no fault of the ego is ignored from then on.            *)
NoAtFault(kind, original, ego, t) ==
  LET expanded == \/ kind \in {"stopped track", "front"}
                  \/ kind = "lateral" /\ (ego.astray \/ ego.offroad)
  IN  [crash |-> (original \/ (t = 0 /\ ego.v <= Slow)) /\ expanded,
       excused |-> original /\ ~expanded, brush |-> expanded /\ ~original]

Movement(v) == Fast - v         \* GetMovementPenalty
OffRoadCost(ego) == IF ego.offroad THEN Metric ELSE 0
LateralCost(l) == IF Offsets[l[1]] = 0 THEN 0 ELSE 1
StepCost(ego, l) == Movement(ego.v) + LateralCost(l) + OffRoadCost(ego)

(* What one contact costs a proposal: with a crash, the rest of the        *)
(* horizon as well, standing still in the wreck.                           *)
CollisionCost(verdict, ego, t, len) ==
  LET penalty == IF verdict.crash THEN Crash ELSE IF verdict.brush THEN Nudge ELSE 0
  IN  penalty + (IF verdict.crash
                 THEN (penalty + OffRoadCost(ego) + Movement(0)) * (len - t - 1) ELSE 0)

(* A proposal: reaches its offset in one step, at its column's speed.      *)
Proposal(f, l, t) ==
  LET y == IF t = 0 THEN 0 ELSE Offsets[l[1]]
      v == Min({f.v, l[2]})
      turned == t = 1 /\ y # 0
      dir == IF ~turned THEN <<D, 0>> ELSE IF y > 0 THEN <<12, 5>> ELSE <<12, -5>>
  IN  [x |-> v * t, y |-> y, dir |-> dir, wide |-> EgoWide, long |-> EgoLong, v |-> v,
       astray |-> Abs(y) > LaneHalf, offroad |-> Abs(y) > RoadHalf]

-----------------------------------------------------------------------------
NoProbe == [ego |-> [x |-> 0], at |-> 0, before |-> {}, hit |-> FALSE, ignored |-> {}]
NoChoice == [lane |-> <<1, 1>>, ttc |-> Never, published |-> "none"]

Init ==
  /\ phase = "idle" /\ frame \in Frames
  /\ trees = [s \in Scenarios |-> [t \in 0..FullLen - 1 |-> STRtree]] /\ near = STRtree
  /\ probe = NoProbe /\ now = <<1, 0>> /\ active = Lanes
  /\ inactive = [l \in Lanes |-> {}] /\ reward = [l \in Lanes |-> 0]
  /\ value = [l \in Lanes |-> 0] /\ ttc = [l \in Lanes |-> Never]
  /\ choice = NoChoice

(* importanceSampleScenarios and sampleScenarios: the trees of the last    *)
(* frame are cleared and filled again.                                     *)
SampleScenarios ==
  /\ phase # "evaluate"
  /\ \E f \in Frames :
       /\ \A s \in Scenarios, i \in DOMAIN f.fleet :
            f.picks[s][i] \in TruncatedModes(f.fleet[i], f.threshold)
       /\ frame' = f
       /\ trees' = [s \in Scenarios |-> [t \in 0..FullLen - 1 |->
                      buildSTRtreesFrenetBatch(trees[s][t], ExoEntries(f, s, t, TRUE))]]
       /\ near' = buildSTRtreesFrenetBatch(near, ExoEntries(f, 1, 0, FALSE))
  /\ phase' = "evaluate" /\ now' = <<1, 0>>
  /\ active' = Lanes /\ inactive' = [l \in Lanes |-> {}]
  /\ reward' = [l \in Lanes |-> 0] /\ value' = [l \in Lanes |-> 0]
  /\ ttc' = [l \in Lanes |-> Never]
  /\ probe' = NoProbe /\ choice' = NoChoice

(* The search checks one of its nodes, with what it ignores already.       *)
Probe ==
  /\ phase = "evaluate" /\ now = <<1, 0>>
  /\ \E l \in Lanes, t \in 0..1 :
       \E e \in {Proposal(frame, l, t)} :
       \E r \in {HasCollisionBatch(near, e, [i \in Agents(frame) |-> Exo(frame, 1, 0, i)],
                                   probe.ignored)} :
           probe' = [ego |-> e, at |-> probe.at + 1, before |-> probe.ignored,
                     hit |-> r.hit, ignored |-> r.ignored]
  /\ probe.at < 2
  /\ UNCHANGED <<phase, frame, trees, near, now, active, inactive, reward, value, ttc, choice>>

(* The contacts of the active lanes of every row in this step.             *)
WriteBack(rows) ==
  [l \in active |->
     [expanded |-> l \in rows[l[1]].expanded, original |-> l \in rows[l[1]].original,
      agent |-> rows[l[1]].agent[l]]]

Contacts ==
  LET s == now[1]
      t == now[2]
      ego == [l \in Lanes |-> Proposal(frame, l, t)]
  IN  WriteBack([r \in Rows |->
                   RowCollisions(trees[s][t], {l \in active : l[1] = r}, ego,
                                 [i \in Agents(frame) |-> Exo(frame, s, t, i)], frame.noticed)])

(* What a step does to one active lane.                                    *)
Charge(verdict, c, ego, exo, slowStart, t, len) ==
  LET frontal == ~Behind(ego, exo, PI_1_3) \/ slowStart
  IN  [crash |-> verdict.crash, frontal |-> verdict.crash /\ frontal,
       excused |-> IF verdict.excused THEN {c.agent} ELSE {},
       cost |-> CollisionCost(verdict, ego, t, len)]

Contact(l, c, ego, exo, t, len) ==
  Charge(NoAtFault(GetCollisionType(ego, Expanded(exo), t), c.original, ego, t), c, ego, exo,
         Proposal(frame, l, 0).v <= Slow, t, len)

NoCharge == [crash |-> FALSE, frontal |-> FALSE, excused |-> {}, cost |-> 0]

WithStepCost(charge, ego, l) == [charge EXCEPT !.cost = @ + StepCost(ego, l)]

Outcome(l, c, s, t, len) ==
  WithStepCost(IF c.expanded
               THEN Contact(l, c, Proposal(frame, l, t), Exo(frame, s, t, c.agent), t, len)
               ELSE NoCharge,
               Proposal(frame, l, t), l)

(* One time step of crossScenarioEvaluationBatch, and, at the last one or  *)
(* when no lane is left, the scenario's share of the values.               *)
EvaluateStep ==
  /\ phase = "evaluate"
  /\ \E contacts \in {Contacts} :
     \E out \in {[l \in active |-> Outcome(l, contacts[l], now[1], now[2], EvaluationLen(frame.v))]} :
       LET left  == {l \in active : ~out[l].crash}
           paid  == [l \in Lanes |-> reward[l] + (IF l \in active THEN out[l].cost ELSE 0)]
           ended == left = {} \/ now[2] = EvaluationLen(frame.v) - 1
       IN  /\ ttc' = [l \in Lanes |-> IF l \in active /\ out[l].frontal
                                      THEN Min({ttc[l], now[2]}) ELSE ttc[l]]
           /\ IF ended
              THEN /\ value' = [l \in Lanes |->
                                  value[l] + ImportanceWeight(frame, now[1]) * paid[l]]
                   /\ now' = <<now[1] + 1, 0>>
                   /\ active' = Lanes /\ inactive' = [l \in Lanes |-> {}]
                   /\ reward' = [l \in Lanes |-> 0]
                   /\ phase' = IF now[1] = Cardinality(Scenarios) THEN "choose" ELSE phase
              ELSE /\ now' = <<now[1], now[2] + 1>> /\ active' = left
                   /\ inactive' = [l \in Lanes |-> inactive[l] \union
                                     (IF l \in active THEN out[l].excused ELSE {})]
                   /\ reward' = paid /\ UNCHANGED <<value, phase>>
  /\ probe' = NoProbe /\ UNCHANGED <<frame, trees, near, choice>>

-----------------------------------------------------------------------------
(* determinLateralOffsetSpace: the outer rows of a side are considered     *)
(* unless the ego changes lane to that side at speed, is off the route, or *)
(* could not move over to the path on that side.                           *)
OffsetSpace(f) ==
  LET side(d) == CASE f.side[d] = "none" -> TRUE
                   [] f.side[d] = "off route" -> f.connector
                   [] OTHER -> f.side[d] = "free"
  IN  IF f.change # "keep" THEN [d \in {"left", "right"} |-> ~(f.change = d /\ f.v > Slow)]
      ELSE [d \in {"left", "right"} |-> f.onRoute /\ side(d)]

OuterRows(d) == IF d = "right" THEN 1..2 ELSE Len(Offsets) - 1..Len(Offsets)
SecondEdge == {2, Len(Offsets) - 1}

(* Costs are compared, the first of equals wins.  A proposal outside the   *)
(* permitted rows is taken only when it is better by a gap.                *)
Cheapest(lanes) ==
  LET before(a, b) == a[1] < b[1] \/ (a[1] = b[1] /\ a[2] < b[2])
  IN  CHOOSE l \in lanes : \A m \in lanes \ {l} :
        value[l] < value[m] \/ (value[l] = value[m] /\ before(l, m))

BestProposal(space) ==
  LET barred == UNION {OuterRows(d) : d \in {e \in DOMAIN space : ~space[e]}}
      global == Cheapest(Lanes)
      edge   == Cheapest({l \in Lanes : l[1] \in SecondEdge})
      inside == Cheapest({l \in Lanes : l[1] \notin barred})
      weight == MapThenSumSet(LAMBDA s : ImportanceWeight(frame, s), Scenarios)
  IN  IF value[inside] - value[global] > Gap * weight THEN global
      ELSE IF value[inside] - value[edge] > EdgeGap * weight THEN edge
      ELSE inside

(* checkAndGenerateEmergencyBrake and getOptimizedTrajectory: a crash      *)
(* ahead first, then a proposal that itself brakes hard, then one that     *)
(* hardly moves.                                                           *)
Publication(time_to_infraction, f) ==
  CASE \/ time_to_infraction <= Critical
       \/ time_to_infraction <= Extended /\ f.v <= Slow -> "brake"
    [] f.braking -> "gentle brake"
    [] f.v = 0 /\ ~f.moves -> "static"
    [] OTHER -> "proposal"

ChooseWithinRow ==
  /\ phase = "choose"
  /\ LET best == BestProposal(OffsetSpace(frame))
         ttc1 == ttc[<<best[1], 1>>]
     IN  choice' = [lane |-> best, ttc |-> ttc1, published |-> Publication(ttc1, frame)]
  /\ phase' = "done"
  /\ UNCHANGED <<frame, trees, near, probe, now, active, inactive, reward, value, ttc>>

ChooseProposal ==
  /\ phase = "choose"
  /\ LET best == BestProposal(OffsetSpace(frame))
     IN  choice' = [lane |-> best, ttc |-> ttc[best], published |-> Publication(ttc[best], frame)]
  /\ phase' = "done"
  /\ UNCHANGED <<frame, trees, near, probe, now, active, inactive, reward, value, ttc>>

Next == SampleScenarios \/ Probe \/ EvaluateStep \/ ChooseProposal

Spec == Init /\ [][Next]_vars

-----------------------------------------------------------------------------
(* Every tree answers for the boxes of this frame and for them only,       *)
(* whatever the frames before left in its arrays: each answer is a box     *)
(* that meets the query, none is given twice, and all are when they fit    *)
(* (STRtree::build, queryBatch).                                           *)
QueryBoxes == {[lo |-> <<D * x, D * y>>, hi |-> <<D * (x + w), D * (y + 1)>>] :
                 x \in {-6, -1, 4, 9}, y \in {-4, -1, 2}, w \in {0, 6}}

QueryExact ==
  phase = "evaluate" /\ now = <<1, 0>> /\ probe = NoProbe =>
    \A s \in Scenarios, t \in 0..FullLen - 1, q \in QueryBoxes :
      LET boxes == ExoEntries(frame, s, t, TRUE)
          meets == {boxes[i].id : i \in {j \in DOMAIN boxes : intersects(q, boxes[j])}}
          found == queryBatch(trees[s][t], q, RowLimit)
      IN  /\ ToSet(found) \subseteq meets /\ IsInjective(found)
          /\ Len(found) = Min({RowLimit, Cardinality(meets)})

(* The verdict on a search node is the one the geometry gives: a crash iff *)
(* the ego's box shares a point with an agent that is not behind it and    *)
(* not ignored already; and short of a crash exactly the agents that touch *)
(* it from behind are ignored besides (HasCollisionBatch).                 *)
SearchVerdict ==
  probe.at > 0 =>
    LET exo(i) == Exo(frame, 1, 0, i)
        seen == {i \in Agents(frame) : frame.fleet[i + 1].alias = 0}
        met  == {i \in seen \ probe.before : Overlap(probe.ego, exo(i))}
        rear == {i \in met : Behind(probe.ego, exo(i), PI_1_4)}
    IN  /\ probe.hit <=> met # rear
        /\ probe.ignored \subseteq probe.before \union rear
        /\ ~probe.hit => probe.ignored = probe.before \union rear

(* One proposal, evaluated by itself against all agents in turn, without   *)
(* index, rows or early exit: the cost of the scenario and the step of its *)
(* crash if the ego can be blamed for it from the front.                   *)
Hits(ego, exos, ignored) == {i \in Agents(frame) \ ignored : Overlap(ego, exos[i])}

Touching(wide, hard) ==
  [expanded |-> wide # {}, original |-> hard # {},
   agent |-> IF hard # {} THEN Min(hard) ELSE IF wide # {} THEN Min(wide) ELSE -1]

TouchingAt(ego, exos, ignored) ==
  Touching(Hits(ego, [i \in Agents(frame) |-> Expanded(exos[i])], ignored), Hits(ego, exos, ignored))

After(prev, o, t) ==
  [cost |-> prev.cost + o.cost, ignored |-> prev.ignored \union o.excused,
   crash |-> IF o.crash THEN t ELSE Never, frontal |-> o.frontal]

Alone(l, s) ==
  LET len == EvaluationLen(frame.v)
      contact(t, ignored) ==
        TouchingAt(Proposal(frame, l, t), [i \in Agents(frame) |-> Exo(frame, s, t, i)], ignored)
  IN  FoldLeft(LAMBDA acc, t : IF acc.crash # Never THEN acc
                               ELSE After(acc, Outcome(l, contact(t, acc.ignored), s, t, len), t),
               [cost |-> 0, ignored |-> {}, crash |-> Never, frontal |-> FALSE],
               [k \in 1..len |-> k - 1])

(* Evaluating a row of proposals at once changes nothing for any of them:  *)
(* the values are those of the proposals evaluated one by one, provided    *)
(* RowLimit leaves out none that matters (crossScenarioEvaluationBatch).   *)
LanesIndependent ==
  phase = "choose" =>
    \A l \in Lanes :
      value[l] = MapThenSumSet(LAMBDA s : ImportanceWeight(frame, s) * Alone(l, s).cost, Scenarios)

(* The brake replaces a proposal iff in some scenario it was evaluated      *)
(* against following it means a crash ahead within the critical time: the *)
(* time to infraction is that of the proposal chosen, not of another one.  *)
FrontalAt(end) == IF end.frontal THEN end.crash ELSE Never

BrakesBeforeCrash ==
  phase = "done" =>
    (choice.published = "brake" <=>
       \E s \in Scenarios : \E c \in {FrontalAt(Alone(choice.lane, s))} :
         c <= Critical \/ (frame.v <= Slow /\ c <= Extended))
=============================================================================
