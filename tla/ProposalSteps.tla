---------------------------- MODULE ProposalSteps ----------------------------
(***************************************************************************)
(* The proposals of trajectory optimisation: one lane of a batch per       *)
(* lateral offset and sampled future, moved by ContextQMDP along one path  *)
(* (generateProposalTrajectoryLFBatch) or from one to another              *)
(* (generateProposalTrajectoryLCBatch).  A lane that is taken to be on the *)
(* target line already, exact below, is carried along that line; what any  *)
(* lane does then decides which law of motion the others are moved by.     *)
(*                                                                         *)
(* A step has two halves, for the two published points per proposal point. *)
(* s counts half units, a path index is s \div 2.                          *)
(***************************************************************************)
EXTENDS Motion, TLC

CONSTANTS
  Rows,          \* sequence of [off, look]: lateral_offsets, find_exo_lateral_offsets
  Futures,       \* NUM_SCENARIOS_TRAJ_OPT_PER_THREAD
  Steps,         \* PROPOSAL_TRAJECTORY_SIZE - 1
  PathEnd,       \* last index of a path
  Back,          \* length of TRACEBACK_STEPS path points
  SwitchGain, SwitchReach, ExactReach,   \* 0.3 m, ACTION_CHANGE_DISTANCE_THRESHOLD, 0.2 m
  HardBrake,     \* HARD_BRAKE_DEC
  Calls,         \* the ego, its paths and the sampled futures
  MaxCalls

VARIABLES
  call,          \* arguments of the call in progress
  t,             \* its step; Steps when it has returned
  lanes,
  comp,          \* distance_compensation of the thread's workspace
  proposal, published,
  calls

vars == <<call, t, lanes, comp, proposal, published, calls>>

(* The ego is beside every path of a call, and 0.2 m are no more than two  *)
(* units sideways.                                                         *)
ASSUME ProposalAssumption ==
  /\ Rows \in Seq([off : Int, look : Int]) /\ Futures \in Nat \ {0}
  /\ Steps \in Nat /\ PathEnd \in Nat /\ HardBrake \in Int /\ EdgeOffset \in Int
  /\ ExactReach \in 0..2
  /\ \A p \in DOMAIN Base : Base[p] \in Int
  /\ \A r \in Calls :
       /\ {"init", "target", "ego"} \subseteq DOMAIN r
       /\ {r.init, r.target} \subseteq DOMAIN Base
       /\ r.ego \in [s : 0..(2 * PathEnd), y : Int, h : Int, v : 0..MaxV, a : Int]

NumLanes == Len(Rows) * Futures
Lanes == 1..NumLanes
Row(k) == Rows[((k - 1) \div Futures) + 1]
Fleet(k) == call.futures[((k - 1) % Futures) + 1]

(* What f holds for every lane, worked out once.                           *)
Each(f) ==
  LET upto[k \in 0..NumLanes] == IF k = 0 THEN <<>> ELSE Append(upto[k - 1], f[k])
  IN upto[NumLanes]

LaneChange(r) == r.init # r.target
Line(k) == Base[call.target] + Row(k).off
Index(c) == c.s \div 2
PathOf(c) == IF c.curr = 1 THEN call.target ELSE call.init
TurnLeft(r) == r.init > r.target
Side(r) == IF TurnLeft(r) THEN 1 ELSE -1
Shift == Side(call) * EdgeOffset

(* A slow ego, or one that has nearly completed the change, is moved over  *)
(* as soon as the change is allowed.                                       *)
Immediate(r) == \/ r.ego.v < Slow
                \/ Abs(r.ego.h) >= 2
                \/ Side(r) * (r.ego.y - Base[r.init]) >= 2

Point(c) == [s |-> c.s, y |-> c.y, v |-> c.v]

-----------------------------------------------------------------------------
(* Speeds: the acceleration of the car-following law, which may brake      *)
(* harder outside of lane changes, held by the jerk limit.                 *)
CurveAndLaneChangeAwareIDM(lead, v, dist, desired, changing) ==
  IF dist <= 0 THEN (IF changing THEN MaxDec ELSE HardBrake)
  ELSE IDM(lead, v, dist, desired)

UpdateSpeed(c, acc) ==
  LET a == Clamp(acc, c.a - 1, c.a + 1)
  IN [c EXCEPT !.a = a, !.v = Clamp(@ + a, 0, MaxV)]

(* How much further the ego gets while it moves sideways by d.             *)
Transition(v, d) == (d + LateralSpeed(v) - 1) \div LateralSpeed(v)
CompensationLF(v, d) == v * Transition(v, d)
Compensation(v, d) == ForwardShift(v, d)

Sideways(c) == Max({0, c.dist - LateralSpeed(c.v)})

Nearer(a, b) == IF b.dist < a.dist THEN b ELSE a

-----------------------------------------------------------------------------
(* determineTrajectoryMode: a lane change, unless the ego is on the target *)
(* path already or is slow and the way ahead is as good.                   *)
OnTarget(r) ==
  LET init == Abs(r.ego.y - Base[r.init])
      target == Abs(r.ego.y - Base[r.target])
  IN init - target > SwitchGain \/ target < SwitchReach

FollowsLane(r) ==
  \/ ~LaneChange(r)
  \/ r.second = r.init /\ r.ego.v < Slow /\ r.keep
  \/ OnTarget(r)

(* The path a lane-following proposal follows.                             *)
FollowedPath(r) ==
  IF \/ ~LaneChange(r)
     \/ r.second = r.init /\ r.ego.v < Slow /\ r.keep
     \/ Abs(r.ego.y - Base[r.init]) < SwitchReach /\ r.second = r.init
  THEN r.init ELSE r.target

(* The first points: beside the path at its offset, or where the ego is.   *)
StartLF(r, k) ==
  LET y == Base[r.target] + Rows[((k - 1) \div Futures) + 1].off
  IN [s |-> r.ego.s, y |-> y, h |-> 0, v |-> r.ego.v, a |-> r.ego.a, at |-> r.ego.s,
      curr |-> 1, on |-> TRUE, exact |-> TRUE, moved |-> TRUE, dist |-> Abs(r.ego.y - y)]

(* on, exact: on_target_path_mask, assumed_exactly_on_target_path_mask;    *)
(* dist: what is left of the way to the line once it is assumed reached;   *)
(* at: interpolated_target_path_idxs; moved, for the properties: the step  *)
(* began with the lane on its line.                                        *)
StartLC(r) ==
  [s |-> r.ego.s, y |-> r.ego.y, h |-> r.ego.h, v |-> r.ego.v, a |-> r.ego.a,
   at |-> 2 * (r.ego.s \div 2), curr |-> 0, on |-> FALSE, exact |-> FALSE, moved |-> FALSE,
   dist |-> 0]

Init ==
  /\ call = <<>> /\ t = Steps /\ lanes = <<>>
  /\ comp = [k \in Lanes |-> 0]
  /\ proposal = <<>> /\ published = <<>> /\ calls = 0

(* The stored proposal and the published one, per lane; the workspace      *)
(* keeps what the last call of the thread left in it.                      *)
generateProposalTrajectory ==
  /\ t = Steps /\ calls < MaxCalls
  /\ \E asked \in Calls :
       LET lf == FollowsLane(asked)
           path == FollowedPath(asked)
           r == IF lf THEN [asked EXCEPT !.init = path, !.target = path] ELSE asked
           start == [k \in Lanes |-> IF lf THEN StartLF(r, k) ELSE StartLC(r)]
       IN /\ call' = r
          /\ lanes' = start
          /\ proposal' = [k \in Lanes |-> <<Point(start[k])>>]
          /\ published' = [k \in Lanes |-> <<Point(start[k])>>]
  /\ t' = 0 /\ calls' = calls + 1
  /\ UNCHANGED comp

-----------------------------------------------------------------------------
(* The stored proposal gets the point after the step, the published one    *)
(* also the one after its first half; the lanes of anchored have their     *)
(* first points moved to their line.                                       *)
(* Fault: only the stored proposal is re-anchored.                         *)
Anchor(k) == [lanes[k] EXCEPT !.s = 2 * Index(lanes[k]), !.y = Line(k)]

PublishStale(halves, anchored) ==
  /\ lanes' = [k \in Lanes |-> halves[k][2]]
  /\ t' = t + 1
  /\ published' = [k \in Lanes |->
        Append(Append(published[k], Point(halves[k][1])), Point(halves[k][2]))]
  /\ proposal' = [k \in Lanes |->
        Append(IF k \in anchored THEN <<Point(Anchor(k))>> ELSE proposal[k],
               Point(halves[k][2]))]

Publish(halves, anchored) ==
  LET first(made, k) == IF k \in anchored THEN <<Point(Anchor(k))>> ELSE made[k]
  IN /\ lanes' = [k \in Lanes |-> halves[k][2]]
     /\ t' = t + 1
     /\ published' = [k \in Lanes |->
           Append(Append(first(published, k), Point(halves[k][1])), Point(halves[k][2]))]
     /\ proposal' = [k \in Lanes |-> Append(first(proposal, k), Point(halves[k][2]))]

-----------------------------------------------------------------------------
(* Both laws of motion, for half a step: along the target line, held at    *)
(* the end of the path, or steered towards the reference line.             *)
Carried(c, k, acc) ==
  LET b == UpdateSpeed(c, acc)
      at == Min({c.at + b.v, 2 * PathEnd})
  IN [b EXCEPT !.at = at, !.s = at, !.y = Line(k), !.h = 0]

Steered(c, acc, steering, any) ==
  LET b == UpdateState(c, acc, steering)
  IN [b EXCEPT !.at = IF any THEN Min({@ + b.v, 2 * PathEnd}) ELSE @]

Halves(c, k, acc, to, any) ==
  LET steering == Stanley(to - c.y, c.h)
      half(b) == IF c.exact THEN Carried(b, k, acc) ELSE Steered(b, acc, steering, any)
  IN <<half(c), half(half(c))>>

(* generateProposalTrajectoryLFBatch, one step of one lane.  The gap is    *)
(* lengthened after the red light has been looked at.                      *)
RedLightLF(c, gap) ==
  LET light == Light[call.target] - Index(c) - EgoLong
      sooner == gap.dist * c.v > light * Max({c.v - gap.v, 0})
  IN IF (gap.dist >= light \/ sooner) /\ light >= -5 /\ light < Far \div 2
     THEN [dist |-> light, v |-> 0] ELSE gap

(* The overloads of the two searches that lane following calls.            *)
CloseLF(c, k) ==
  CloseTo(Fleet(k), {}, TRUE, call.target, t, Index(c), Row(k).look, EgoWide)

CutLF(c, k) ==
  Intersected(Fleet(k), DOMAIN Fleet(k), {}, call.target, t, Index(c), c.v, Row(k).look).gap

StepLF(c, k) ==
  LET gap == RedLightLF(c, Nearer(CloseLF(c, k), CutLF(c, k)))
      acc == CurveAndLaneChangeAwareIDM(gap.v, c.v, gap.dist + CompensationLF(c.v, c.dist) - 1,
                                        Limit[call.target], FALSE)
  IN Halves([c EXCEPT !.dist = Sideways(c)], k, acc, Line(k), TRUE)

LaneFollowing ==
  /\ t < Steps /\ ~LaneChange(call)
  /\ \E halves \in {Each([k \in Lanes |-> StepLF(lanes[k], k)])} : Publish(halves, {})
  /\ UNCHANGED <<call, comp, calls>>

-----------------------------------------------------------------------------
(* generateProposalTrajectoryLCBatch.  A lane that is not yet assumed on   *)
(* its line measures the target path; the others are masked out of the     *)
(* search, and get the distance to where it would have begun, or, if all   *)
(* are, nothing.                                                           *)
TargetDistance(c) ==
  IF ~c.exact THEN Abs(c.y - Base[call.target])
  ELSE IF \A k \in Lanes : lanes[k].exact THEN Far ELSE Back

ToLine(c, k) ==
  LET l == TargetDistance(c) * (IF c.y < Base[call.target] THEN -1 ELSE 1)
  IN [center |-> Abs(l), line |-> Abs(l - Row(k).off)]

(* The snapshot taken when a lane is first assumed on its line: from where *)
(* it is carried on.                                                       *)
(* Faults: no progress is noted; the assumption is made anew every step.   *)
LatchedInPlace(c, now, line) ==
  IF now /\ ~c.exact THEN [c EXCEPT !.exact = TRUE, !.dist = line] ELSE c

LatchedAnew(c, now, line) ==
  IF ~now THEN [c EXCEPT !.exact = FALSE]
  ELSE IF c.exact THEN c
  ELSE [c EXCEPT !.exact = TRUE, !.dist = line, !.at = 2 * Index(c)]

Latched(c, now, line) ==
  IF now /\ ~c.exact
  THEN [c EXCEPT !.exact = TRUE, !.dist = line, !.at = 2 * Index(c)] ELSE c

Located(k) ==
  LET c == lanes[k]
      d == ToLine(c, k)
      switch == \/ Abs(c.y - Base[call.init]) - Min({d.line, d.center}) > SwitchGain
                \/ d.line < SwitchReach
                \/ c.on
      b == Latched(c, d.line < ExactReach, d.line)
      curr == IF switch THEN 1 ELSE c.curr
  IN [b EXCEPT !.curr = curr, !.on = curr = 1 \/ b.exact, !.moved = c.exact]

(* The searches and the allowance of lane changing, on the path the lane   *)
(* counts as its own or on the target path.                                *)
CloseLC(c, k, ahead, path, off) ==
  CloseTo(Fleet(k), {}, ahead, path, t, Index(c), off, EgoWide)

CutLC(c, k, off) ==
  Intersected(Fleet(k), DOMAIN Fleet(k), {}, PathOf(c), t, Index(c), c.v, off).gap

AllowanceLC(c, own, lead, behind) ==
  LCAllowance([v |-> c.v, h |-> c.h, l |-> c.y - Base[call.init], turn |-> Side(call),
               desired |-> Limit[PathOf(c)]], own, lead, behind)

(* A lane as located, with what it sees around it: the lead on its own     *)
(* path, and if it still considers the change whether it may go.           *)
Looked(k) ==
  LET c == Located(k)
      off == IF c.on THEN Row(k).look ELSE Shift
      own == CloseLC(c, k, TRUE, PathOf(c), off)
      lead == CloseLC(c, k, TRUE, call.target, Row(k).look)
      lc == IF c.on THEN [go |-> FALSE, lead |-> FALSE]
            ELSE AllowanceLC(c, own, lead, CloseLC(c, k, FALSE, call.target, Row(k).look))
      cut == IF lc.go THEN NoGap ELSE CutLC(c, k, off)
      now == c.exact \/ (Immediate(call) /\ lc.go)
  IN [lane |-> Latched(c, now, ToLine(lanes[k], k).line),
      own |-> own, nearest |-> Nearer(own, cut), ahead |-> lead,
      go |-> lc.go, lead |-> lc.lead, trying |-> ~c.on /\ ~lc.go]

Longer(gap, by) == [gap EXCEPT !.dist = @ + by]

(* The red light of the path the lane counts as its own.                   *)
RedLightLC(c, gap) ==
  LET light == Light[PathOf(c)] - Index(c) - EgoLong
  IN IF gap.dist >= light /\ light >= -5 /\ light < Far \div 2
     THEN [dist |-> light, v |-> 0] ELSE gap

GapLC(seen, more) ==
  RedLightLC(seen.lane,
    IF seen.go THEN (IF seen.lead THEN Longer(seen.ahead, more) ELSE seen.own)
    ELSE IF ~seen.trying THEN Longer(seen.nearest, more)
    ELSE IF seen.lead THEN seen.ahead ELSE seen.nearest)

StepLC(seen, k, more, any) ==
  LET c == seen.lane
      gap == GapLC(seen, more)
      acc == CurveAndLaneChangeAwareIDM(gap.v, c.v, gap.dist - 1, Limit[PathOf(c)],
                                        seen.go \/ (seen.trying /\ seen.lead))
      to == IF seen.trying THEN Base[call.init] + Shift ELSE Line(k)
  IN Halves(IF any /\ c.exact THEN [c EXCEPT !.dist = Sideways(c)] ELSE c, k, acc, to, any)

(* In the first step the lanes assumed on their line get a first point     *)
(* there.                                                                  *)
LaneChanging ==
  /\ t < Steps /\ LaneChange(call)
  /\ \E seen \in {Each([k \in Lanes |-> Looked(k)])} :
       LET any == \E k \in Lanes : seen[k].lane.exact
       IN \E more \in {IF any THEN Each([k \in Lanes |-> Compensation(seen[k].lane.v, seen[k].lane.dist)])
                       ELSE comp} :
            /\ comp' = more
            /\ \E halves \in {Each([k \in Lanes |-> StepLC(seen[k], k, more[k], any)])} :
                 Publish(halves, {k \in Lanes : t = 0 /\ seen[k].lane.exact})
  /\ UNCHANGED <<call, calls>>

Next == generateProposalTrajectory \/ LaneFollowing \/ LaneChanging

Spec == Init /\ [][Next]_vars

-----------------------------------------------------------------------------
(* The published trajectory, which the controller drives, and the          *)
(* proposal, which is the one that is scored, are the same: the second has *)
(* every other point of the first, the re-anchored first points included.  *)
PublishedAgree ==
  \A k \in DOMAIN proposal :
    /\ Len(published[k]) = 2 * Len(proposal[k]) - 1
    /\ \A i \in DOMAIN proposal[k] : published[k][2 * i - 1] = proposal[k][i]

(* Taking a lane to be on its line moves it there and never back: a        *)
(* published point is no more than one index behind the one before and no  *)
(* further ahead than the speed allows, and unless a whole change of lane  *)
(* is skipped it is beside it.                                             *)
Beside(p, q) == Abs(q.y - p.y) <= 1
NoSuddenJump ==
  \A k \in DOMAIN published : \A i \in 1..(Len(published[k]) - 1) :
    LET p == published[k][i]
        q == published[k][i + 1]
    IN /\ q.s - p.s \in -1..(MaxV + 1)
       /\ Beside(p, q) \/ (LaneChange(call) /\ Immediate(call) /\ q.y = Line(k))

(* Once a lane is assumed on its line it stays there to the end of the     *)
(* call and is carried forward along it, though the search for the target  *)
(* path leaves it out and its measured distance means nothing.             *)
OnLineForGood ==
  [][\A k \in DOMAIN lanes : t < Steps /\ lanes[k].exact =>
       lanes'[k].exact /\ lanes'[k].y = Line(k) /\ lanes'[k].s >= lanes[k].s]_vars

(* A lane that began the step on its line follows the target path: its     *)
(* lead, its speed limit and its red light are those of that path          *)
(* (context_qmdp.cpp: "treat the vehicle as already being on the target    *)
(* lane").                                                                 *)
FollowsItsLine == \A k \in DOMAIN lanes : lanes[k].moved => lanes[k].curr = 1

=============================================================================
