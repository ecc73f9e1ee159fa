------------------------------- MODULE Motion -------------------------------
(***************************************************************************)
(* ContextQMDP's model of how the ego moves, for one lane of a SIMD batch: *)
(* the gaps to the agents around it, whether a lane change is allowed, the *)
(* car-following and steering laws, and one time step of the kinematics.   *)
(*                                                                         *)
(* The reference paths are straight and parallel: a path is its lateral    *)
(* position Base[p], a position is (s, y) and l = y - Base[p].  Speeds are *)
(* distances per step; a heading of 1 is past the threshold for changing   *)
(* lanes, one of 2 past the threshold for having changed.                  *)
(***************************************************************************)
EXTENDS Integers, Sequences, FiniteSets, SequencesExt, FiniteSetsExt

CONSTANTS
  Base, Limit, Light,    \* per reference path: where it is, its speed limit, its red light
  Pred,                  \* MAX_PRED_TIME_STEPS
  LookSteps, LookTime,   \* LOOKAHEAD_STEPS, LOOK_TIME_STEPS
  EgoWide, EgoLong,      \* half extents of the ego
  Inset,                 \* -AGENT_DETECTION_MARGIN
  EdgeOffset,            \* LEFT_LATERAL_OFFSET
  Free                   \* LC_UNCONDITIONAL_ALLOW_DISTANCE

Far == 100               \* MAX_VALUE
MaxV == 2
MaxDec == -2
ComfortDec == -1
Slow == 1                \* the speed thresholds of the lateral parameters
RearMargin == 1          \* LEAD_VEHICLE_SEARCH_REAR_MARGIN
Abs(n) == IF n < 0 THEN -n ELSE n
Sign(n) == IF n < 0 THEN -1 ELSE IF n > 0 THEN 1 ELSE 0
Clamp(n, lo, hi) == Max({lo, Min({n, hi})})

-----------------------------------------------------------------------------
(* An agent's sampled future and its Frenet point on path p; the speed     *)
(* along the path is reversed or zero by the angle to it.  A slot nobody   *)
(* has filled yet is at (0, 0) on every path.                              *)
S(a, t) == a.x + a.dx * t
L(a, p, t) == IF a.blank THEN 0 ELSE a.y + a.dy * t - Base[p]
Along(a) == IF Abs(a.dy) > Abs(a.dx) THEN 0 ELSE a.dx

(* The lateral reach of an ego that is not parallel to its path.           *)
ProjRadius(h) == EgoWide + (IF Abs(h) = 2 THEN 1 ELSE 0)

NoGap == [dist |-> Far, v |-> 0]

(* FindLeadOrFollowVehicleCloseToEgoReferencePath: the gap to the nearest  *)
(* agent ahead of s, or behind it, that reaches into the ego's strip of    *)
(* path p around the offset off.                                           *)
CloseTo(fleet, out, ahead, p, t, s, off, wide) ==
  LET gap(i)  == Abs(S(fleet[i], t) - s) - fleet[i].long - EgoLong
      side(i) == IF ahead THEN S(fleet[i], t) >= s ELSE S(fleet[i], t) < s
      strip(i) == fleet[i].wide - Inset + (IF gap(i) < 0 THEN EgoWide ELSE wide)
      hits == {i \in DOMAIN fleet \ out :
                 side(i) /\ Abs(L(fleet[i], p, t) - off) <= strip(i)}
      near == Min({gap(i) : i \in hits})
  IN IF hits = {} THEN NoGap
     ELSE [dist |-> near, v |-> Along(fleet[Min({i \in hits : gap(i) = near})])]

(* FindLeadVehicleIntersectedBatch: look ahead along the path for the      *)
(* first time at which the ego could meet an indexed agent, and take the   *)
(* slowest of them; an agent must be ahead of the search's rear margin,    *)
(* which is subtracted twice.                                              *)
(* Fault: the last index is taken to exist.                                *)
InHorizonToo(t) == t <= Pred

InHorizon(t) == t < Pred

Intersected(fleet, indexed, out, p, t, s, v, off) ==
  LET reach == Max({v, Slow}) * LookTime
      at(k) == t + k * LookTime
      meets(i, k) ==
        /\ i \in indexed \ out
        /\ 2 * Abs(S(fleet[i], at(k)) - (s + k * reach)) <= reach + 2 * (EgoLong + fleet[i].long)
        /\ Abs(L(fleet[i], p, at(k)) - off) <= EgoWide + fleet[i].wide
        /\ Along(fleet[i]) <= MaxV
        /\ S(fleet[i], t) - (s - RearMargin) > -RearMargin
      met(k) == {i \in DOMAIN fleet : meets(i, k)}
      looks  == {k \in 1..LookSteps : InHorizon(at(k))}
      finds  == {k \in looks : met(k) # {}}
      slowest(k) == Min({Along(fleet[i]) : i \in met(k)})
      first(k)   == Min({i \in met(k) : Along(fleet[i]) = slowest(k)})
      stop  == IF finds = {} THEN looks ELSE {k \in looks : k <= Min(finds)}
  IN [read |-> IF stop = {} THEN t ELSE at(Max(stop)),
      gap  |-> IF finds = {} THEN [dist |-> Far, v |-> MaxV + 1]
               ELSE LET a == fleet[first(Min(finds))] IN
                    [dist |-> S(a, t) - (s - RearMargin) - a.long - EgoLong, v |-> Along(a)]]

-----------------------------------------------------------------------------
(* IDM: full braking on contact, a comfortable one inside the desired gap, *)
(* else towards the desired speed.                                         *)
DesiredGap(lead, v) == Max({0, v + v * (v - lead)}) + 1

IDM(lead, v, dist, desired) ==
  IF dist <= 0 THEN MaxDec
  ELSE IF dist < DesiredGap(lead, v) THEN ComfortDec
  ELSE IF v < desired THEN 1 ELSE IF v > desired THEN ComfortDec ELSE 0

(* calculateLateralMotionParams, simplified: how far the ego gets while it *)
(* moves d sideways; a slow ego is taken to speed up.                      *)
LateralSpeed(v) == IF v > Slow THEN 2 ELSE 1

ForwardShift(v, d) ==
  LET time == (d + LateralSpeed(v) - 1) \div LateralSpeed(v)
      nominal == Min({time, 2})
  IN Min({6, IF v < Slow THEN v * nominal + (nominal * nominal) \div 2 ELSE v * Min({time, 4})})

(* The time headway dist / (v - lead) of IEEE floats: infinite when the    *)
(* speeds are equal, negative when the gap opens or the boxes are level.   *)
NegativeHeadway(dist, closing) == dist * closing < 0 \/ (closing = 0 /\ dist < 0)
HeadwayAtLeast(dist, closing, time) ==
  IF closing = 0 THEN dist > 0 ELSE dist * Sign(closing) >= time * Abs(closing)

(* The lead on the current path leaves room to pull out: thresholds relax  *)
(* once the ego is on its way (under) and vanish once it is nearly over.   *)
LeadAllows(c, gap) ==
  LET closing == c.v - gap.v
      under  == c.turn * c.l >= 1 \/ c.turn * c.h >= 1
      turned == c.turn * c.h >= 2
      over   == turned \/ c.turn * c.l >= 2
      eased  == under \/ gap.v <= 0
      time   == IF over THEN 0 ELSE IF eased THEN 1 ELSE 2
      room   == IF turned THEN 0 ELSE IF c.v > Slow THEN 2 ELSE 1
      allows == \/ gap.dist > Free
                \/ NegativeHeadway(gap.dist, closing)
                \/ gap.dist >= room /\ HeadwayAtLeast(gap.dist, closing, time)
  IN [go |-> allows,
      lead |-> allows /\ IDM(gap.v, c.v, gap.dist, c.desired)
                           >= (IF eased THEN MaxDec + 1 ELSE ComfortDec)]

(* LCAllowanceCheckBatch for a lane that considers a change: the lead on   *)
(* its own path, the lead on the target path, and the follower there, who  *)
(* must not have to brake hard.  lead stays as the first test left it.     *)
LCAllowance(c, close, ahead, behind) ==
  LET own == LeadAllows(c, close)
      lead   == IDM(ahead.v, c.v, ahead.dist + ForwardShift(c.v, 3), c.desired) > ComfortDec
      follow == \/ IDM(c.v, behind.v, behind.dist + 1, behind.v) > ComfortDec
                \/ behind.v <= 0
  IN [go |-> own.go /\ lead /\ follow, lead |-> own.lead]

(* GetSteeringByStanleyBatch: towards the heading that reduces the lateral *)
(* error, at most one heading a step.                                      *)
Stanley(error, h) == Clamp(Clamp(error, -2, 2) - h, -1, 1)

(* UpdateStateBatch: the acceleration is held by the jerk limit, the ego   *)
(* neither backs up nor speeds past the top, and turns only if it moves.   *)
UpdateState(c, acc, steering) ==
  LET a == Clamp(acc, c.a - 1, c.a + 1)
      v == Clamp(c.v + a, 0, MaxV)
      h == IF v = 0 THEN c.h ELSE Clamp(c.h + steering, -2, 2)
  IN [c EXCEPT !.a = a, !.v = v, !.h = h, !.s = @ + v, !.y = IF v = 0 THEN @ ELSE @ + Sign(h)]
=============================================================================
