----------------------------- MODULE ForwardStep -----------------------------
(***************************************************************************)
(* VecQMDP_AD's half of the static search: sampleScenarios fills the       *)
(* buffers of a planning frame and expandNodesBatch grows one node of      *)
(* every scenario's tree at a time, with ContextQMDP::StepBatch moving all *)
(* scenarios together, one per SIMD lane.  Which nodes are grown is the    *)
(* search's choice and arbitrary here.  Rewards are written as costs.      *)
(***************************************************************************)
EXTENDS Motion, TLC

CONSTANTS
  NumScenarios, Slots,       \* lanes of a batch, MAX_SIM_VEHICLES
  Actions,                   \* sequence of [path, off]
  TreeHeight, StepTime,      \* TREE_HEIGHT, STEP_TIME_LEN
  Frames,                    \* the ego's start and the agents, per frame
  MissGoal, GoalAt,          \* miss_goal_penalty_ and goal_frenet_s_ of the paths
  Approaching,               \* approaching_terminal_point
  Margin,                    \* EGO_STRTREE_SAFETY_MARGIN
  Crash,                     \* CRASH_PENALTY
  MaxRounds, MaxCalls

VARIABLES
  frame,     \* the frame being planned, <<>> before the first one
  exo,       \* sampled agents, per scenario and slot
  indexed,   \* slots the STR-trees hold
  size,      \* exo_size_
  nodes,     \* the scenarios' trees: node index -> state and reward
  returns,   \* what the last call passed to backPropagate
  rounds, calls,
  missed, furthest   \* contacts no query found, last time index read (history)

vars == <<frame, exo, indexed, size, nodes, returns, rounds, calls, missed, furthest>>

(* The sizes of params.hpp; the tree reaches no further than the sampled   *)
(* futures of the agents.                                                  *)
ASSUME SizesAssumption ==
  /\ NumScenarios \in Nat \ {0} /\ StepTime \in Nat \ {0} /\ TreeHeight \in Nat
  /\ Pred \in Nat /\ LookTime \in Nat /\ LookSteps \in Nat
  /\ Actions \in Seq([path : DOMAIN Base, off : Int]) /\ Actions # <<>>
  /\ TreeHeight * StepTime < Pred

(* It ends where they end; a crash costs something; the ego of a frame     *)
(* drives on a path.                                                       *)
ASSUME ChargesAssumption ==
  /\ Pred = TreeHeight * StepTime + 1
  /\ Crash \in Int \ {0} /\ MissGoal \in [DOMAIN Base -> Int]
  /\ \A f \in Frames : f.v \in Int /\ f.path \in DOMAIN Base

Scenarios == 1..NumScenarios
N == Len(Actions)
SafeDiff == 1             \* SAFE_DIST_DIFF
Rear == 1                 \* REAR_TO_CENTER
GoalNear == 6             \* GOAL_DISTANCE_THRESHOLD

Child(n, a) == n * N + a
ParentOf(n) == (n - 1) \div N
ActionOf(n) == ((n - 1) % N) + 1
ActionsTo[n \in Nat] ==
  IF n = 0 THEN <<>> ELSE Append(ActionsTo[ParentOf(n)], ActionOf(n))
Depth(n) == Len(ActionsTo[n])

-----------------------------------------------------------------------------
(* StepBatch, one lane.  Entering a step, an ego within reach of its       *)
(* target path is on it.                                                   *)
Reached(c, y) ==
  c.path # c.tgt /\ (Abs(y - Base[c.tgt]) < 2 \/ Abs(y - Base[c.tgt] - c.toff) < 2)

SwitchIf(c, reached) ==
  LET path == IF reached THEN c.tgt ELSE c.path
  IN [c EXCEPT !.path = path, !.off = IF path = c.tgt THEN c.toff ELSE @]

Begin(c) ==
  LET b == IF c.active THEN SwitchIf(c, Reached(c, c.y)) ELSE c
  IN [b EXCEPT !.l = c.y - Base[b.path], !.end = c.t + StepTime]

(* What the lane follows, and whether it may leave its path for the        *)
(* target: edge offset, leads and follower, intersections, red light.      *)
Turn(c) == IF c.path = c.tgt THEN 0 ELSE IF c.path > c.tgt THEN 1 ELSE -1

EdgeOf(c) == CASE Turn(c) = 1 -> Max({c.off, EdgeOffset})
               [] Turn(c) = -1 -> Min({c.off, -EdgeOffset})
               [] OTHER -> c.off

Allowance(c, fleet) ==
  LET target(ahead) == CloseTo(fleet, c.out, ahead, c.tgt, c.t, c.s, 0, EgoWide)
      own == CloseTo(fleet, c.out, TRUE, c.path, c.t, c.s, c.off, ProjRadius(c.h))
      look == [v |-> c.v, h |-> c.h, l |-> c.l, turn |-> Turn(c), desired |-> Limit[c.path]]
  IN IF Turn(c) = 0 THEN [go |-> FALSE, lead |-> FALSE, own |-> own, ahead |-> NoGap]
     ELSE LCAllowance(look, own, target(TRUE), target(FALSE))
            @@ [own |-> own, ahead |-> target(TRUE)]

AtLight(c, gap) ==
  LET light == Light[c.path] - c.s - EgoLong
  IN IF gap.dist >= light /\ light >= -5 /\ light < Far \div 2
     THEN [dist |-> light, v |-> 0] ELSE gap

Cut(c, fleet, lc) ==
  IF lc.go THEN [read |-> c.t, gap |-> [dist |-> Far, v |-> MaxV + 1]]
  ELSE Intersected(fleet, indexed, c.out, c.path, c.t, c.s, c.v, c.off)

Follow(c, lc, cut) ==
  AtLight(c, IF lc.go \/ lc.lead THEN lc.ahead
             ELSE IF lc.own.dist < cut.gap.dist THEN lc.own ELSE cut.gap)

(* Acceleration, steering and the new state.                               *)
Command(c, lc, gap) ==
  LET to == IF lc.go THEN Base[c.tgt] + c.toff ELSE Base[c.path] + c.off
      steering == Stanley(to - c.y, c.h)
      acc == IDM(gap.v, c.v, gap.dist - SafeDiff, Limit[c.path])
  IN [UpdateState(c, acc, steering) EXCEPT !.t = @ + 1, !.steering = steering]

(* The path is switched on the way too, once the target is the nearer one. *)
(* The collision query's lateral coordinate is the distance to the path    *)
(* the lane was on, on the side of the path it is on now.                  *)
Switch(was, c) ==
  LET nearer == c.path # c.tgt /\ Abs(c.y - Base[c.path]) - Abs(c.y - Base[c.tgt]) > 0
      b == SwitchIf(c, nearer \/ Reached(c, c.y))
      side == IF c.y >= Base[b.path] THEN 1 ELSE -1
  IN [b EXCEPT !.l = IF size > 0 THEN Abs(c.y - Base[was.path]) * side ELSE c.y - Base[b.path]]

-----------------------------------------------------------------------------
(* HasCollisionBatch: of the agents the query finds and the branch has not *)
(* dismissed, one hit from behind is dismissed, any other is a crash.      *)
Found(c, fleet, margin) ==
  {i \in indexed : /\ Abs(S(fleet[i], c.t) - c.s) <= fleet[i].long + EgoLong + margin
                   /\ Abs(L(fleet[i], c.path, c.t) - c.l) <= fleet[i].wide + EgoWide + margin}

(* Fault: the query box is the ego's own.                                  *)
BareCandidates(c, fleet) == Found(c, fleet, 0)

Candidates(c, fleet) == Found(c, fleet, Margin)

Touching(c, fleet) ==
  {i \in indexed \ c.out :
     /\ Abs(S(fleet[i], c.t) - c.s) <= fleet[i].long + EgoLong
     /\ Abs(L(fleet[i], c.path, c.t) - (c.y - Base[c.path])) <= fleet[i].wide + EgoWide}

Behind(c, a) == c.s - Rear - S(a, c.t) >= Abs(L(a, c.path, c.t) - (c.y - Base[c.path]))

HasCollision(c, fleet) ==
  LET hits == Touching(c, fleet) \cap Candidates(c, fleet)
      fault == {i \in hits : ~Behind(c, fleet[i])}
  IN [crash |-> fault # {},
      dismissed |-> {i \in hits \ fault : \A j \in fault : i < j},
      missed |-> ~(Touching(c, fleet) \subseteq Candidates(c, fleet))]

Move(v) == MaxV - v
Goal(c) ==
  MissGoal[c.path] * (IF Approaching /\ frame.v > 0 THEN 2 ELSE 1)
                   * (IF Approaching /\ GoalAt[c.path] - c.s < GoalNear THEN 2 ELSE 1)
Steer(c) == IF Abs(c.steering) >= 1 /\ c.v > 0 THEN 1 ELSE 0

(* One time step of one lane, up to its charges, from what the lane comes  *)
(* to back to where it began.                                              *)
Struck(c, read, hit) ==
  [c |-> [c EXCEPT !.active = ~hit.crash, !.out = @ \union hit.dismissed],
   crash |-> IF hit.crash THEN Crash ELSE 0,
   move |-> Move(c.v), goal |-> Goal(c), steer |-> Steer(c),
   missed |-> hit.missed, read |-> Max({read, c.t})]

Moved(c, fleet, read) ==
  Struck(c, read, IF size > 0 THEN HasCollision(c, fleet)
                  ELSE [crash |-> FALSE, dismissed |-> {}, missed |-> FALSE])

Driven(c, fleet, lc, cut) ==
  Moved(Switch(c, Command(c, lc, Follow(c, lc, cut))), fleet, cut.read)

Allowed(c, fleet, lc) == Driven(c, fleet, lc, Cut(c, fleet, lc))

Edged(c, fleet) == Allowed(c, fleet, Allowance(c, fleet))

Advance(c, fleet) == Edged([c EXCEPT !.off = EdgeOf(c)], fleet)

(* Update of the penalties: a lane that crashed is charged for the rest of *)
(* the step at once, and in rollout_rewards for the rest of the horizon.   *)
Rest(m) == m.crash + m.steer + m.goal + Move(0)

(* Fault: the step the lane crashed in is charged once more.               *)
ChargeTwice(c, m) ==
  LET rest == IF m.crash = 0 THEN 0 ELSE Rest(m) IN
  [m.c EXCEPT !.cost = c.cost + m.crash + m.move + m.goal + m.steer + rest * (c.end - c.t),
              !.later = c.later + rest * (Pred - 1 - c.end),
              !.missed = c.missed \/ m.missed, !.read = Max({c.read, m.read})]

Charge(c, m) ==
  LET rest == IF m.crash = 0 THEN 0 ELSE Rest(m) IN
  [m.c EXCEPT !.cost = c.cost + m.crash + m.move + m.goal + m.steer + rest * (c.end - m.c.t),
              !.later = c.later + rest * (Pred - 1 - c.end),
              !.missed = c.missed \/ m.missed, !.read = Max({c.read, m.read})]

(* An inactive lane's time index advances with the others'; its position,  *)
(* which nothing reads, is not tracked.                                    *)
SubStep(s, c) == IF c.active THEN Charge(c, Advance(c, exo[s])) ELSE [c EXCEPT !.t = @ + 1]

(* A value per scenario, as a sequence.                                    *)
Each(f) ==
  LET upto[k \in 0..NumScenarios] == IF k = 0 THEN <<>> ELSE Append(upto[k - 1], f[k])
  IN upto[NumScenarios]

AnyRunning(lanes) == \E s \in Scenarios : lanes[s].active

(* Whether the loop over the time steps goes on.                           *)
GoesOn(lanes) == AnyRunning(lanes)

SubSteps(lanes) ==
  IF GoesOn(lanes) THEN Each([s \in Scenarios |-> SubStep(s, lanes[s])]) ELSE lanes

StepBatch(lanes) ==
  LET after[k \in 0..StepTime] ==
        IF k = 0 THEN Each([s \in Scenarios |-> Begin(lanes[s])]) ELSE SubSteps(after[k - 1])
  IN IF ~AnyRunning(lanes) \/ \A s \in Scenarios : lanes[s].t + StepTime >= Pred
     THEN lanes ELSE after[StepTime]

-----------------------------------------------------------------------------
(* sampleScenarios.  Nobody has filled the buffers before the first frame. *)
Blank == [x |-> 0, y |-> 0, dx |-> 0, dy |-> 0, long |-> 0, wide |-> 0, blank |-> TRUE]

Sampled(a, mode) ==
  [x |-> a.x, y |-> a.y, dx |-> a.modes[mode][1], dy |-> a.modes[mode][2],
   long |-> a.long, wide |-> a.wide, blank |-> FALSE]

RootOf(f, out) ==
  [s |-> f.s, y |-> f.y, h |-> f.h, v |-> f.v, a |-> 0, path |-> f.path, off |-> 0,
   active |-> TRUE, out |-> out, cost |-> 0]

OnlyRoot(node) == [n \in {0} |-> node]

WithNode(tree, n, node) ==
  [m \in DOMAIN tree \union {n} |-> IF m = n THEN node ELSE tree[m]]

Init ==
  /\ frame = <<>> /\ size = 0 /\ indexed = {}
  /\ exo = [s \in Scenarios |-> [i \in 1..Slots |-> Blank]]
  /\ nodes = [s \in Scenarios |-> OnlyRoot([out |-> {}])]
  /\ returns = {} /\ rounds = 0 /\ calls = 0
  /\ missed = FALSE /\ furthest = 0

(* The roots get the ego's state, but not its acceleration; the agents'    *)
(* buffers, indexes and root flags are written only if there are agents.   *)
sampleScenarios ==
  /\ rounds < MaxRounds
  /\ \E f \in Frames :
       LET n == Len(f.fleet) IN
       /\ frame' = f /\ size' = n
       /\ \E picks \in [Scenarios \X (1..n) -> 1..2] :
            /\ \A s \in Scenarios, i \in 1..n : picks[<<s, i>>] <= Len(f.fleet[i].modes)
            /\ exo' = [s \in Scenarios |-> [i \in 1..Slots |->
                         IF i <= n THEN Sampled(f.fleet[i], picks[<<s, i>>]) ELSE exo[s][i]]]
       /\ indexed' = IF n = 0 THEN indexed ELSE 1..n
       /\ nodes' = [s \in Scenarios |->
                      OnlyRoot(RootOf(f, IF n = 0 THEN nodes[s][0].out ELSE n + 1..Slots))]
  /\ returns' = {} /\ rounds' = rounds + 1 /\ calls' = 0
  /\ UNCHANGED <<missed, furthest>>

-----------------------------------------------------------------------------
(* expandNodesBatch for the nodes and actions the search picked.           *)
Aim(node, t, action, active) ==
  [s |-> node.s, y |-> node.y, h |-> node.h, v |-> node.v, a |-> node.a, path |-> node.path,
   off |-> node.off, out |-> node.out, active |-> active, t |-> t, end |-> t, l |-> 0,
   tgt |-> Actions[action].path, toff |-> Actions[action].off, steering |-> 0,
   cost |-> 0, later |-> 0, missed |-> FALSE, read |-> 0]

MayStep(node, n) == node.active /\ Depth(n) < TreeHeight

Gather(picks) ==
  Each([s \in Scenarios |->
    LET n == picks[s][1] IN
    Aim(nodes[s][n], Depth(n) * StepTime, picks[s][2], MayStep(nodes[s][n], n))])

AsNode(c) ==
  [s |-> c.s, y |-> c.y, h |-> c.h, v |-> c.v, a |-> c.a, path |-> c.path, off |-> c.off,
   active |-> c.active, out |-> c.out, cost |-> c.cost]

(* The rollout with the same actions: a turn per remaining layer of the    *)
(* lane that has most of them, without the lanes that have none left.      *)
RolloutLen(n) == TreeHeight - Depth(n) - 1

Begun(picks, stepped) ==
  Each([s \in Scenarios |->
    [stepped[s] EXCEPT !.cost = 0, !.later = 0,
                       !.active = @ /\ Depth(picks[s][1]) < TreeHeight]])

Layer(picks, lanes, k) ==
  Each([s \in Scenarios |->
    [lanes[s] EXCEPT !.active = @ /\ k <= RolloutLen(picks[s][1])]])

Rollout(picks, stepped) ==
  LET after[k \in 0..TreeHeight] ==
        IF k = 0 THEN Begun(picks, stepped) ELSE StepBatch(Layer(picks, after[k - 1], k))
  IN after[TreeHeight]

(* Fault: the children are written with what the rollouts dismissed.       *)
LateChild(stepped, rolled) == [AsNode(stepped) EXCEPT !.out = rolled.out]

WrittenChild(stepped, rolled) == AsNode(stepped)

(* Nothing lies below the last layer: the node itself is backed up.        *)
Return(s, pick, stepped, rolled) ==
  LET n == pick[1] IN
  IF Depth(n) = TreeHeight
  THEN [scenario |-> s, node |-> n, value |-> stepped.cost + stepped.later]
  ELSE [scenario |-> s, node |-> Child(n, pick[2]),
        value |-> IF stepped.active THEN rolled.cost + rolled.later ELSE stepped.later]

(* What the search may pick: an unvisited child, or a leaf again.          *)
Picks(s) ==
  {p \in (DOMAIN nodes[s]) \X (1..N) :
     \/ Depth(p[1]) < TreeHeight /\ Child(p[1], p[2]) \notin DOMAIN nodes[s]
     \/ Depth(p[1]) = TreeHeight /\ p[2] = ActionOf(p[1])}

expandNodesBatch ==
  /\ rounds > 0 /\ calls < MaxCalls
  /\ \E picks \in {f \in [Scenarios -> UNION {Picks(s) : s \in Scenarios}] :
                    \A s \in Scenarios : f[s] \in Picks(s)} :
     \E stepped \in {StepBatch(Gather(picks))} :
     \E rolled \in {Rollout(picks, stepped)} :
       /\ nodes' = [s \in Scenarios |->
             IF Depth(picks[s][1]) = TreeHeight THEN nodes[s]
             ELSE WithNode(nodes[s], Child(picks[s][1], picks[s][2]),
                           WrittenChild(stepped[s], rolled[s]))]
       /\ returns' = {Return(s, picks[s], stepped[s], rolled[s]) : s \in Scenarios}
       /\ missed' = (missed \/ \E s \in Scenarios : rolled[s].missed)
       /\ furthest' = Max({furthest} \union {rolled[s].read : s \in Scenarios})
  /\ calls' = calls + 1
  /\ UNCHANGED <<frame, exo, indexed, size, rounds>>

Next == sampleScenarios \/ expandNodesBatch

Spec == Init /\ [][Next]_vars

-----------------------------------------------------------------------------
(* The reference: one scenario simulated on its own, from the root to the  *)
(* end of the horizon, a time step at a time; the last action goes on when *)
(* there is no further one, and what a crash cost in its step is charged   *)
(* again in every step after it.                                           *)
AloneStart(s, actions) ==
  [c |-> Aim(nodes[s][0], 0, actions[1], TRUE), total |-> 0, rest |-> 0]

Aimed(c, actions, k) ==
  LET act == Actions[actions[Min({k \div StepTime + 1, Len(actions)})]]
  IN IF k % StepTime = 0 THEN Begin([c EXCEPT !.tgt = act.path, !.toff = act.off]) ELSE c

Charged(r, m) ==
  [c |-> m.c, total |-> r.total + m.crash + m.move + m.goal + m.steer, rest |-> Rest(m)]

AloneStep(s, actions, r, k) ==
  IF r.c.active THEN Charged(r, Advance(Aimed(r.c, actions, k), exo[s]))
  ELSE [r EXCEPT !.total = @ + r.rest]

Alone(s, actions) ==
  LET after[k \in 0..Pred - 1] ==
        IF k = 0 THEN AloneStart(s, actions) ELSE AloneStep(s, actions, after[k - 1], k - 1)
  IN after

CostTo(s, n) ==
  LET cost[k \in 0..n] == IF k = 0 THEN 0 ELSE nodes[s][k].cost + cost[ParentOf(k)]
  IN cost[n]

CrashedAbove(s, n) == n # 0 /\ ~nodes[s][ParentOf(n)].active

(* A return that is backed up and the rewards on the way to its node are,  *)
(* together, what the scenario alone would be charged over the horizon:    *)
(* neither the other lanes, nor the cut of the horizon into steps and a    *)
(* rollout, nor the charge in advance after a crash makes a difference     *)
(* (StepBatch and expandNodesBatch).  Below a crash nothing is charged.    *)
ReturnsMatchScalar ==
  \A r \in returns :
    LET path == Alone(r.scenario, ActionsTo[r.node]) IN
    (r.node # 0 /\ ~CrashedAbove(r.scenario, r.node)
       /\ (nodes[r.scenario][r.node].active \/ Depth(r.node) < TreeHeight)) =>
      CostTo(r.scenario, r.node) + r.value = path[Pred - 1].total

(* A node that can be grown holds the state, the lane and the dismissed    *)
(* agents that its own actions lead to, whatever was simulated on other    *)
(* branches and in the rollouts (the copies made in expandNodesBatch).     *)
BranchesIndependent ==
  \A s \in Scenarios : \A n \in (DOMAIN nodes[s]) \ {0} :
    nodes[s][n].active =>
      LET c == Alone(s, ActionsTo[n])[Depth(n) * StepTime].c IN
      AsNode([c EXCEPT !.cost = nodes[s][n].cost]) = nodes[s][n]

(* Although a lane that just changed paths is looked for with the distance *)
(* to the old one, the margin of the query covers every contact (StepBatch *)
(* before HasCollisionBatch).                                              *)
NoContactMissed == ~missed

(* No active lane reads an agent's future past its end: neither the time   *)
(* index of a lane nor the look-ahead leaves the sampled horizon.          *)
WithinHorizon == furthest < Pred

(* resetDataStructures' promise that the buffers are overwritten in each   *)
(* round: the lead vehicle of a root, on whatever path, is no agent that an *)
(* earlier frame sampled.  (A slot that nobody has filled is not counted.) *)
LeftBehind(s) == {i \in 1..Slots : i > size /\ ~exo[s][i].blank}

OverwrittenEachRound ==
  frame # <<>> =>
    \A s \in Scenarios, p \in DOMAIN Base :
      LET root == nodes[s][0]
          lead(out) == CloseTo(exo[s], out, TRUE, p, 0, root.s, 0, EgoWide)
      IN  lead(root.out) = lead(root.out \union LeftBehind(s))
=============================================================================
