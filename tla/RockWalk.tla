------------------------------ MODULE RockWalk ------------------------------
(***************************************************************************)
(* One scenario of Rock Sample walked through by stepBatch, as the search  *)
(* walks it along a branch of the tree: the state, whether it is active,   *)
(* and what the branch has collected, in tenths of the code's rewards.     *)
(***************************************************************************)
EXTENDS RockSample, FiniteSets

VARIABLES
  robot,    \* robot_pos_flat_ and rock_bits_flat_ of the node
  alive,    \* its active_flag
  harvest,  \* good samples along the branch (history)
  sampled   \* rocks whose cell was sampled along the branch (history)

walkVars == <<robot, alive, harvest, sampled>>

WalkInit ==
  /\ robot \in RockStates
  /\ alive = TRUE
  /\ harvest = 0
  /\ sampled = {}

(* A child is expanded from an active parent only; the tree is Size * Size *)
(* samples deep at most, which bounds harvest if nothing is counted twice. *)
Expand(a) ==
  LET out == StepBatch(robot, a) IN
  /\ alive
  /\ robot' = [pos |-> out.pos, good |-> out.good]
  /\ alive' = out.active
  /\ harvest' = IF a = Sample /\ out.reward > 0 THEN harvest + 1 ELSE harvest
  /\ sampled' = IF a = Sample THEN sampled \union RocksIn(robot.pos) ELSE sampled

WalkNext == \E a \in 0..5 : Expand(a)

WalkSpec == WalkInit /\ [][WalkNext]_walkVars

(* The SIMD transition leaves the grid, moves, spoils rocks and terminates *)
(* exactly where the scalar one does.                                      *)
BatchMatchesScalar ==
  robot \in RockStates /\
  \A a \in 0..5 :
    LET b == StepBatch(robot, a)   c == ApplyAction(robot, a) IN
    b.pos = c.pos /\ b.good = c.good /\ b.active = c.active

(* A rock pays once: along a branch the good samples are the sampled rocks *)
(* that were good at the start, and a sampled rock is never good again.    *)
RockPaysOnce ==
  /\ harvest <= Cardinality(sampled)
  /\ sampled \intersect robot.good = {}

(* A comment of expandNodesBatch: "Sense actions have zero immediate       *)
(* reward in the tree"; the scalar version gives none.                     *)
RewardsMatchScalar ==
  \A a \in 0..5 : StepBatch(robot, a).reward = ApplyAction(robot, a).reward
=============================================================================
