----------------------------- MODULE RockSample -----------------------------
(***************************************************************************)
(* The Rock Sample domain of the dynamic search: the transition function   *)
(* twice, as the code has it twice (stepBatch, one lane of the SIMD        *)
(* version, and the scalar applyAction), and the candidate lists of        *)
(* computeNodeCandidateActionsDyn.  A state is a robot cell and the set of *)
(* rocks that are good.  Rewards are in tenths.                            *)
(***************************************************************************)
EXTENDS Integers, Sequences

CONSTANTS
  Size,          \* size_: the grid is Size by Size cells
  RockCell       \* rock_pos_: the cell of each rock

Cells == 0..(Size * Size - 1)
Rocks == DOMAIN RockCell

ASSUME GridAssumption ==
  /\ Size \in Nat \ {0}
  /\ RockCell \in [Rocks -> Cells]
  /\ \A r, q \in Rocks : RockCell[r] = RockCell[q] => r = q

RockStates == [pos : Cells, good : SUBSET Rocks]

BlankRock == [pos |-> 0, good |-> {}]

North == 0   East == 1   South == 2   West == 3   Sample == 4   Sense == 5

PrunedThreshold == -500

RocksIn(cell) == {r \in Rocks : RockCell[r] = cell}

(* Faults: the lower borders are forgotten; a sampled rock stays good.     *)
BeyondTop(x, y)  == x >= Size \/ y >= Size
Unspoilt(good, here) == good

OffGrid(x, y)    == x \notin 0..(Size - 1) \/ y \notin 0..(Size - 1)
Sampled(good, here)  == good \ here   \* rocks & ~(1 << rock)

(* What a transition yields: out_pos, out_rocks, out_active, out_reward.   *)
Yield(p, g, active, r) ==
  [pos |-> p, good |-> g, active |-> active, reward |-> r]

(* action_dx_ and action_dy_.                                              *)
Dx == [a \in 0..5 |-> IF a = East THEN 1 ELSE IF a = West THEN -1 ELSE 0]
Dy == [a \in 0..5 |-> IF a = North THEN 1 ELSE IF a = South THEN -1 ELSE 0]

SampleReward(s) ==
  IF RocksIn(s.pos) = {} THEN -1000
  ELSE IF RocksIn(s.pos) \intersect s.good # {} THEN 100 ELSE -100

(* stepBatch computes every quantity for every lane and then selects; the  *)
(* last select wins, and the candidate position is formed before it is     *)
(* known to lie on the grid.                                               *)
StepBatch(s, a) ==
  LET nx == (s.pos % Size) + Dx[a]
      ny == (s.pos \div Size) + Dy[a]
      exit == a = East /\ nx >= Size
      off  == a < Sample /\ ~exit /\ OffGrid(nx, ny)
  IN Yield(IF a < Sample /\ ~exit /\ ~off THEN ny * Size + nx ELSE s.pos,
             IF a = Sample THEN Sampled(s.good, RocksIn(s.pos)) ELSE s.good,
             ~exit,
             IF a = Sample THEN SampleReward(s) ELSE IF exit THEN 100
             ELSE IF off THEN -1000 ELSE IF a = Sense THEN -1 ELSE 0)

(* applyAction: one entry per action, sensing last.                        *)
ApplyAction(s, a) ==
  LET x == s.pos % Size
      y == s.pos \div Size
      stay(active, r) == Yield(s.pos, s.good, active, r)
      go(cell) == Yield(cell, s.good, TRUE, 0)
      north  == IF y + 1 < Size THEN go((y + 1) * Size + x) ELSE stay(TRUE, -1000)
      east   == IF x + 1 < Size THEN go(y * Size + (x + 1)) ELSE stay(FALSE, 100)
      south  == IF y - 1 >= 0 THEN go((y - 1) * Size + x) ELSE stay(TRUE, -1000)
      west   == IF x - 1 >= 0 THEN go(y * Size + (x - 1)) ELSE stay(TRUE, -1000)
      sample == Yield(s.pos, s.good \ RocksIn(s.pos), TRUE,
                        IF RocksIn(s.pos) = {} THEN -1000
                        ELSE IF RocksIn(s.pos) \subseteq s.good THEN 100 ELSE -100)
  IN <<north, east, south, west, sample, stay(TRUE, 0)>>[a + 1]

(* What the tree search keeps of a step: the next state, whether the child *)
(* is active, whether its reward alone is below the pruning threshold.     *)
StepTable ==
  [x \in RockStates \X (0..5) |->
     LET out == StepBatch(x[1], x[2])
     IN [state  |-> [pos |-> out.pos, good |-> out.good],
         active |-> out.active,
         bad    |-> out.reward < PrunedThreshold]]

CandidateTable(height) ==
  [d \in 0..(height + 1) |->
     IF d = 0 THEN <<Sense, North, East, South, West, Sample>>
              ELSE <<North, East, South, West, Sample>>]
=============================================================================
