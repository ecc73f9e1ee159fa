------------------------------ MODULE MCForward ------------------------------
(* ForwardStep for TLC: two lanes of traffic 3.5 m apart, half a metre to    *)
(* the unit sideways, and agents ahead, beside, behind and cutting in.       *)
EXTENDS ForwardStep

MCBase == [p \in 0..1 |-> 7 - 7 * p]
MCLimit == [p \in 0..1 |-> 2]
MCMissGoal == [p \in 0..1 |-> p]
MCGoalAt == [p \in 0..1 |-> 9]
MCLight == [p \in 0..1 |-> IF p = 1 THEN 10 ELSE Far]

MCActions == <<[path |-> 1, off |-> 0], [path |-> 0, off |-> -2]>>

Ego(v, y, path, fleet) == [s |-> 0, y |-> y, h |-> 0, v |-> v, path |-> path, fleet |-> fleet]
Agent(x, y, modes) == [x |-> x, y |-> y, long |-> 1, wide |-> 1, modes |-> modes]

Parked(x, y) == Agent(x, y, <<<<0, 0>>>>)
CutsIn == Agent(3, 7, <<<<1, -1>>, <<1, 0>>>>)
Chaser == Agent(-4, 0, <<<<2, 0>>>>)
Swerves == Agent(1, 5, <<<<1, -2>>, <<2, 0>>>>)

MCFrames == {
  Ego(1, 0, 1, <<>>),
  Ego(2, 0, 1, <<Parked(6, 0), Chaser>>),
  Ego(1, 3, 1, <<CutsIn, Chaser>>),
  Ego(2, 2, 1, <<Swerves>>),
  [Ego(2, 3, 1, <<Parked(2, 7)>>) EXCEPT !.h = 2],
  Ego(1, 4, 0, <<Parked(4, 8), Agent(8, 0, <<<<-2, 0>>, <<0, 1>>>>)>>)}
=============================================================================
