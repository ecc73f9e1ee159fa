----------------------------- MODULE MCProposals -----------------------------
(* ProposalSteps for TLC: two lanes of traffic 3.5 m apart, half a metre to  *)
(* the unit sideways; a change to the left, to the right, and none.          *)
EXTENDS ProposalSteps

MCBase == [p \in 0..1 |-> 7 - 7 * p]
MCLimit == [p \in 0..1 |-> 2 - p]
MCLight == [p \in 0..1 |-> IF p = 1 THEN 12 ELSE Far]
MCHardBrake == -3
MCRows == <<[off |-> 0, look |-> 0], [off |-> 2, look |-> 1]>>

Agent(x, y, dx, dy) ==
  [x |-> x, y |-> y, dx |-> dx, dy |-> dy, long |-> 1, wide |-> 1, blank |-> FALSE]

Call(init, target, s, v, y, h, futures) ==
  [init |-> init, target |-> target, second |-> init, keep |-> FALSE,
   ego |-> [s |-> s, y |-> y, h |-> h, v |-> v, a |-> 0], futures |-> futures]

Empty == <<<<>>, <<>>>>
LeadOrNot == <<<<Agent(5, 0, 0, 0)>>, <<>>>>
Chased == <<<<Agent(-3, 7, 2, 0)>>, <<Agent(-6, 7, 1, 0)>>>>
CutIn == <<<<Agent(7, 7, 1, -1)>>, <<Agent(7, 7, 1, 0)>>>>

Left == {Call(1, 0, s, v, y, h, f) : s \in 0..1, v \in 0..2, y \in {0, 1, 3, 5, 6},
                                     h \in 0..2, f \in {Empty, LeadOrNot, Chased, CutIn}}
Right == {Call(0, 1, 0, v, y, -1, f) : v \in 1..2, y \in {7, 5, 2}, f \in {LeadOrNot, CutIn}}

(* Lanes followed from the start, and one that is kept because the way     *)
(* ahead on it is as good.                                                 *)
MCCalls ==
  Left \cup Right
  \cup {Call(1, 1, 1, 2, 1, 0, LeadOrNot),
        [Call(1, 0, 0, 0, 1, 0, CutIn) EXCEPT !.keep = TRUE]}
=============================================================================
