---------------------------- MODULE MCDynSearch ----------------------------
(* DynSearch for TLC on a corridor: a domain with three of RockSample's     *)
(* actions in one row of cells.  Moving on (0) leaves by the last cell,     *)
(* moving aside (1) is punished below the pruning threshold, sensing (2)    *)
(* changes nothing and is a candidate at the root only.                     *)
EXTENDS DynSearch

CONSTANT Cells

CorridorStep ==
  [x \in Cells \X Actions |->
     [state  |-> IF x[2] = 0 /\ x[1] + 1 \in Cells THEN x[1] + 1 ELSE x[1],
      active |-> ~(x[2] = 0 /\ x[1] + 1 \notin Cells),
      bad    |-> x[2] = 1]]

CorridorCandidates ==
  [d \in 0..(TreeHeight + 1) |->
     SelectSeq(IF d = 0 THEN <<2, 0, 1>> ELSE <<0, 1>>, LAMBDA a : a \in Actions)]
=============================================================================
