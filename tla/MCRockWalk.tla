----------------------------- MODULE MCRockWalk -----------------------------
(* RockWalk for TLC: three rocks, in a corner, in the middle of the east    *)
(* edge and inside, on a grid of three by three.                            *)
EXTENDS RockWalk

ThreeRocks == [r \in {"r0", "r1", "r2"} |->
                 CASE r = "r0" -> 0 [] r = "r1" -> 5 [] OTHER -> 4]
=============================================================================
