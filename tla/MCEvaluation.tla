---------------------------- MODULE MCEvaluation ----------------------------
(* CrossEvaluation for TLC: five offsets at two speeds, two scenarios, and   *)
(* fleets from none to six agents, so that a tree is reused empty, partly    *)
(* filled and in two subtrees.                                              *)
EXTENDS CrossEvaluation

MCOffsets == <<-4, -2, 0, 2, 4>>

East == <<13, 0>>
West == <<-13, 0>>
North == <<0, 13>>
Tilted == <<12, 5>>
Steep == <<5, 12>>

Mode(p, dx, dy) == [prob |-> p, step |-> <<dx, dy>>]
Agent(x, y, dir, modes) ==
  [x |-> x, y |-> y, dir |-> dir, wide |-> 1, long |-> 2, alias |-> 0, modes |-> modes]

Stands == <<Mode(10, 0, 0)>>
Ahead(x, y) == Agent(x, y, East, Stands)
Follower == Agent(-6, 0, East, <<Mode(7, 2, 0), Mode(3, 1, 0)>>)
Tailing == [Follower EXCEPT !.x = -5]
Beside(y) == Agent(0, y, East, <<Mode(6, 1, 0), Mode(4, 1, IF y > 0 THEN -1 ELSE 1)>>)
Crossing == Agent(5, -6, North, <<Mode(5, 0, 3), Mode(1, 0, 0), Mode(4, 0, 2)>>)
Oncoming == Agent(12, 2, West, <<Mode(2, -2, -1), Mode(2, -3, 0), Mode(1, 0, 0)>>)
Slanted == Agent(7, -2, Tilted, <<Mode(10, 1, 0)>>)
Leaning == Agent(2, 6, Steep, <<Mode(10, 0, -1)>>)
OnLoop == [Ahead(6, 0) EXCEPT !.alias = 40]

Frame(fleet, picks, v, change) ==
  [fleet |-> fleet, picks |-> picks, v |-> v, threshold |-> 3, noticed |-> <<>>,
   change |-> change, onRoute |-> TRUE, connector |-> FALSE, braking |-> FALSE, moves |-> TRUE,
   side |-> [left |-> "free", right |-> "none"]]

AllFrames == {
  Frame(<<>>, <<<<>>, <<>>>>, 0, "keep"),
  Frame(<<Ahead(7, 0), Follower>>, <<<<1, 1>>, <<1, 2>>>>, 2, "left"),
  Frame(<<Follower, Beside(4), Ahead(5, -4)>>, <<<<1, 2, 1>>, <<2, 1, 1>>>>, 1, "right"),
  [Frame(<<Crossing, Slanted, Oncoming, Leaning, Beside(-4)>>,
         <<<<1, 1, 1, 1, 2>>, <<3, 1, 1, 1, 1>>>>, 2, "keep")
     EXCEPT !.side = [left |-> "taken", right |-> "off route"], !.connector = TRUE,
            !.braking = TRUE],
  [Frame(<<Beside(4), Beside(-4), Ahead(8, 3), Slanted, Follower, Leaning>>,
         <<<<2, 1, 1, 1, 1, 1>>, <<1, 2, 1, 1, 2, 1>>>>, 1, "keep")
     EXCEPT !.onRoute = FALSE],
  Frame(<<Tailing, Crossing>>, <<<<1, 3>>, <<2, 1>>>>, 1, "keep"),
  [Frame(<<Ahead(12, 2), OnLoop>>, <<<<1, 1>>, <<1, 1>>>>, 2, "keep")
     EXCEPT !.noticed = <<1>>, !.side = [left |-> "off route", right |-> "taken"]],
  [Frame(<<Oncoming, Ahead(20, 0)>>, <<<<1, 1>>, <<1, 1>>>>, 0, "keep")
     EXCEPT !.threshold = 5, !.moves = FALSE]}
=============================================================================
