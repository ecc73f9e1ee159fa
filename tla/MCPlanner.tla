----------------------------- MODULE MCPlanner ------------------------------
(* PlannerFrame for TLC: three parallel lanes that merge, diverge and leave  *)
(* at a junction, a roundabout, and routes through them.                    *)
EXTENDS PlannerFrame

RoadLanes == {"A1", "A2", "A3", "B1", "B2", "D1", "R1", "R2", "R3", "E1"}
RoadConnectors ==
  {"k11", "k21", "k22", "k23", "k32", "b1e", "b2r", "r12", "r23", "r31", "r2e"}
AllEdges == RoadLanes \union RoadConnectors

RoadSucc == [e \in AllEdges |->
  CASE e = "A1" -> <<"k11">>         [] e = "A2" -> <<"k21", "k22", "k23">>
    [] e = "A3" -> <<"k32">>         [] e = "B1" -> <<"b1e">>
    [] e = "B2" -> <<"b2r">>         [] e \in {"k11", "k21"} -> <<"B1">>
    [] e \in {"k22", "k32"} -> <<"B2">> [] e = "k23" -> <<"D1">>
    [] e \in {"b1e", "r2e"} -> <<"E1">> [] e \in {"b2r", "r31"} -> <<"R1">>
    [] e = "R1" -> <<"r12">>         [] e = "r12" -> <<"R2">>
    [] e = "R2" -> <<"r2e", "r23">>  [] e = "r23" -> <<"R3">>
    [] e = "R3" -> <<"r31">>         [] OTHER -> <<>>]

RoadPred == [e \in AllEdges |->
  SetToSeq({f \in AllEdges : e \in ToSet(RoadSucc[f])})]

RoadLeft  == [e \in AllEdges |->
  CASE e = "A2" -> "A1" [] e = "A3" -> "A2" [] e = "B2" -> "B1" [] OTHER -> NoEdge]
RoadRight == [e \in AllEdges |->
  CASE e = "A1" -> "A2" [] e = "A2" -> "A3" [] e = "B1" -> "B2" [] OTHER -> NoEdge]

RoadMiss == [e \in AllEdges |-> IF e \in {"A1", "B1"} THEN 1 ELSE 0]
RoadPoints == [e \in AllEdges |->
  CASE e \in {"A1", "A2", "A3"} -> 6 [] e \in {"B1", "B2"} -> 5 [] e = "E1" -> 4
    [] e \in {"R1", "R2", "R3"} -> 3 [] e \in {"r12", "r23", "r31"} -> 1 [] OTHER -> 2]

Entry == {"A1", "A2", "A3"}
Cross == {"k11", "k21", "k22", "k32"}
Middle == {"B1", "B2"}
Blocks == {Entry, Cross, Middle} \union {{e} : e \in AllEdges \ (Entry \union Cross \union Middle)}

Drives == {
  [blocks |-> <<Entry, Cross, Middle, {"b2r"}, {"R1"}, {"r12"}, {"R2"}, {"r2e"}, {"E1"}>>,
   goals |-> {}],
  [blocks |-> <<Entry, Cross, Middle, {"b1e"}, {"E1"}>>, goals |-> {"E1"}],
  [blocks |-> <<Entry, {"k23"}, {"D1"}>>, goals |-> {"D1"}]}

Places == {<<e>> : e \in AllEdges} \union
  {<<"k21", "k22">>, <<"k11", "k21">>, <<"k22", "k32">>, <<"r2e", "r23">>, <<>>}
DriveRoutes == {UNION Range(d.blocks) : d \in Drives}

Beginnings == {<<"A1">>, <<"A2">>, <<"k21", "k22">>, <<"R1">>}

\* Along the road, to a neighbour, or between the connectors of a junction.
Reach(e) == {e} \union ToSet(RoadSucc[e]) \union ({RoadLeft[e], RoadRight[e]} \ {NoEdge})
Drive == [s \in Places |->
  IF s = <<>> THEN {<<"A3">>}
  ELSE {t \in Places : ToSet(t) \intersect UNION {Reach(e) : e \in ToSet(s)} # {}}
         \union (IF s = <<"A3">> THEN {<<>>} ELSE {})]
=============================================================================
