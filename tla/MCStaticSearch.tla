--------------------------- MODULE MCStaticSearch ---------------------------
(* StaticSearch for TLC: two or three reference paths side by side and one   *)
(* lateral offset, so an action is a path.  Scenarios differ in what traffic lets   *)
(* the ego do, as sampled agent trajectories make them differ.              *)
EXTENDS StaticSearch

\* Paths that touch, the present one first; without the third if there is none.
PathTransitions == [a \in Actions |->
  SelectSeq(CASE a = 0 -> <<0, 1>> [] a = 1 -> <<1, 0, 2>> [] OTHER -> <<2, 1>>,
            LAMBDA b : b \in Actions)]

\* Scenario 0: every switch is completed.  Scenario 1: none is, and moving
\* towards the last path collides.  Scenario 2: path 1 is blocked.
PathStep == [x \in Scenarios \X Actions \X Actions |->
  LET s == x[1]  here == x[2]  a == x[3] IN
  CASE s = 0 -> [at |-> a, active |-> TRUE]
    [] s = 1 -> [at |-> here, active |-> ~(a = NumActions - 1 /\ here # a)]
    [] OTHER -> [at |-> a, active |-> a # 1]]
=============================================================================
