---------------------------- MODULE MCRockSample ----------------------------
(* DynSearch for TLC on the Rock Sample domain itself: its six actions, its *)
(* transition function and its candidate lists, on a Size by Size grid.    *)
EXTENDS DynSearch

CONSTANTS Size, RockCell

Domain == INSTANCE RockSample

\* One rock, in the corner where the robot starts.
RockAtStart == [r \in {"r0"} |-> 0]

AllStates      == Domain!RockStates
FirstState     == Domain!BlankRock
RockStep       == Domain!StepTable
RockCandidates == Domain!CandidateTable(TreeHeight)

\* Particles of one belief: the robot's cell is known, the rock's value not.
RockParticles == {s \in AllStates : s.pos = 0}
=============================================================================
