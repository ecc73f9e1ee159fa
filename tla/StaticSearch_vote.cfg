CONSTANTS
  NumScenarios = 2
  NumActions = 2
  TreeHeight = 3
  MaxIters = 7
  MaxRounds = 2
  RootActions = {0, 1}
  Transitions <- PathTransitions
  Step <- PathStep
  GapDominates = TRUE
SPECIFICATION Spec
CHECK_DEADLOCK FALSE
INVARIANTS
  IntervalExact
  NoReexpansion
  CandidatesCurrent
PROPERTIES
  VoteIsMajority
  SearchEnds
