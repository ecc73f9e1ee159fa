CONSTANTS
  NumScenarios = 2
  NumActions = 2
  TreeHeight = 2
  MaxIters = 4
  Cells = {0, 1}
  States = {0, 1}
  InitStates = {0, 1}
  BlankState = 0
  Step <- CorridorStep
  Candidates <- CorridorCandidates
  MayFallBelow = TRUE
  ChunkCapacity = 4
  InitialChunks = 1
  MaxSlots = 18
  MaxRounds = 2
SPECIFICATION SafeSpec
CHECK_DEADLOCK FALSE
INVARIANTS
  TreeShape
  LaneIsolation
  CacheCurrent
  StatesFollowTransitions
