CONSTANTS
  NumScenarios = 1
  NumActions = 3
  TreeHeight = 2
  MaxIters = 10
  Cells = {0, 1}
  States = {0, 1}
  InitStates = {0, 1}
  BlankState = 0
  Step <- CorridorStep
  Candidates <- CorridorCandidates
  MayFallBelow = FALSE
  ChunkCapacity = 4
  InitialChunks = 1
  MaxSlots = 31
  MaxRounds = 1
SPECIFICATION Spec
CHECK_DEADLOCK FALSE
INVARIANTS
  VisitAccounting
  TerminalChildrenUnvisited
PROPERTIES
  SearchEnds
