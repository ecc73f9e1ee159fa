CONSTANTS
  Size = 2
  RockCell <- RockAtStart
  NumScenarios = 1
  NumActions = 6
  TreeHeight = 2
  MaxIters = 13
  States <- AllStates
  InitStates <- RockParticles
  BlankState <- FirstState
  Step <- RockStep
  Candidates <- RockCandidates
  MayFallBelow = FALSE
  ChunkCapacity = 16
  InitialChunks = 1
  MaxSlots = 79
  MaxRounds = 1
SPECIFICATION Spec
CHECK_DEADLOCK FALSE
PROPERTIES
  PruneBumpsRoot
