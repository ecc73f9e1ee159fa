SPECIFICATION Spec
CONSTANTS
  Base <- MCBase
  Limit <- MCLimit
  Light <- MCLight
  Pred = 5
  LookSteps = 2
  LookTime = 2
  EgoWide = 2
  EgoLong = 1
  Inset = 1
  EdgeOffset = 1
  Free = 8
  NumScenarios = 2
  Slots = 2
  Actions <- MCActions
  TreeHeight = 2
  StepTime = 2
  Frames <- MCFrames
  MissGoal <- MCMissGoal
  GoalAt <- MCGoalAt
  Approaching = TRUE
  Margin = 2
  Crash = 20
  MaxRounds = 1
  MaxCalls = 3
INVARIANTS ReturnsMatchScalar BranchesIndependent NoContactMissed WithinHorizon
CHECK_DEADLOCK FALSE
