SPECIFICATION Spec
CONSTANTS
  Base <- MCBase
  Limit <- MCLimit
  Light <- MCLight
  Pred = 7
  LookSteps = 2
  LookTime = 2
  EgoWide = 2
  EgoLong = 1
  Inset = 1
  EdgeOffset = 1
  Free = 8
  Rows <- MCRows
  Futures = 2
  Steps = 6
  PathEnd = 14
  Back = 5
  SwitchGain = 1
  SwitchReach = 2
  ExactReach = 1
  HardBrake <- MCHardBrake
  Calls <- MCCalls
  MaxCalls = 2
INVARIANTS PublishedAgree NoSuddenJump
PROPERTY OnLineForGood
CHECK_DEADLOCK FALSE
