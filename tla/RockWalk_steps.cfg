CONSTANTS
  Size = 3
  RockCell <- ThreeRocks
SPECIFICATION WalkSpec
CHECK_DEADLOCK FALSE
INVARIANTS
  BatchMatchesScalar
  RockPaysOnce
