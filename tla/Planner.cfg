CONSTANTS
  Lanes <- RoadLanes
  Connectors <- RoadConnectors
  Succ <- RoadSucc
  Pred <- RoadPred
  LeftOf <- RoadLeft
  RightOf <- RoadRight
  Miss <- RoadMiss
  Points <- RoadPoints
  Curved = {"k11", "k32"}
  Routes <- DriveRoutes
  DeadEndPoints = 2
  Lookback = 4
  Ahead = 6
  Segment = 3
  Straight = {"A1", "A2", "B1", "B2", "E1"}
  RoadBlocks <- Blocks
  Scenarios <- Drives
  Spots <- Places
  Starts <- Beginnings
  Moves <- Drive
  LightStates = {{}, {"k22", "r2e"}}
  LongConnector = 2
SPECIFICATION Spec
INVARIANTS
  CurrentPathValid
  LastActionHasPath
  RanksFollowLanes
  LightsCurrent
  PathTablesComplete
  DrivableMirrorsPython
