SPECIFICATION Spec
CONSTANTS
  D = 13
  RearToCenter = 1
  Cap = 2
  Entries = 6
  Frames <- AllFrames
  Scenarios = {1, 2}
  Offsets <- MCOffsets
  Width = 2
  FullLen = 4
  ShortLen = 3
  EgoWide = 1
  EgoLong = 3
  EgoMargin = 1
  ExoMargin = 2
  LaneHalf = 1
  RoadHalf = 3
  LaneLimit = 4
  RowLimit = 4
  Crash = 1000
  Metric = 30
  Nudge = 400
  Gap = 500
  EdgeGap = 3
  Critical = 1
  Extended = 2
INVARIANTS QueryExact SearchVerdict LanesIndependent BrakesBeforeCrash
