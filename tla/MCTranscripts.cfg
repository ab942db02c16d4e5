CONSTANTS
  Paths <- MCPaths
  Contents <- MCContents
  NewLines <- MCNewLines
  Sinces = {0, 2}
  MaxLine = 2
  LastNow = 2
  MaxWrites = 1
SPECIFICATION FairSpec
INVARIANTS TurnsCountOnce NothingIsMissed
PROPERTY KeepsContract
CHECK_DEADLOCK FALSE
