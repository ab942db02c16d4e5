CONSTANTS
  Probers = {p1, p2, p3}
  Prompt = {p1, p2}
  MaxUpgrades = 1
  MaxClears = 1
  MaxSets = 1
SPECIFICATION FairSpec
INVARIANTS TypeOK SingleFlight AgreeUnlessReset
PROPERTY EveryProbeReturns
CHECK_DEADLOCK FALSE
