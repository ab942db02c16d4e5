CONSTANTS
  Probers = {p1}
  Prompt = {p1}
  MaxUpgrades = 1
  MaxClears = 1
  MaxSets = 0
SPECIFICATION Spec
INVARIANT ClearForgets
CHECK_DEADLOCK FALSE
