CONSTANTS
  Ladders <- MCLadders
  Policies <- MCPolicies
SPECIFICATION Spec
INVARIANTS VerdictIsMostInformative RetryableHidesNothing BlameIsEarned
CHECK_DEADLOCK FALSE
