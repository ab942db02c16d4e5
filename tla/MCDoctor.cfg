CONSTANTS
  Providers <- MCProviders
  Declared <- MCDeclared
  Ranged <- MCRanged
  Requests <- MCRequests
  Policies <- MCPolicies
  Interruptions <- MCInterruptions
  Detections <- MCDetections
  FetchErrors <- MCFetchErrors
  Watched <- MCWatched
SPECIFICATION FairSpec
INVARIANTS TypeOK DiagnosisIsComplete NothingFromInterruption FirstSuccessIsLast
PROPERTIES WalksAsResolver DoctorReturns
CHECK_DEADLOCK FALSE
