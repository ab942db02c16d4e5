CONSTANTS
  Providers <- MCProviders
  Declared <- MCDeclared
  Requests <- MCRequests
  Policies <- MCPolicies
  StrictModes <- MCStrict
  Interruptions <- MCInterruptions
  DetectVersions <- MCDetect
  FetchAnswers <- MCFetch
  Cooperative <- MCCooperative
SPECIFICATION Spec
INVARIANTS TypeOK ReportIsComplete NoVerdictFromInterruption FirstTierWins
  AttemptsAreTheirOwn LocalPolicyStaysLocal DriftIsNeverTrusted
PROPERTY KeepsPromise
CHECK_DEADLOCK FALSE
