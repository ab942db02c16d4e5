CONSTANTS
  Providers <- LiveProviders
  Declared <- LiveDeclared
  Requests <- LiveRequests
  Policies <- LivePolicies
  StrictModes <- LiveStrict
  Interruptions <- LiveInterruptions
  DetectVersions <- LiveDetect
  FetchAnswers <- LiveFetch
  Cooperative <- LiveCooperative
SPECIFICATION FairSpec
PROPERTIES RunReturns AbandonedSourcesEnd
CHECK_DEADLOCK FALSE
