CONSTANTS
  Providers <- CodexProviders
  Declared <- CodexDeclared
  Requests <- CodexRequests
  Policies <- CodexPolicies
  StrictModes <- LiveStrict
  Interruptions <- LiveInterruptions
  DetectVersions <- CodexDetect
  FetchAnswers <- LiveFetch
  Cooperative <- CodexCooperative
SPECIFICATION Spec
INVARIANT SlowCheckIsTimeout
CHECK_DEADLOCK FALSE
