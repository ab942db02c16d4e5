CONSTANTS
  MillisPerSecond = 10
  MilliCutoff = 10
  FirstNow = 2
  LastNow = 4
  MaxWrites = 2
  KeychainItems <- MCKeychainItems
  FileContents <- MCFileContents
  Bodies <- MCBodies
  AuthFiles <- MCAuthFiles
  Sessions <- MCSessions
SPECIFICATION FairSpec
INVARIANTS SentTokenIsLive NoUsableCredentialHidden AvailableIsHonoured WindowsAreListed TotalIsTrue
PROPERTY KeepsContract
CHECK_DEADLOCK FALSE
