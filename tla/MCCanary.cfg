CONSTANTS
  Refs = {"main", "branch"}
  Default = "main"
  Providers <- MCProviders
  Releases <- MCReleases
  Verified <- MCVerified
  Sound <- MCSound
  Ranges <- MCRanges
  MaxFaults = 1
  MaxManual = 1
SPECIFICATION Spec


PROPERTIES VerdictsAscend AllClearIsEarned IssueSettles
