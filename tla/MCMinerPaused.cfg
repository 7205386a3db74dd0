SPECIFICATION Spec
CONSTANTS
  siteA = siteA
  siteB = siteB
  none = none
  IntMax = 3
  Jobs <- MCJobs
  NoPage = none
  NoWork = 0
  ZeroCookie = 0
  AllOnes = 7
  MaxFound = 2
INVARIANT
  PausedShowsNotMining
