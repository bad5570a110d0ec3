CONSTANTS
  r1 = r1
  r2 = r2
  r3 = r3
  Requests <- MCRequests
  Limit = 2
  Ttl = 2
  MaxAborts = 1
SPECIFICATION FairSpec
PROPERTIES LetInAgainLater
