CONSTANTS
  r1 = r1
  r2 = r2
  r3 = r3
  Requests <- MCRequests
  Callers <- MCCallers
  Limit = 2
  Ttl = 3
  MaxAborts = 1
  MaxClients = 3
  Indices = {"0"}
  Labels = {"name", "code"}
  Sensitive = {"code"}
  MaxDepth = 2
  MaxLevels = 3
SPECIFICATION CommonSpec
INVARIANTS TypesOK AtMostTwiceLimit KeyExpires OneClientUnlessRaced LogIsTrue SecretsAreHidden
PROPERTIES NoPermanentBlock CallsAreAnswered RequestsAreLogged
