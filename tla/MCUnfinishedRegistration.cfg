CONSTANTS
  r1 = r1
  r2 = r2
  e1 = e1
  e2 = e2
  n1 = n1
  n2 = n2
  Requests <- MCRequests
  Identifications <- OneIdentification
  Categories <- MCCategories
  Users <- OneUser
  Nicknames <- TwoNicknames
  MaxAborts = 1
  MaxRows = 1
SPECIFICATION Spec
INVARIANTS AccountIsVerified
