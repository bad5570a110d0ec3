CONSTANTS
  r1 = r1
  r2 = r2
  p1 = p1
  p2 = p2
  e1 = e1
  c1 = c1
  Requests <- MCRequests
  ProviderIds <- MCProviderIds
  Emails <- MCEmails
  Owner <- MCOwner
  Users <- MCUsers
  MaxPasswords = 4
  MaxAccounts = 2
  MaxVerifications = 2
  Members = {"u1"}
  Columns = {"bookmark", "exclude"}
  Restaurants = {"x1", "x2"}
  MaxReceived = 6
  Categories = {"account", "password"}
  Binders = {1}
  Codes <- MCCodes
  Lifetime = 1
  MaxRows = 2
  MaxHistories = 2
  MaxTime = 1
SPECIFICATION AccountsSpec
CHECK_DEADLOCK FALSE
SYMMETRY Symmetry
INVARIANTS TypesOK LoginsAgree PasswordIsKnown NoDuplicates IssuedIsDone
PROPERTIES IdentityMovesOnlyVerified PasswordStaysWithItsAccount OneMarkAtATime RowsAsPromised
