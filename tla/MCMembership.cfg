CONSTANTS
  r1 = r1
  r2 = r2
  e1 = e1
  e2 = e2
  n1 = n1
  n2 = n2
  Requests <- MCRequests
  Identifications <- TwoIdentifications
  Categories <- MCCategories
  Users <- TwoUsers
  Nicknames <- TwoNicknames
  MaxAborts = 1
  MaxRows = 2
SPECIFICATION Spec
SYMMETRY Symmetry
INVARIANTS TypeOK HoldsItsOwnRow OneAccountPerUser WithdrawnIsGone NicknamesDiffer OrphansAreUnregistered
PROPERTIES AccountsLeaveByWithdrawal
