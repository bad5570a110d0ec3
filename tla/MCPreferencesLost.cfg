CONSTANTS
  r1 = r1
  r2 = r2
  u1 = u1
  x1 = x1
  x2 = x2
  bookmark = bookmark
  exclude = exclude
  Requests <- MCRequests
  Users <- MCUsers
  Columns <- MCColumns
  Restaurants <- MCRestaurants
  MaxReceived = 5
SPECIFICATION Spec
CHECK_DEADLOCK FALSE
SYMMETRY Symmetry
PROPERTIES EveryMarkCounts
