CONSTANTS
  r1 = r1
  r2 = r2
  u1 = u1
  u2 = u2
  x1 = x1
  v1 = v1
  p1 = p1
  p2 = p2
  Requests <- MCRequests
  Users <- MCUsers
  Places <- MCPlaces
  MaxReviews = 3
  ReviewIds <- MCReviewIds
  MaxNow = 1
  Runs <- MCRuns
  Ids = {"s1", "s2", "s3"}
  Data = {"old", "new"}
  Editions <- MCEditions
  BatchSize = 2
  MaxStarts = 3
  Letters = {"a"}
  MaxField = 3
  MaxFields = 2
SPECIFICATION RestaurantsSpec
CHECK_DEADLOCK FALSE
SYMMETRY Symmetry
INVARIANTS TypesOK ReviewHasItsPlace AreaSurvives LastPutCounts ImagesAreTheReporters ImportIsComplete OnlyMissingAreClosed ParsesWhatWasWritten
PROPERTIES ReviewsStayTheAuthors
