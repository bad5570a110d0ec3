CONSTANTS
  Places = {1, 2, 3}
  Near = {1, 2}
  Members = {"u1", "u2"}
  Shops <- MCShops
  Drafts <- MCDrafts
  Filters <- MCFilters
  Pages <- MCPages
  ListLimit = 1
  RecentCount = 2
  MaxReviews = 2
  MaxChanges = 2
  r1 = r1
  r2 = r2
  f1 = f1
  f2 = f2
  f3 = f3
  Requests <- MCRequests
  Foods <- MCFoods
  Shown = 2
  MaxTime = 3
  MaxAborts = 1
  Types <- MCTypes
  AskedDays = {0, 2, 3}
  RetentionDays = 2
  DefaultDays = 1
  DayTicks = 2
  MaxTicks = 5
  MaxTotal = 2
SPECIFICATION RecommendationsSpec
SYMMETRY Symmetry
INVARIANTS TypesOK RecommendationFits ListingsAreTrue ListExpires LastAreRecent AnswersAreTrue
