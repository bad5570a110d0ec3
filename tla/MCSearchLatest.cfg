CONSTANTS
  Places = {1, 2, 3}
  Near = {1, 2}
  Members = {"u1", "u2"}
  Shops <- MCShops
  Drafts <- MCDrafts
  Filters <- MCFilters
  Pages <- MCPages
  ListLimit = 1
  RecentCount = 2
  MaxReviews = 2
  MaxChanges = 1
SPECIFICATION Spec
INVARIANTS LatestFirst
