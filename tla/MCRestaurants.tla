--------------------------- MODULE MCRestaurants ---------------------------
(* Small instances of Restaurants: reviews, with two handlers of two       *)
(* members racing; reactions, with two tasks left behind; two reports; the *)
(* import of shops, with two runs, and its parser of lines.  An edition    *)
(* has one or two files, in which a shop is listed twice in a batch, in    *)
(* two batches and in two files, or has no line at all; a row has at most  *)
(* two fields.                                                             *)
EXTENDS Restaurants, TLC

CONSTANTS r1, r2, u1, u2, x1, v1, p1, p2

MCRequests == {r1, r2}
MCUsers == {u1, u2}
MCPlaces == {x1}
MCReviewIds == {v1}
MCRuns == {p1, p2}
Symmetry == Permutations(MCRequests) \cup Permutations(MCUsers) \cup Permutations(MCRuns)

Blank == [kind |-> "blank"]
Unusable == [kind |-> "unusable"]
Shop(id, data) == [kind |-> "shop", id |-> id, data |-> data]
MCEditions ==
  { << <<Shop("s1", "old"), Blank, Shop("s1", "new"), Unusable, Shop("s2", "old")>>, <<Shop("s1", "old")>> >>,
    << <<Shop("s3", "new"), Shop("s2", "new"), Shop("s3", "old")>> >>,
    << << >>, <<Unusable, Shop("s1", "new")>> >>,
    << << >> >> }
=============================================================================
