-------------------------- MODULE MCRecommendations --------------------------
(* Small instances of Recommendations: restaurants (MCSearch); the recent  *)
(* foods, two requests racing over three foods of which two are shown; and *)
(* the counters of two types, two requests racing, with days of two ticks  *)
(* that are kept for two days.                                             *)
EXTENDS Recommendations, MCSearch, TLC

CONSTANTS r1, r2, f1, f2, f3

MCRequests == {r1, r2}
MCFoods == {f1, f2, f3}
MCTypes == <<"food", "restaurant">>
Symmetry == Permutations(MCRequests) \cup Permutations(MCFoods)
=============================================================================
