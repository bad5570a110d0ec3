--------------------------- MODULE MCPreferences ---------------------------
(* A small instance of Preferences: a member with two restaurants and two  *)
(* handlers racing.                                                        *)
EXTENDS Preferences, TLC

CONSTANTS r1, r2, u1, x1, x2, bookmark, exclude

MCRequests == {r1, r2}
MCUsers == {u1}
MCColumns == {bookmark, exclude}
MCRestaurants == {x1, x2}

Symmetry == Permutations(MCRequests) \cup Permutations(MCColumns) \cup Permutations(MCRestaurants)
=============================================================================
