---------------------------- MODULE MCMembership ----------------------------
(* Small instances of Membership: two handlers racing over two addresses,  *)
(* two users and the nicknames they choose.                                *)
EXTENDS Membership, TLC

CONSTANTS r1, r2, e1, e2, n1, n2

MCRequests == {r1, r2}
OneIdentification == {e1}
TwoIdentifications == {e1, e2}
TwoNicknames == {n1, n2}
MCCategories == {"account"}
OneUser == {1}
TwoUsers == {1, 2}
Symmetry == Permutations(MCRequests) \cup Permutations(TwoIdentifications) \cup Permutations(TwoNicknames)
=============================================================================
