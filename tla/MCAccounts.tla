----------------------------- MODULE MCAccounts -----------------------------
(* Small instances of Accounts: two logins racing, of two people, one of   *)
(* whom has the address of an account of the earlier version; two handlers *)
(* racing over the password of an address, perhaps over the account that   *)
(* replaced the one they read; two handlers racing over the two arrays of  *)
(* a member and two restaurants; or two handlers racing to verify the two  *)
(* keys of an address.                                                     *)
EXTENDS Accounts, TLC

CONSTANTS r1, r2, p1, p2, e1, c1

MCRequests == {r1, r2}
MCProviderIds == {p1, p2}
MCEmails == {e1}
MCOwner == (e1 :> p1)
MCUsers == 1..3
MCCodes == {c1}
Symmetry == Permutations(MCRequests)
=============================================================================
