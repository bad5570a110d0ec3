----------------------------- MODULE MCRateLimit -----------------------------
(* Small instances of RateLimit: three requests of a caller racing.        *)
EXTENDS RateLimit, TLC

CONSTANTS r1, r2, r3

MCRequests == {r1, r2, r3}
=============================================================================
