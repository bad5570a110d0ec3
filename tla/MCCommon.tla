------------------------------ MODULE MCCommon ------------------------------
(* Small instances of Common: the rate limit with three requests of a      *)
(* caller, the clients of Redis with two calls, the log with two requests, *)
(* and the redaction of values one level deeper than it looks.             *)
EXTENDS Common, TLC

CONSTANTS r1, r2, r3

MCRequests == {r1, r2, r3}
MCCallers == {r1, r2}
=============================================================================
