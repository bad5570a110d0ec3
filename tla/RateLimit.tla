------------------------------ MODULE RateLimit ------------------------------
(***************************************************************************)
(* The rate limit of a route for one caller                                *)
(* (src/src/common/rate-limit/rate-limit.guard.ts): a counter in Redis     *)
(* that is incremented by every request and lives for Ttl seconds from the *)
(* first.  INCR and EXPIRE are two calls; requests of the caller race      *)
(* between them, and time passes.                                          *)
(***************************************************************************)
EXTENDS Naturals

CONSTANTS
  Requests,    \* slots for requests of the caller in flight
  Limit,       \* RateLimitOptions.limit
  Ttl,         \* RateLimitOptions.ttl, in ticks of the clock
  MaxAborts    \* bound: requests that die between the two calls

ASSUME RateLimitAssumption == Limit \in Nat \ {0} /\ Ttl \in Nat \ {0} /\ MaxAborts \in Nat

VARIABLES
  count,     \* the counter, 0 when the key is absent.  The guard does not
             \* tell values above Limit apart: all are Limit + 1
  ttl,       \* time to live of the key, 0 when it has none
  req,       \* per slot: the step and the count that INCR returned
  recent,    \* observation: requests counted within Limit, by age in ticks
  aborts

vars == <<count, ttl, req, recent, aborts>>

Idle == [pc |-> "idle", count |-> 0]
Ages == 0..Ttl - 1

TypeOK ==
  /\ count \in 0..Limit + 1 /\ ttl \in 0..Ttl
  /\ count = 0 => ttl = 0
  /\ req \in [Requests -> {Idle} \cup [pc: {"expire", "judge"}, count: 1..Limit + 1]]
  /\ recent \in [Ages -> Nat]
  /\ aborts \in 0..MaxAborts

Init ==
  /\ count = 0 /\ ttl = 0
  /\ req = [r \in Requests |-> Idle]
  /\ recent = [a \in Ages |-> 0]
  /\ aborts = 0

AtMost(n, m) == IF n <= m THEN n ELSE m

(* Faulty variant: the limit is compared with the count before. *)
IncrOffByOne(r) ==
  /\ req[r] = Idle
  /\ count' = AtMost(count + 1, Limit + 1)
  /\ req' = [req EXCEPT ![r] = [pc |-> IF count' = 1 THEN "expire" ELSE "judge", count |-> count']]
  /\ recent' = IF count <= Limit THEN [recent EXCEPT ![0] = @ + 1] ELSE recent
  /\ UNCHANGED <<ttl, aborts>>

(* INCR keeps the time to live of the key. *)
Incr(r) ==
  /\ req[r] = Idle
  /\ count' = AtMost(count + 1, Limit + 1)
  /\ req' = [req EXCEPT ![r] = [pc |-> IF count' = 1 THEN "expire" ELSE "judge", count |-> count']]
  /\ recent' = IF count' <= Limit THEN [recent EXCEPT ![0] = @ + 1] ELSE recent
  /\ UNCHANGED <<ttl, aborts>>

(* Faulty variant: nobody sets the expiry. *)
ExpireNever(r) ==
  /\ req[r].pc = "expire"
  /\ req' = [req EXCEPT ![r].pc = "judge"]
  /\ UNCHANGED <<count, ttl, recent, aborts>>

(* EXPIRE does nothing to an absent key. *)
Expire(r) ==
  /\ req[r].pc = "expire"
  /\ ttl' = IF count > 0 THEN Ttl ELSE 0
  /\ req' = [req EXCEPT ![r].pc = "judge"]
  /\ UNCHANGED <<count, recent, aborts>>

(* Faulty variant: the frame keeps the count. *)
JudgeKeeping(r) ==
  /\ req[r].pc = "judge"
  /\ req' = [req EXCEPT ![r].pc = "idle"]
  /\ UNCHANGED <<count, ttl, recent, aborts>>

(* The answer: 429 when the count is above the limit. *)
Judge(r) ==
  /\ req[r].pc = "judge"
  /\ req' = [req EXCEPT ![r] = Idle]
  /\ UNCHANGED <<count, ttl, recent, aborts>>

(* The second call throws, or the process dies before it. *)
Abort(r) ==
  /\ aborts < MaxAborts
  /\ req[r].pc = "expire"
  /\ req' = [req EXCEPT ![r] = Idle]
  /\ aborts' = aborts + 1
  /\ UNCHANGED <<count, ttl, recent>>

(* A tick of the clock; Redis drops the key when its time is over. *)
Tick ==
  /\ ttl' = IF ttl = 0 THEN 0 ELSE ttl - 1
  /\ count' = IF ttl = 1 THEN 0 ELSE count
  /\ recent' = [a \in Ages |-> IF a = 0 THEN 0 ELSE recent[a - 1]]
  /\ UNCHANGED <<req, aborts>>

Next == Tick \/ \E r \in Requests : Incr(r) \/ Expire(r) \/ Judge(r) \/ Abort(r)

Spec == Init /\ [][Next]_vars

(* The clock ticks, and a request in flight goes on: it awaits two calls   *)
(* and nobody else.                                                        *)
FairSpec == Spec /\ WF_vars(Tick) /\ \A r \in Requests : WF_vars(Expire(r) \/ Judge(r))

-----------------------------------------------------------------------------
(* Properties                                                              *)

(* The requests counted in the last ticks, this one included.              *)
CountedIn[ticks \in 0..Ttl] == IF ticks = 0 THEN 0 ELSE CountedIn[ticks - 1] + recent[ticks - 1]

(* Whatever the interleaving of the two calls and the lifetime of the key, *)
(* no Ttl consecutive ticks let more than twice the limit pass.            *)
AtMostTwiceLimit == CountedIn[Ttl] <= 2 * Limit

(* Unless a request died between its two calls, a key that exists has an   *)
(* expiry, or the request that made it is about to set one.                *)
KeyExpires == aborts = 0 /\ count > 0 => ttl > 0 \/ \E r \in Requests : req[r].pc = "expire"

(* A caller that is blocked is let in again, even one that never stops     *)
(* trying, unless a request died between its two calls.                    *)
NoPermanentBlock == count > Limit ~> count <= Limit \/ aborts > 0

(* What the answer says: 'Too many requests. Please try again later.'      *)
LetInAgainLater == count > Limit ~> count <= Limit
=============================================================================
