------------------------------- MODULE Common -------------------------------
(* What every route goes through (src/src/common): the rate limit, the     *)
(* clients of Redis, the log of requests and what it shows of a body.  They *)
(* share no state, so that a behaviour is one of them.                     *)
EXTENDS RateLimit

CONSTANTS
  Callers,      \* the requests of RedisClient and of RequestLog
  MaxClients,   \* of RedisClient
  Indices, Labels, Sensitive, MaxDepth, MaxLevels    \* of Redact

VARIABLES
  part,    \* whose behaviour this is
  up, service, current, open, call, raced,
  lreq, store, log,
  value, nested

cvars == <<up, service, current, open, call, raced>>
lvars == <<lreq, store, log>>
xvars == <<value, nested>>

C == INSTANCE RedisClient WITH Requests <- Callers, req <- call
L == INSTANCE RequestLog WITH Requests <- Callers, req <- lreq
X == INSTANCE Redact

ASSUME CommonAssumption == C!RedisClientAssumption /\ X!RedactAssumption

Limiting(A) == part = "limit" /\ A /\ UNCHANGED <<part, cvars, lvars, xvars>>
Connecting(A) == part = "client" /\ A /\ UNCHANGED <<part, vars, lvars, xvars>>
Logging(A) == part = "log" /\ A /\ UNCHANGED <<part, vars, cvars, xvars>>
Redacting(A) == part = "redact" /\ A /\ UNCHANGED <<part, vars, cvars, lvars>>

CommonInit == Init /\ C!Init /\ L!Init /\ X!Init /\ part \in {"limit", "client", "log", "redact"}

CommonNext == Limiting(Next) \/ Connecting(C!Next) \/ Logging(L!Next) \/ Redacting(X!Next)

CommonVars == <<part, vars, cvars, lvars, xvars>>

(* The fairness of each of them. *)
CommonFairness ==
  /\ WF_CommonVars(Limiting(Tick))
  /\ \A r \in Requests : WF_CommonVars(Limiting(Expire(r) \/ Judge(r)))
  /\ \A r \in Callers : WF_CommonVars(Connecting(C!Work(r))) /\ WF_CommonVars(Logging(L!Work(r)))

CommonSpec == CommonInit /\ [][CommonNext]_CommonVars /\ CommonFairness

-----------------------------------------------------------------------------
(* Properties                                                              *)

(* The state that the behaviour is about has its types. *)
TypesOK ==
  /\ part = "limit" => TypeOK
  /\ part = "client" => C!TypeOK
  /\ part = "log" => L!TypeOK
  /\ part = "redact" => X!TypeOK

(* A singleton client is kept, unless two calls made one together.         *)
OneClientUnlessRaced == C!OneClientUnlessRaced

(* Every call of Redis ends, once Redis is back to stay.                   *)
CallsAreAnswered == C!CallsAreAnswered

(* Every line tells the request that wrote it; failures of the server, and *)
(* domain rules that callers broke, are reported.                          *)
LogIsTrue == L!LogIsTrue

(* Nothing under a sensitive key is shown, or too deep; all else is.       *)
SecretsAreHidden == X!SecretsAreHidden

(* Every request leaves an access line in the end, refused ones included.  *)
RequestsAreLogged == L!RequestsAreLogged
=============================================================================
