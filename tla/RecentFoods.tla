----------------------------- MODULE RecentFoods -----------------------------
(***************************************************************************)
(* Recommended foods and the list of the recent ones                       *)
(* (src/src/domain/food/service/food.service.ts): one JSON list under one  *)
(* key of Redis, read, changed and written back by every recommendation,   *)
(* and given a new lifetime by a third call.  Requests race between the    *)
(* three, and a request may stop before any of them.  The count of a       *)
(* record is left out: nothing reads it.                                   *)
(***************************************************************************)
EXTENDS Naturals, FiniteSets

CONSTANTS
  Requests,   \* slots for requests in flight
  Foods,      \* ids of foods.json
  Shown,      \* the length of the recent list: 8 in the code
  MaxNow,     \* bound: the last time that the clock shows
  MaxAborts   \* bound: requests that die

RecentFoodsAssumption ==
  IsFiniteSet(Foods) /\ Shown \in Nat /\ MaxNow \in Nat \ {0} /\ MaxAborts \in Nat

VARIABLES
  list,       \* the value of the key: lastRecommendedAt by food, 0 for none
  expires,    \* the key has a time to live
  now,        \* Date.now()
  req,        \* per slot: the step, the food and the list it writes back,
              \* and, as an observation, whether it has been alone
  answered,   \* observation: time of the last answer that gave a food
  uncertain,  \* observation: foods whose last request was not alone, has
              \* died or is not done
  aborts

vars == <<list, expires, now, req, answered, uncertain, aborts>>

Times == 0..MaxNow
Empty == [f \in Foods |-> 0]
Lists == [Foods -> Times]
Idle == [pc |-> "idle", food |-> "none", at |-> 0, list |-> Empty, alone |-> FALSE]

TypeOK ==
  /\ list \in Lists
  /\ expires \in BOOLEAN
  /\ now \in Times
  /\ DOMAIN req = Requests
  /\ \A r \in Requests :
       \/ req[r] = Idle
       \/ /\ req[r].pc \in {"get", "set", "expire"}
          /\ req[r].food \in uncertain /\ req[r].at \in Times /\ req[r].list \in Lists
          /\ req[r].alone \in BOOLEAN
  /\ answered \in [Foods -> Times] /\ uncertain \subseteq Foods
  /\ aborts \in 0..MaxAborts

Init ==
  /\ list = Empty /\ expires = FALSE
  /\ now = 1
  /\ req = [r \in Requests |-> Idle]
  /\ answered = [f \in Foods |-> 0] /\ uncertain = {}
  /\ aborts = 0

-----------------------------------------------------------------------------
InFlight == {r \in Requests : req[r] # Idle}

(* getRecommendedFood draws one of the foods that match. *)
Recommend(r, f) ==
  /\ req[r] = Idle
  /\ req' = [q \in Requests |->
       IF q = r THEN [Idle EXCEPT !.pc = "get", !.food = f, !.alone = InFlight = {}]
       ELSE [req[q] EXCEPT !.alone = FALSE]]
  /\ uncertain' = uncertain \cup {f}
  /\ UNCHANGED <<list, expires, now, answered, aborts>>

(* Faulty variant: the records that were read are dropped. *)
ReadAfresh(r) ==
  /\ req[r].pc = "get"
  /\ req' = [req EXCEPT ![r].pc = "set", ![r].at = now,
                        ![r].list = [Empty EXCEPT ![req[r].food] = now]]
  /\ UNCHANGED <<list, expires, now, answered, uncertain, aborts>>

(* saveFoodRecommendation: the list is read and the change computed. *)
Read(r) ==
  /\ req[r].pc = "get"
  /\ req' = [req EXCEPT ![r].pc = "set", ![r].at = now,
                        ![r].list = [list EXCEPT ![req[r].food] = now]]
  /\ UNCHANGED <<list, expires, now, answered, uncertain, aborts>>

(* SET takes the time to live away. *)
Write(r) ==
  /\ req[r].pc = "set"
  /\ list' = req[r].list
  /\ expires' = FALSE
  /\ req' = [req EXCEPT ![r].pc = "expire"]
  /\ UNCHANGED <<now, answered, uncertain, aborts>>

(* The answer: a food recommended by a request that was alone is certain. *)
AnswerFood(r) ==
  /\ answered' = [answered EXCEPT ![req[r].food] = req[r].at]
  /\ uncertain' = IF req[r].alone THEN uncertain \ {req[r].food} ELSE uncertain

(* Faulty variant: the list is not given a lifetime again. *)
AnswerOnly(r) ==
  /\ req[r].pc = "expire"
  /\ AnswerFood(r)
  /\ req' = [req EXCEPT ![r] = Idle]
  /\ UNCHANGED <<list, expires, now, aborts>>

(* Faulty variant: the frame keeps the list. *)
RenewKeeping(r) ==
  /\ req[r].pc = "expire"
  /\ expires' = (list # Empty)
  /\ AnswerFood(r)
  /\ req' = [req EXCEPT ![r].pc = "idle"]
  /\ UNCHANGED <<list, now, aborts>>

(* EXPIRE, which does nothing to an absent key; then the answer. *)
Renew(r) ==
  /\ req[r].pc = "expire"
  /\ expires' = (list # Empty)
  /\ AnswerFood(r)
  /\ req' = [req EXCEPT ![r] = Idle]
  /\ UNCHANGED <<list, now, aborts>>

Tick ==
  /\ now < MaxNow
  /\ now' = now + 1
  /\ UNCHANGED <<list, expires, req, answered, uncertain, aborts>>

(* A day without a recommendation: Redis drops the key.  No request takes  *)
(* a day from its GET to its answer.                                       *)
Forget ==
  /\ expires
  /\ \A r \in InFlight : req[r].pc = "get"
  /\ list' = Empty /\ expires' = FALSE
  /\ answered' = [f \in Foods |-> 0]
  /\ uncertain' = {req[r].food : r \in InFlight}
  /\ UNCHANGED <<now, req, aborts>>

(* A call throws, or the process dies. *)
Abort(r) ==
  /\ aborts < MaxAborts
  /\ req[r] # Idle
  /\ req' = [req EXCEPT ![r] = Idle]
  /\ aborts' = aborts + 1
  /\ UNCHANGED <<list, expires, now, answered, uncertain>>

Next ==
  \/ \E r \in Requests :
       (\E f \in Foods : Recommend(r, f)) \/ Read(r) \/ Write(r) \/ Renew(r) \/ Abort(r)
  \/ Tick \/ Forget

Spec == Init /\ [][Next]_vars

-----------------------------------------------------------------------------
(* getRecentFoodRecommendations: the Shown records touched last.  Of two   *)
(* touched at the same time either may come first: these are surely shown. *)
Recent == {f \in Foods : list[f] > 0 /\ Cardinality({g \in Foods : list[g] >= list[f]}) <= Shown}

(* Properties                                                              *)

(* The list that everybody writes is dropped after a quiet day: whatever   *)
(* the order of racing SETs and EXPIREs it has a lifetime, or a request    *)
(* that will give it one, unless one died.                                 *)
ListExpires ==
  aborts = 0 /\ list # Empty => expires \/ \E r \in Requests : req[r].pc = "expire"

(* The foods answered last are the recent ones (food.controller.ts: get    *)
(* recent selected food), unless forgotten.  Two requests that overlap may *)
(* undo each other's record, but nobody else's: a food whose last request  *)
(* was alone is shown, wherever the uncertain ones come to stand.          *)
LastAreRecent ==
  \A f \in Foods \ uncertain :
    answered[f] > 0 /\ Cardinality({g \in Foods : answered[g] >= answered[f]} \cup uncertain) <= Shown
      => f \in Recent
=============================================================================
