--------------------------- MODULE Recommendations ---------------------------
(* What is recommended: restaurants (Search), foods with the list of the   *)
(* recent ones, and the counters of recommendations.  They share no state, *)
(* so that a behaviour is one of them.                                     *)
EXTENDS Search

CONSTANTS
  Requests,                                                  \* of both that follow
  Foods, Shown, MaxTime, MaxAborts,                          \* of RecentFoods
  Types, AskedDays, RetentionDays, DefaultDays, DayTicks, MaxTicks, MaxTotal    \* of Metrics

VARIABLES
  part,    \* whose behaviour this is
  list, expires, fnow, freq, answered, uncertain, aborts,
  mnow, total, daily, dies, made, mreq

fvars == <<list, expires, fnow, freq, answered, uncertain, aborts>>
mvars == <<mnow, total, daily, dies, made, mreq>>

F == INSTANCE RecentFoods WITH now <- fnow, req <- freq, MaxNow <- MaxTime
M == INSTANCE Metrics WITH now <- mnow, req <- mreq, Asked <- AskedDays, MaxNow <- MaxTicks

ASSUME RecommendationsAssumption == F!RecentFoodsAssumption /\ M!MetricsAssumption

RecommendationsInit ==
  Init /\ F!Init /\ M!Init /\ part \in {"restaurants", "foods", "metrics"}

RecommendationsNext ==
  \/ part = "restaurants" /\ Next /\ UNCHANGED <<part, fvars, mvars>>
  \/ part = "foods" /\ F!Next /\ UNCHANGED <<part, vars, mvars>>
  \/ part = "metrics" /\ M!Next /\ UNCHANGED <<part, vars, fvars>>

RecommendationsSpec ==
  RecommendationsInit /\ [][RecommendationsNext]_<<part, vars, fvars, mvars>>

-----------------------------------------------------------------------------
(* Properties                                                              *)

(* The state that the behaviour is about has its types. *)
TypesOK ==
  /\ part = "restaurants" => TypeOK
  /\ part = "foods" => F!TypeOK
  /\ part = "metrics" => M!TypeOK

(* The list of foods has a lifetime after every request that is done.      *)
ListExpires == F!ListExpires

(* The last food that was recommended is shown, unless requests raced.     *)
LastAreRecent == F!LastAreRecent

(* A query is answered every increment of its days, each one once.         *)
AnswersAreTrue == M!AnswersAreTrue
=============================================================================
