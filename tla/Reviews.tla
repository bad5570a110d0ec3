------------------------------ MODULE Reviews ------------------------------
(***************************************************************************)
(* Restaurant reviews (src/src/domain/restaurant): registering a review,   *)
(* with the restaurant it is about, editing and deleting it; and the       *)
(* activity area of a member (src/src/domain/user) that a review asks for, *)
(* which can be changed.  What is told of reviews is in module Search.     *)
(*                                                                         *)
(* Every await is a step and handlers interleave.  Texts are left out.     *)
(***************************************************************************)
EXTENDS Naturals, Sequences, FiniteSets

CONSTANTS
  Requests,     \* slots for handlers in flight
  Users,        \* members who registered with an area
  Places,       \* external uuids of restaurants
  MaxReviews    \* bound: rows of restaurant_reviews

ASSUME ReviewsAssumption == MaxReviews \in Nat

VARIABLES
  areas,      \* number of rows of user_areas, by user
  rows,       \* number of rows of external_restaurant_informations, by uuid
  reviews,    \* table restaurant_reviews, its id is the position
  req,        \* what each handler in flight holds
  arealess    \* observation: users whose change of area died half way

tables == <<areas, rows, reviews>>
vars == <<tables, req, arealess>>

None == "none"
ReviewRows == [author: Users, place: Places, deleted: BOOLEAN]

RegisterSteps == {"area", "areaAgain", "findPlace", "insertPlace", "findPlaceAgain", "save"}
AreaSteps == {"deleteAreas", "insertArea"}
EditSteps == {"readToUpdate", "update", "readToDelete", "mark"}
Idle == [pc |-> "idle", user |-> None, place |-> None, review |-> 0]

FrameOK(f) ==
  IF f.pc = "idle" THEN f = Idle
  ELSE /\ f.pc \in RegisterSteps \cup AreaSteps \cup EditSteps
       /\ f.pc \in RegisterSteps \cup {"update"} => f.place \in Places
       /\ f.user \in Users
       /\ f.pc \in {"update", "mark"} => f.review \in DOMAIN reviews

TypeOK ==
  /\ areas \in [Users -> Nat]
  /\ rows \in [Places -> Nat]
  /\ reviews \in Seq(ReviewRows)
  /\ DOMAIN req = Requests
  /\ \A r \in Requests : FrameOK(req[r])
  /\ arealess \subseteq Users

Init ==
  /\ areas = [u \in Users |-> 1]
  /\ rows = [x \in Places |-> 0] /\ reviews = << >>
  /\ req = [r \in Requests |-> Idle]
  /\ arealess = {}

-----------------------------------------------------------------------------
At(r, step) == req[r].pc = step
Goto(r, step) == req' = [req EXCEPT ![r].pc = step]

(* Faulty variant: the frame keeps what the handler held. *)
RespondKeeping(r) == req' = [req EXCEPT ![r].pc = "idle"]
Respond(r) == req' = [req EXCEPT ![r] = Idle]

Receive(r, f) ==
  /\ req[r] = Idle
  /\ req' = [req EXCEPT ![r] = f]
  /\ UNCHANGED <<tables, arealess>>

(* getReviewById does not see a deleted review. *)
Live(i) == i \in DOMAIN reviews /\ ~reviews[i].deleted

-----------------------------------------------------------------------------
(* registerReview *)
Register(r, u, x) == Receive(r, [Idle EXCEPT !.pc = "area", !.user = u, !.place = x])

(* registerReview and createReview ask for the area, one after the other. *)
CheckArea(r) ==
  /\ \/ At(r, "area") /\ (IF areas[req[r].user] > 0 THEN Goto(r, "areaAgain") ELSE Respond(r))
     \/ At(r, "areaAgain") /\ (IF areas[req[r].user] > 0 THEN Goto(r, "findPlace") ELSE Respond(r))
  /\ UNCHANGED <<tables, arealess>>

(* Faulty variant: the registration is not waited for. *)
FindPlaceOnly(r) ==
  /\ At(r, "findPlace")
  /\ Goto(r, "save")
  /\ UNCHANGED <<tables, arealess>>

(* registerExternalRestaurantInformationWhenNoData *)
FindPlace(r) ==
  /\ At(r, "findPlace")
  /\ Goto(r, IF rows[req[r].place] > 0 THEN "save" ELSE "insertPlace")
  /\ UNCHANGED <<tables, arealess>>

(* The unique index throws when another review was faster to register it. *)
InsertPlace(r) ==
  /\ At(r, "insertPlace")
  /\ IF rows[req[r].place] = 0
     THEN rows' = [rows EXCEPT ![req[r].place] = 1] /\ Goto(r, "findPlaceAgain")
     ELSE Respond(r) /\ UNCHANGED rows
  /\ UNCHANGED <<areas, reviews, arealess>>

FindPlaceAgain(r) ==
  /\ At(r, "findPlaceAgain")
  /\ IF rows[req[r].place] > 0 THEN Goto(r, "save") ELSE Respond(r)
  /\ UNCHANGED <<tables, arealess>>

SaveReview(r) ==
  /\ At(r, "save")
  /\ Len(reviews) < MaxReviews
  /\ reviews' = Append(reviews, [author |-> req[r].user, place |-> req[r].place, deleted |-> FALSE])
  /\ Respond(r)
  /\ UNCHANGED <<areas, rows, arealess>>

-----------------------------------------------------------------------------
(* updateReview and deleteRestaurnatReview: the author, and the restaurant *)
(* that an update writes back, come from a read before the write.          *)
Update(r, u, i) == Receive(r, [Idle EXCEPT !.pc = "readToUpdate", !.user = u, !.review = i])
Delete(r, u, i) == Receive(r, [Idle EXCEPT !.pc = "readToDelete", !.user = u, !.review = i])

ReadReview(r) ==
  /\ At(r, "readToUpdate") \/ At(r, "readToDelete")
  /\ IF Live(req[r].review) /\ reviews[req[r].review].author = req[r].user
     THEN req' = [req EXCEPT ![r].pc = IF @ = "readToUpdate" THEN "update" ELSE "mark",
                             ![r].place = reviews[req[r].review].place]
     ELSE Respond(r)
  /\ UNCHANGED <<tables, arealess>>

(* Faulty variant: the review that was read is written back whole. *)
WriteReview(r) ==
  /\ At(r, "update")
  /\ reviews' = [reviews EXCEPT ![req[r].review] =
       [author |-> req[r].user, place |-> req[r].place, deleted |-> FALSE]]
  /\ Respond(r)
  /\ UNCHANGED <<areas, rows, arealess>>

(* updateReviewById writes author and restaurant, and leaves deletedAt. *)
UpdateReview(r) ==
  /\ At(r, "update")
  /\ reviews' = [reviews EXCEPT ![req[r].review].author = req[r].user,
                                ![req[r].review].place = req[r].place]
  /\ Respond(r)
  /\ UNCHANGED <<areas, rows, arealess>>

MarkReview(r) ==
  /\ At(r, "mark")
  /\ reviews' = [reviews EXCEPT ![req[r].review].deleted = TRUE]
  /\ Respond(r)
  /\ UNCHANGED <<areas, rows, arealess>>

-----------------------------------------------------------------------------
(* changeArea *)
ChangeArea(r, u) == Receive(r, [Idle EXCEPT !.pc = "deleteAreas", !.user = u])

DeleteAreas(r) ==
  /\ At(r, "deleteAreas")
  /\ areas' = [areas EXCEPT ![req[r].user] = 0]
  /\ Goto(r, "insertArea")
  /\ UNCHANGED <<rows, reviews, arealess>>

(* Faulty variant: an update, which finds no row after the delete. *)
UpdateArea(r) ==
  /\ At(r, "insertArea")
  /\ areas' = [areas EXCEPT ![req[r].user] = @]
  /\ Respond(r)
  /\ UNCHANGED <<rows, reviews, arealess>>

InsertArea(r) ==
  /\ At(r, "insertArea")
  /\ areas' = [areas EXCEPT ![req[r].user] = @ + 1]
  /\ Respond(r)
  /\ UNCHANGED <<rows, reviews, arealess>>

(* An awaited call throws, or the process dies. *)
Abort(r) ==
  /\ req[r] # Idle
  /\ arealess' = IF At(r, "insertArea") THEN arealess \cup {req[r].user} ELSE arealess
  /\ Respond(r)
  /\ UNCHANGED tables

Work(r) ==
  \/ CheckArea(r) \/ FindPlace(r) \/ InsertPlace(r) \/ FindPlaceAgain(r) \/ SaveReview(r)
  \/ ReadReview(r) \/ UpdateReview(r) \/ MarkReview(r)
  \/ DeleteAreas(r) \/ InsertArea(r)

Next ==
  \E r \in Requests :
    \/ \E u \in Users, x \in Places : Register(r, u, x)
    \/ \E u \in Users, i \in 1..MaxReviews : Update(r, u, i) \/ Delete(r, u, i)
    \/ \E u \in Users : ChangeArea(r, u)
    \/ Work(r) \/ Abort(r)

Spec == Init /\ [][Next]_vars

-----------------------------------------------------------------------------
(* Properties                                                              *)

(* A review, deleted or not, is about a restaurant that is registered      *)
(* once, although every first review of it looks for it and inserts it an  *)
(* await later: getRecentReviews and getRestaurantReviewsByUserId throw    *)
(* when there is none.                                                     *)
ReviewHasItsPlace == \A i \in DOMAIN reviews : rows[reviews[i].place] = 1

(* A review keeps its author and its restaurant, and a deleted one never   *)
(* comes back, even when its author deletes it while an edit that read it  *)
(* before is still on its way; and nobody but the author deletes it.       *)
ReviewsStayTheAuthors ==
  [][\A i \in DOMAIN reviews :
       /\ reviews'[i].author = reviews[i].author
       /\ reviews'[i].place = reviews[i].place
       /\ reviews[i].deleted => reviews'[i].deleted
       /\ ~reviews[i].deleted /\ reviews'[i].deleted =>
            \E r \in Requests : At(r, "mark") /\ req[r].user = reviews[i].author]_vars

(* A member keeps an area through any number of changes that race, unless  *)
(* one of them died between its delete and its insert.                     *)
AreaSurvives ==
  \A u \in Users :
    areas[u] = 0 => u \in arealess \/ \E r \in Requests : At(r, "insertArea") /\ req[r].user = u
=============================================================================
