------------------------- MODULE Restaurants_proofs -------------------------
(***************************************************************************)
(* What reviews, their restaurants and the areas of members keep true, for *)
(* any number of handlers, members and restaurants.  Nothing in the tables *)
(* is locked: what a handler read before an await must be of a kind that   *)
(* no other handler takes back.  Then reactions, reports, the import of    *)
(* shops and its parser of lines, all as behaviours of Restaurants.        *)
(***************************************************************************)
EXTENDS Restaurants, FiniteSetTheorems, SequenceTheorems, TLAPS

(* A restaurant is registered once, by the unique index.                   *)
RowsOnce == \A x \in Places : rows[x] \in {0, 1}

(* A registration that has found or inserted the restaurant finds it; an   *)
(* edit or a deletion that has read the review is the author's, and writes *)
(* back the restaurant that is there.                                      *)
HeldOK(r) ==
  /\ req[r].pc \in {"findPlaceAgain", "save"} => rows[req[r].place] = 1
  /\ req[r].pc \in {"update", "mark"} =>
       /\ reviews[req[r].review].author = req[r].user
       /\ reviews[req[r].review].place = req[r].place

IInv == TypeOK /\ RowsOnce /\ ReviewHasItsPlace /\ AreaSurvives /\ \A r \in Requests : HeldOK(r)

-----------------------------------------------------------------------------

LEMMA IdleOK == FrameOK(Idle) /\ Idle.pc = "idle"
BY DEF FrameOK, Idle

(* A handler goes on with the frame f: restaurants stay, reviews stay with *)
(* author and restaurant, new reviews have a restaurant, and a member left *)
(* without an area is one that f is to give a new one, or is known.        *)
LEMMA HandlerStep ==
  ASSUME IInv, NEW r \in Requests, NEW f, req' = [req EXCEPT ![r] = f], FrameOK(f),
         areas' \in [Users -> Nat], rows' \in [Places -> Nat], reviews' \in Seq(ReviewRows),
         arealess \subseteq arealess', arealess' \subseteq Users,
         \A x \in Places : rows'[x] \in {0, 1} /\ (rows[x] = 1 => rows'[x] = 1),
         \A i \in DOMAIN reviews :
           i \in DOMAIN reviews' /\ reviews'[i].author = reviews[i].author /\ reviews'[i].place = reviews[i].place,
         \A i \in DOMAIN reviews' : i \in DOMAIN reviews \/ rows'[reviews'[i].place] = 1,
         \A u \in Users : areas'[u] = 0 => areas[u] = 0 \/ (f.pc = "insertArea" /\ f.user = u),
         At(r, "insertArea") => areas'[req[r].user] # 0 \/ req[r].user \in arealess',
         f.pc \in {"findPlaceAgain", "save"} => rows'[f.place] = 1,
         f.pc \in {"update", "mark"} =>
           reviews[f.review].author = f.user /\ reviews[f.review].place = f.place
  PROVE  IInv'
<1>0. TypeOK /\ RowsOnce /\ ReviewHasItsPlace /\ AreaSurvives /\ \A s \in Requests : HeldOK(s)
  BY DEF IInv
<1>1. req'[r] = f /\ \A s \in Requests \ {r} : req'[s] = req[s]
  BY <1>0 DEF TypeOK
<1>2. \A s \in Requests : FrameOK(req'[s])
  BY <1>0, <1>1 DEF TypeOK
<1>3. ASSUME NEW s \in Requests PROVE FrameOK(req[s])'
  BY <1>2 DEF FrameOK
<1>4. TypeOK'
  BY <1>0, <1>3 DEF TypeOK
<1>5. RowsOnce'
  BY DEF RowsOnce
<1>6. ReviewHasItsPlace'
  <2> SUFFICES ASSUME NEW i \in DOMAIN reviews' PROVE rows'[reviews'[i].place] = 1
    BY DEF ReviewHasItsPlace
  <2>1. CASE i \in DOMAIN reviews
    <3>1. reviews[i] \in ReviewRows
      BY <1>0, <2>1, ElementOfSeq, LenProperties DEF TypeOK
    <3>2. reviews[i].place \in Places /\ rows[reviews[i].place] = 1
      BY <1>0, <2>1, <3>1 DEF ReviewRows, ReviewHasItsPlace
    <3>3. QED
      BY <2>1, <3>2
  <2>2. QED
    BY <2>1
<1>7. AreaSurvives'
  <2> SUFFICES ASSUME NEW u \in Users, areas'[u] = 0
               PROVE  u \in arealess' \/ \E s \in Requests : req'[s].pc = "insertArea" /\ req'[s].user = u
    BY DEF AreaSurvives, At
  <2>1. CASE f.pc = "insertArea" /\ f.user = u
    BY <1>1, <2>1
  <2>2. CASE areas[u] = 0
    <3>1. u \in arealess \/ \E s \in Requests : At(s, "insertArea") /\ req[s].user = u
      BY <1>0, <2>2 DEF AreaSurvives
    <3>2. ASSUME NEW s \in Requests, At(s, "insertArea"), req[s].user = u, u \notin arealess'
          PROVE  req'[s].pc = "insertArea" /\ req'[s].user = u
      BY <1>1, <3>2 DEF At
    <3>3. QED
      BY <3>1, <3>2
  <2>3. QED
    BY <2>1, <2>2
<1>8. ASSUME NEW s \in Requests PROVE HeldOK(s)'
  <2>1. CASE s = r
    <3>1. f.pc \in {"update", "mark"} => f.review \in DOMAIN reviews
      BY DEF FrameOK
    <3>2. QED
      BY <1>1, <2>1, <3>1 DEF HeldOK
  <2>2. CASE s # r
    <3>1. HeldOK(s) /\ FrameOK(req[s]) /\ req'[s] = req[s]
      BY <1>0, <1>1, <2>2 DEF TypeOK
    <3>2. req[s].pc \in {"findPlaceAgain", "save"} => req[s].place \in Places
      BY <3>1 DEF FrameOK, RegisterSteps
    <3>3. req[s].pc \in {"update", "mark"} => req[s].review \in DOMAIN reviews
      BY <3>1 DEF FrameOK
    <3>4. QED
      BY <3>1, <3>2, <3>3 DEF HeldOK
  <2>3. QED
    BY <2>1, <2>2
<1>9. QED
  BY <1>4, <1>5, <1>6, <1>7, <1>8 DEF IInv

(* The same, when the tables stay.                                         *)
LEMMA ReadingStep ==
  ASSUME IInv, NEW r \in Requests, NEW f, req' = [req EXCEPT ![r] = f], FrameOK(f),
         UNCHANGED <<tables, arealess>>, ~At(r, "insertArea"),
         f.pc \in {"findPlaceAgain", "save"} => rows[f.place] = 1,
         f.pc \in {"update", "mark"} =>
           reviews[f.review].author = f.user /\ reviews[f.review].place = f.place
  PROVE  IInv'
BY HandlerStep DEF IInv, TypeOK, RowsOnce, tables

-----------------------------------------------------------------------------

LEMMA InitIInv == Init => IInv
<1> SUFFICES ASSUME Init PROVE IInv
  OBVIOUS
<1>1. \A r \in Requests : req[r] = Idle
  BY DEF Init
<1>2. reviews = << >> /\ reviews \in Seq(ReviewRows) /\ DOMAIN reviews = {}
  BY DEF Init
<1>3. TypeOK
  BY <1>1, <1>2, IdleOK DEF Init, TypeOK
<1>4. RowsOnce /\ ReviewHasItsPlace /\ AreaSurvives
  BY <1>2 DEF Init, RowsOnce, ReviewHasItsPlace, AreaSurvives
<1>5. QED
  BY <1>1, <1>3, <1>4, IdleOK DEF IInv, HeldOK

LEMMA NextIInv == IInv /\ [Next]_vars => IInv'
<1> SUFFICES ASSUME IInv, [Next]_vars PROVE IInv'
  OBVIOUS
<1>0. TypeOK /\ RowsOnce /\ ReviewHasItsPlace /\ AreaSurvives /\ \A s \in Requests : HeldOK(s)
  BY DEF IInv
<1> USE DEF RegisterSteps, AreaSteps, EditSteps
<1>1. ASSUME NEW r \in Requests, NEW f, FrameOK(f), f.pc \in {"area", "deleteAreas", "readToUpdate", "readToDelete"},
             Receive(r, f)
      PROVE  IInv'
  <2>1. req' = [req EXCEPT ![r] = f] /\ UNCHANGED <<tables, arealess>> /\ ~At(r, "insertArea")
    BY <1>1, IdleOK DEF Receive, At
  <2>2. QED
    BY <1>1, <2>1, ReadingStep
<1>2. ASSUME NEW r \in Requests, Respond(r), UNCHANGED <<tables, arealess>>, ~At(r, "insertArea") PROVE IInv'
  BY <1>2, IdleOK, ReadingStep DEF Respond
<1>3. ASSUME NEW r \in Requests, NEW step \in {"areaAgain", "findPlace", "insertPlace", "findPlaceAgain", "save"},
             Goto(r, step), UNCHANGED <<tables, arealess>>,
             req[r].pc \in RegisterSteps,
             step \in {"findPlaceAgain", "save"} => rows[req[r].place] = 1
      PROVE  IInv'
  <2> DEFINE f == [req[r] EXCEPT !.pc = step]
  <2>1. FrameOK(req[r])
    BY <1>0 DEF TypeOK
  <2>2. FrameOK(f) /\ f.place = req[r].place /\ f.pc = step
    BY <1>3, <2>1 DEF FrameOK
  <2>3. req' = [req EXCEPT ![r] = f] /\ ~At(r, "insertArea")
    BY <1>3 DEF Goto, At
  <2>4. QED
    BY <1>3, <2>2, <2>3, ReadingStep
<1>4. ASSUME NEW r \in Requests, CheckArea(r) PROVE IInv'
  <2>1. /\ Respond(r) \/ Goto(r, "areaAgain") \/ Goto(r, "findPlace")
        /\ req[r].pc \in {"area", "areaAgain"} /\ UNCHANGED <<tables, arealess>>
    BY <1>4 DEF CheckArea, At
  <2>2. QED
    BY <1>2, <1>3, <2>1 DEF At
<1>5. ASSUME NEW r \in Requests, FindPlace(r) PROVE IInv'
  <2>1. req[r].pc = "findPlace" /\ UNCHANGED <<tables, arealess>>
    BY <1>5 DEF FindPlace, At
  <2>2. rows[req[r].place] > 0 => rows[req[r].place] = 1
    BY <1>0, <2>1 DEF TypeOK, FrameOK, RowsOnce
  <2>3. QED
    BY <1>3, <1>5, <2>1, <2>2 DEF FindPlace
<1>6. ASSUME NEW r \in Requests, InsertPlace(r) PROVE IInv'
  <2>1. FrameOK(req[r]) /\ req[r].pc = "insertPlace" /\ req[r].place \in Places
    BY <1>0, <1>6 DEF InsertPlace, At, TypeOK, FrameOK
  <2>2. CASE rows[req[r].place] # 0
    BY <1>2, <1>6, <2>1, <2>2 DEF InsertPlace, At, tables
  <2>3. CASE rows[req[r].place] = 0
    <3> DEFINE f == [req[r] EXCEPT !.pc = "findPlaceAgain"]
    <3>1. FrameOK(f) /\ f.place = req[r].place /\ f.pc = "findPlaceAgain"
      BY <2>1 DEF FrameOK
    <3>2. /\ rows' = [rows EXCEPT ![req[r].place] = 1] /\ UNCHANGED <<areas, reviews, arealess>>
          /\ req' = [req EXCEPT ![r] = f] /\ ~At(r, "insertArea")
      BY <1>6, <2>1, <2>3 DEF InsertPlace, Goto, At
    <3>3. /\ rows' \in [Places -> Nat] /\ rows'[f.place] = 1
          /\ \A x \in Places : rows'[x] \in {0, 1} /\ (rows[x] = 1 => rows'[x] = 1)
      BY <1>0, <2>1, <3>1, <3>2 DEF TypeOK, RowsOnce
    <3>4. areas \in [Users -> Nat] /\ reviews \in Seq(ReviewRows) /\ arealess \subseteq Users
      BY <1>0 DEF TypeOK
    <3>5. QED
      BY <3>1, <3>2, <3>3, <3>4, HandlerStep
  <2>4. QED
    BY <2>2, <2>3
<1>7. ASSUME NEW r \in Requests, FindPlaceAgain(r) PROVE IInv'
  <2>1. req[r].pc = "findPlaceAgain" /\ HeldOK(r) /\ UNCHANGED <<tables, arealess>>
    BY <1>0, <1>7 DEF FindPlaceAgain, At
  <2>2. QED
    BY <1>2, <1>3, <1>7, <2>1 DEF FindPlaceAgain, HeldOK, At
<1>8. ASSUME NEW r \in Requests, reviews' \in Seq(ReviewRows), Respond(r), UNCHANGED <<areas, rows, arealess>>,
             ~At(r, "insertArea"),
             \A i \in DOMAIN reviews :
               i \in DOMAIN reviews' /\ reviews'[i].author = reviews[i].author /\ reviews'[i].place = reviews[i].place,
             \A i \in DOMAIN reviews' : i \in DOMAIN reviews \/ rows[reviews'[i].place] = 1
      PROVE  IInv'
  <2>1. /\ areas \in [Users -> Nat] /\ rows \in [Places -> Nat] /\ arealess \subseteq Users
        /\ \A x \in Places : rows[x] \in {0, 1}
    BY <1>0 DEF TypeOK, RowsOnce
  <2>2. QED
    BY <1>8, <2>1, IdleOK, HandlerStep DEF Respond
<1>9. ASSUME NEW r \in Requests, SaveReview(r) PROVE IInv'
  <2> DEFINE review == [author |-> req[r].user, place |-> req[r].place, deleted |-> FALSE]
  <2>1. FrameOK(req[r]) /\ req[r].pc = "save" /\ HeldOK(r)
    BY <1>0, <1>9 DEF SaveReview, At, TypeOK
  <2>2. review \in ReviewRows /\ rows[req[r].place] = 1
    BY <2>1 DEF FrameOK, HeldOK, ReviewRows
  <2>3. reviews \in Seq(ReviewRows) /\ reviews' = Append(reviews, review) /\ Len(reviews) \in Nat
    BY <1>0, <1>9, LenProperties DEF SaveReview, TypeOK
  <2>4. /\ reviews' \in Seq(ReviewRows) /\ Len(reviews') = Len(reviews) + 1
        /\ \A i \in 1..Len(reviews) : reviews'[i] = reviews[i]
        /\ reviews'[Len(reviews) + 1] = review
    BY <2>2, <2>3, AppendProperties
  <2>5. DOMAIN reviews = 1..Len(reviews) /\ DOMAIN reviews' = 1..(Len(reviews) + 1)
    BY <2>3, <2>4, LenProperties
  <2>6. \A i \in DOMAIN reviews' : i \in DOMAIN reviews \/ i = Len(reviews) + 1
    BY <2>3, <2>5
  <2>7. \A i \in DOMAIN reviews : i \in DOMAIN reviews' /\ reviews'[i] = reviews[i]
    BY <2>3, <2>4, <2>5
  <2>8. QED
    BY <1>8, <1>9, <2>1, <2>2, <2>4, <2>6, <2>7 DEF SaveReview, At
<1>10. ASSUME NEW r \in Requests, ReadReview(r) PROVE IInv'
  <2>1. /\ FrameOK(req[r]) /\ req[r].pc \in {"readToUpdate", "readToDelete"}
        /\ UNCHANGED <<tables, arealess>>
    BY <1>0, <1>10 DEF ReadReview, At, TypeOK
  <2> DEFINE i == req[r].review
             Own == Live(i) /\ reviews[i].author = req[r].user
  <2>2. CASE ~Own
    BY <1>2, <1>10, <2>1, <2>2 DEF ReadReview, At
  <2>3. CASE Own
    <3>1. PICK step \in {"update", "mark"} :
            req' = [req EXCEPT ![r] = [[req[r] EXCEPT !.pc = step] EXCEPT !.place = reviews[i].place]]
      BY <1>10, <2>3 DEF ReadReview
    <3> DEFINE f == [[req[r] EXCEPT !.pc = step] EXCEPT !.place = reviews[i].place]
    <3>2. i \in DOMAIN reviews /\ reviews[i] \in ReviewRows
      BY <1>0, <2>3, ElementOfSeq, LenProperties DEF Live, TypeOK
    <3>3. /\ FrameOK(f) /\ f.pc = step /\ f.review = i
          /\ f.place = reviews[i].place /\ f.user = req[r].user
      BY <2>1, <3>2 DEF FrameOK, ReviewRows
    <3>4. ~At(r, "insertArea")
      BY <2>1 DEF At
    <3>5. QED
      BY <2>1, <2>3, <3>1, <3>3, <3>4, ReadingStep
  <2>4. QED
    BY <2>2, <2>3
<1>11. ASSUME NEW r \in Requests, UpdateReview(r) \/ MarkReview(r) PROVE IInv'
  <2> DEFINE i == req[r].review
  <2>1. FrameOK(req[r]) /\ req[r].pc \in {"update", "mark"} /\ HeldOK(r)
    BY <1>0, <1>11 DEF UpdateReview, MarkReview, At, TypeOK
  <2>2. i \in DOMAIN reviews /\ reviews[i].author = req[r].user /\ reviews[i].place = req[r].place
    BY <2>1 DEF FrameOK, HeldOK
  <2>3. reviews \in Seq(ReviewRows) /\ i \in 1..Len(reviews) /\ reviews[i] \in ReviewRows
    BY <1>0, <2>2, ElementOfSeq, LenProperties DEF TypeOK
  <2>4. PICK review \in ReviewRows : /\ reviews' = [reviews EXCEPT ![i] = review]
                                     /\ review.author = reviews[i].author /\ review.place = reviews[i].place
    <3>1. CASE UpdateReview(r)
      <4> DEFINE review == [[reviews[i] EXCEPT !.author = req[r].user] EXCEPT !.place = req[r].place]
      <4>1. review \in ReviewRows /\ review.author = req[r].user /\ review.place = req[r].place
        BY <2>2, <2>3 DEF ReviewRows
      <4>2. reviews' = [reviews EXCEPT ![i] = review]
        BY <3>1, <2>3 DEF UpdateReview
      <4>3. QED
        BY <2>2, <4>1, <4>2
    <3>2. CASE MarkReview(r)
      <4> DEFINE review == [reviews[i] EXCEPT !.deleted = TRUE]
      <4>1. review \in ReviewRows /\ review.author = reviews[i].author /\ review.place = reviews[i].place
        BY <2>3 DEF ReviewRows
      <4>2. reviews' = [reviews EXCEPT ![i] = review]
        BY <3>2 DEF MarkReview
      <4>3. QED
        BY <4>1, <4>2
    <3>3. QED
      BY <1>11, <3>1, <3>2
  <2>5. /\ reviews' \in Seq(ReviewRows) /\ Len(reviews') = Len(reviews)
        /\ \A j \in 1..Len(reviews) : reviews'[j] = IF j = i THEN review ELSE reviews[j]
    BY <2>3, <2>4, ExceptSeq
  <2>6. DOMAIN reviews = 1..Len(reviews) /\ DOMAIN reviews' = 1..Len(reviews)
    BY <2>3, <2>5, LenProperties
  <2>7. Respond(r) /\ UNCHANGED <<areas, rows, arealess>> /\ ~At(r, "insertArea")
    BY <1>11, <2>1 DEF UpdateReview, MarkReview, At
  <2>8. QED
    BY <1>8, <2>4, <2>5, <2>6, <2>7
<1>12. ASSUME NEW r \in Requests, DeleteAreas(r) PROVE IInv'
  <2> DEFINE f == [req[r] EXCEPT !.pc = "insertArea"]
  <2>1. FrameOK(req[r]) /\ req[r].pc = "deleteAreas" /\ req[r].user \in Users
    BY <1>0, <1>12 DEF DeleteAreas, At, TypeOK, FrameOK
  <2>2. FrameOK(f) /\ f.user = req[r].user /\ f.pc = "insertArea"
    BY <2>1 DEF FrameOK
  <2>3. /\ req' = [req EXCEPT ![r] = f] /\ areas' = [areas EXCEPT ![req[r].user] = 0]
        /\ UNCHANGED <<rows, reviews, arealess>> /\ ~At(r, "insertArea")
    BY <1>12, <2>1 DEF DeleteAreas, Goto, At
  <2>4. areas' \in [Users -> Nat] /\ \A u \in Users : areas'[u] = 0 => areas[u] = 0 \/ u = f.user
    BY <1>0, <2>1, <2>2, <2>3 DEF TypeOK
  <2>5. /\ rows \in [Places -> Nat] /\ reviews \in Seq(ReviewRows) /\ arealess \subseteq Users
        /\ \A x \in Places : rows[x] \in {0, 1}
    BY <1>0 DEF TypeOK, RowsOnce
  <2>6. QED
    BY <2>2, <2>3, <2>4, <2>5, HandlerStep
<1>13. ASSUME NEW r \in Requests, InsertArea(r) PROVE IInv'
  <2>1. req[r].user \in Users
    BY <1>0, <1>13 DEF InsertArea, At, TypeOK, FrameOK
  <2>2. areas' = [areas EXCEPT ![req[r].user] = @ + 1] /\ Respond(r) /\ UNCHANGED <<rows, reviews, arealess>>
    BY <1>13 DEF InsertArea
  <2>3. /\ areas' \in [Users -> Nat] /\ areas'[req[r].user] # 0
        /\ \A u \in Users : areas'[u] = 0 => areas[u] = 0
    BY <1>0, <2>1, <2>2 DEF TypeOK
  <2>4. /\ rows \in [Places -> Nat] /\ reviews \in Seq(ReviewRows) /\ arealess \subseteq Users
        /\ \A x \in Places : rows[x] \in {0, 1}
    BY <1>0 DEF TypeOK, RowsOnce
  <2>5. QED
    BY <2>2, <2>3, <2>4, IdleOK, HandlerStep DEF Respond
<1>14. ASSUME NEW r \in Requests, Abort(r) PROVE IInv'
  <2>1. /\ Respond(r) /\ UNCHANGED <<areas, rows, reviews>>
        /\ arealess' = IF At(r, "insertArea") THEN arealess \cup {req[r].user} ELSE arealess
    BY <1>14 DEF Abort, tables
  <2>2. At(r, "insertArea") => req[r].user \in Users
    BY <1>0 DEF At, TypeOK, FrameOK
  <2>3. /\ rows \in [Places -> Nat] /\ reviews \in Seq(ReviewRows) /\ areas \in [Users -> Nat]
        /\ arealess \subseteq arealess' /\ arealess' \subseteq Users
        /\ \A x \in Places : rows[x] \in {0, 1}
    BY <1>0, <2>1, <2>2 DEF TypeOK, RowsOnce
  <2>4. QED
    BY <2>1, <2>3, IdleOK, HandlerStep DEF Respond
<1>15. CASE UNCHANGED vars
  <2>1. UNCHANGED <<areas, rows, reviews, req, arealess>>
    BY <1>15 DEF vars, tables
  <2>2. TypeOK'
    BY <1>0, <2>1 DEF TypeOK, FrameOK
  <2>3. QED
    BY <1>0, <2>1, <2>2 DEF IInv, RowsOnce, ReviewHasItsPlace, AreaSurvives, HeldOK, At
<1>16. ASSUME NEW r \in Requests, NEW u \in Users,
              \/ \E x \in Places : Register(r, u, x)
              \/ \E i \in 1..MaxReviews : Update(r, u, i) \/ Delete(r, u, i)
              \/ ChangeArea(r, u)
       PROVE  IInv'
  <2>1. ASSUME NEW x \in Places, Register(r, u, x) PROVE IInv'
    <3> DEFINE f == [Idle EXCEPT !.pc = "area", !.user = u, !.place = x]
    <3>1. FrameOK(f) /\ f.pc = "area"
      BY DEF FrameOK, Idle
    <3>2. Receive(r, f)
      BY <2>1 DEF Register
    <3> HIDE DEF f
    <3>3. QED
      BY <1>1, <3>1, <3>2
  <2>2. ASSUME NEW i \in 1..MaxReviews, Update(r, u, i) PROVE IInv'
    <3> DEFINE f == [Idle EXCEPT !.pc = "readToUpdate", !.user = u, !.review = i]
    <3>1. FrameOK(f) /\ f.pc = "readToUpdate"
      BY DEF FrameOK, Idle
    <3>2. Receive(r, f)
      BY <2>2 DEF Update
    <3> HIDE DEF f
    <3>3. QED
      BY <1>1, <3>1, <3>2
  <2>3. ASSUME NEW i \in 1..MaxReviews, Delete(r, u, i) PROVE IInv'
    <3> DEFINE f == [Idle EXCEPT !.pc = "readToDelete", !.user = u, !.review = i]
    <3>1. FrameOK(f) /\ f.pc = "readToDelete"
      BY DEF FrameOK, Idle
    <3>2. Receive(r, f)
      BY <2>3 DEF Delete
    <3> HIDE DEF f
    <3>3. QED
      BY <1>1, <3>1, <3>2
  <2>4. ASSUME ChangeArea(r, u) PROVE IInv'
    <3> DEFINE f == [Idle EXCEPT !.pc = "deleteAreas", !.user = u]
    <3>1. FrameOK(f) /\ f.pc = "deleteAreas"
      BY DEF FrameOK, Idle
    <3>2. Receive(r, f)
      BY <2>4 DEF ChangeArea
    <3> HIDE DEF f
    <3>3. QED
      BY <1>1, <3>1, <3>2
  <2>5. QED
    BY <1>16, <2>1, <2>2, <2>3, <2>4
<1>17. ASSUME NEW r \in Requests, Work(r) PROVE IInv'
  BY <1>17, <1>4, <1>5, <1>6, <1>7, <1>9, <1>10, <1>11, <1>12, <1>13 DEF Work
<1>18. QED
  BY <1>14, <1>15, <1>16, <1>17 DEF Next

-----------------------------------------------------------------------------
(* Results.                                                                *)

(* The inductive invariant holds of every behaviour.                       *)
THEOREM InductiveInvariant == Spec => []IInv
BY InitIInv, NextIInv, PTL DEF Spec

(* The tables and the frames are of their types: an edit or a deletion     *)
(* holds a review there is.                                                *)
THEOREM TypeCorrect == Spec => []TypeOK
<1>1. IInv => TypeOK
  BY DEF IInv
<1>2. QED
  BY <1>1, InductiveInvariant, PTL

(* Every review, deleted or not, is about a restaurant registered once,    *)
(* however many first reviews of it race through                           *)
(* registerExternalRestaurantInformationWhenNoData.                        *)
THEOREM ReviewHasItsPlaceHolds == Spec => []ReviewHasItsPlace
<1>1. IInv => ReviewHasItsPlace
  BY DEF IInv
<1>2. QED
  BY <1>1, InductiveInvariant, PTL

(* Changes of area that race leave a member one, unless changeArea died    *)
(* between its delete and its insert.                                      *)
THEOREM AreaSurvivesHolds == Spec => []AreaSurvives
<1>1. IInv => AreaSurvives
  BY DEF IInv
<1>2. QED
  BY <1>1, InductiveInvariant, PTL

(* No step of any handler gives a review another author or restaurant,     *)
(* brings a deleted one back, or deletes one for anybody but its author.   *)
THEOREM ReviewsStayTheAuthorsHolds == Spec => ReviewsStayTheAuthors
<1> DEFINE Stays(i) ==
      /\ reviews'[i].author = reviews[i].author
      /\ reviews'[i].place = reviews[i].place
      /\ reviews[i].deleted => reviews'[i].deleted
      /\ ~reviews[i].deleted /\ reviews'[i].deleted =>
           \E r \in Requests : At(r, "mark") /\ req[r].user = reviews[i].author
<1>1. ASSUME IInv, Next, NEW i \in DOMAIN reviews PROVE Stays(i)
  <2>0. TypeOK /\ \A r \in Requests : HeldOK(r)
    BY <1>1 DEF IInv
  <2>1. /\ reviews \in Seq(ReviewRows) /\ Len(reviews) \in Nat
        /\ DOMAIN reviews = 1..Len(reviews) /\ reviews[i] \in ReviewRows
    BY <1>1, <2>0, ElementOfSeq, LenProperties DEF TypeOK
  <2>2. CASE UNCHANGED reviews
    BY <2>2
  <2>3. ASSUME NEW r \in Requests, SaveReview(r) PROVE Stays(i)
    <3> DEFINE review == [author |-> req[r].user, place |-> req[r].place, deleted |-> FALSE]
    <3>1. review \in ReviewRows /\ reviews' = Append(reviews, review)
      BY <2>0, <2>3 DEF SaveReview, At, TypeOK, FrameOK, RegisterSteps, ReviewRows
    <3>2. reviews'[i] = reviews[i]
      BY <1>1, <2>1, <3>1, AppendProperties
    <3>3. QED
      BY <3>2
  <2>4. ASSUME NEW r \in Requests, UpdateReview(r) PROVE Stays(i)
    <3>1. /\ reviews[req[r].review].author = req[r].user
          /\ reviews[req[r].review].place = req[r].place
      BY <2>0, <2>4 DEF UpdateReview, At, HeldOK
    <3>2. reviews' = [reviews EXCEPT ![req[r].review].author = req[r].user,
                                     ![req[r].review].place = req[r].place]
      BY <2>4 DEF UpdateReview
    <3>3. CASE i # req[r].review
      BY <1>1, <3>2, <3>3
    <3>4. CASE i = req[r].review
      <4>1. reviews'[i] = [[reviews[i] EXCEPT !.author = req[r].user] EXCEPT !.place = req[r].place]
        BY <1>1, <3>2, <3>4
      <4>2. /\ reviews'[i].author = req[r].user /\ reviews'[i].place = req[r].place
            /\ reviews'[i].deleted = reviews[i].deleted
        BY <2>1, <4>1 DEF ReviewRows
      <4>3. QED
        BY <3>1, <3>4, <4>2
    <3>5. QED
      BY <3>3, <3>4
  <2>5. ASSUME NEW r \in Requests, MarkReview(r) PROVE Stays(i)
    <3>1. At(r, "mark") /\ reviews[req[r].review].author = req[r].user
      BY <2>0, <2>5 DEF MarkReview, At, HeldOK
    <3>2. reviews' = [reviews EXCEPT ![req[r].review].deleted = TRUE]
      BY <2>5 DEF MarkReview
    <3>3. CASE i # req[r].review
      BY <1>1, <3>2, <3>3
    <3>4. CASE i = req[r].review
      <4>1. reviews'[i] = [reviews[i] EXCEPT !.deleted = TRUE]
        BY <1>1, <3>2, <3>4
      <4>2. /\ reviews'[i].author = reviews[i].author /\ reviews'[i].place = reviews[i].place
            /\ reviews'[i].deleted
        BY <2>1, <4>1 DEF ReviewRows
      <4>3. QED
        BY <3>1, <3>4, <4>2
    <3>5. QED
      BY <3>3, <3>4
  <2>6. ASSUME NEW r \in Requests, Work(r) PROVE Stays(i)
    <3>1. \/ UNCHANGED reviews \/ SaveReview(r) \/ UpdateReview(r) \/ MarkReview(r)
      BY <2>6 DEF Work, CheckArea, FindPlace, InsertPlace, FindPlaceAgain, ReadReview, DeleteAreas,
                  InsertArea, tables
    <3>2. QED
      BY <2>2, <2>3, <2>4, <2>5, <3>1
  <2>7. ASSUME NEW r \in Requests, Abort(r) PROVE Stays(i)
    BY <2>2, <2>7 DEF Abort, tables
  <2>8. CASE \E r \in Requests :
               \/ \E u \in Users, x \in Places : Register(r, u, x)
               \/ \E u \in Users, j \in 1..MaxReviews : Update(r, u, j) \/ Delete(r, u, j)
               \/ \E u \in Users : ChangeArea(r, u)
    <3>1. UNCHANGED tables
      BY <2>8 DEF Register, Update, Delete, ChangeArea, Receive
    <3>2. QED
      BY <2>2, <3>1 DEF tables
  <2>9. QED
    BY <1>1, <2>6, <2>7, <2>8 DEF Next
<1>2. IInv /\ [Next]_vars => [\A i \in DOMAIN reviews : Stays(i)]_vars
  BY <1>1
<1>3. QED
  BY <1>2, InductiveInvariant, PTL DEF Spec, ReviewsStayTheAuthors

-----------------------------------------------------------------------------
(* Reactions (Feedback)                                                    *)

TaskOK(f) ==
  f = F!Idle \/ f \in [pc: {"read", "write"}, pair: F!Pairs, type: F!Types \cup {F!None}]

(* A reaction whose put is certain is the work of one task at most, which  *)
(* is to write it.                                                         *)
OneTaskAtMost ==
  \A p \in F!Pairs, t \in Requests :
    wished[p] # F!Unknown /\ F!Reacting(t, p) =>
      task[t].type = wished[p] /\ \A s \in Requests \ {t} : ~F!Reacting(s, p)

FeedbackInv == F!TypeOK /\ DOMAIN task = Requests /\ OneTaskAtMost /\ F!LastPutCounts

LEMMA FeedbackInit == F!Init => FeedbackInv
BY DEF F!Init, FeedbackInv, F!TypeOK, F!Idle, F!Reacting, OneTaskAtMost, F!LastPutCounts

(* The task t ends, after it has left its reaction alone, unless its       *)
(* review is gone, its wish is uncertain or it has written it.             *)
LEMMA TaskEnds ==
  ASSUME FeedbackInv, NEW t \in Requests, task[t] # F!Idle, F!End(t),
         live' = live,
         \A p \in F!Pairs \ {task[t].pair} : reactions'[p] = reactions[p] /\ wished'[p] = wished[p],
         reactions' \in [F!Pairs -> F!Types \cup {F!None}],
         wished' \in [F!Pairs -> F!Types \cup {F!None, F!Unknown}],
         \/ wished'[task[t].pair] = F!Unknown
         \/ /\ wished'[task[t].pair] = wished[task[t].pair]
            /\ task[t].pair[2] \in live => reactions'[task[t].pair] = task[t].type
  PROVE  FeedbackInv'
<1>1. /\ task'[t] = F!Idle /\ \A s \in Requests \ {t} : task'[s] = task[s]
      /\ DOMAIN task' = Requests
  BY DEF FeedbackInv, F!End
<1>2. task[t].pair \in F!Pairs
  BY DEF FeedbackInv, F!TypeOK
<1>3. F!TypeOK'
  BY <1>1 DEF FeedbackInv, F!TypeOK
<1>4. OneTaskAtMost'
  BY <1>1 DEF FeedbackInv, OneTaskAtMost, F!Reacting
<1>5. F!LastPutCounts'
  <2> SUFFICES ASSUME NEW p \in F!Pairs, p[2] \in live, wished'[p] # F!Unknown,
                      \A s \in Requests : ~F!Reacting(s, p)'
               PROVE  reactions'[p] = wished'[p]
    BY DEF F!LastPutCounts
  <2>1. CASE p = task[t].pair
    BY <1>2, <2>1 DEF FeedbackInv, OneTaskAtMost, F!Reacting
  <2>2. CASE p # task[t].pair
    <3>1. \A s \in Requests : ~F!Reacting(s, p)
      BY <1>1, <2>2 DEF F!Reacting
    <3>2. QED
      BY <2>2, <3>1 DEF FeedbackInv, F!LastPutCounts
  <2>3. QED
    BY <2>1, <2>2
<1>6. QED
  BY <1>1, <1>3, <1>4, <1>5 DEF FeedbackInv

LEMMA FeedbackNext == FeedbackInv /\ [F!Next]_F!vars => FeedbackInv'
<1> SUFFICES ASSUME FeedbackInv, [F!Next]_F!vars PROVE FeedbackInv'
  OBVIOUS
<1>0. F!TypeOK /\ DOMAIN task = Requests /\ OneTaskAtMost /\ F!LastPutCounts
  BY DEF FeedbackInv
<1>1. ASSUME NEW t \in Requests, NEW p \in F!Pairs, NEW type \in F!Types \cup {F!None},
             F!Put(t, p, type)
      PROVE  FeedbackInv'
  <2> DEFINE f == [[[F!Idle EXCEPT !.pc = "read"] EXCEPT !.pair = p] EXCEPT !.type = type]
  <2>1. /\ f \in [pc: {"read", "write"}, pair: F!Pairs, type: F!Types \cup {F!None}]
        /\ f.pair = p /\ f.type = type /\ f # F!Idle
    BY DEF F!Idle
  <2>2. task[t] = F!Idle /\ task' = [task EXCEPT ![t] = f] /\ UNCHANGED <<live, reactions>>
    BY <1>1 DEF F!Put
  <2> HIDE DEF f
  <2>3. /\ task'[t] = f /\ \A s \in Requests \ {t} : task'[s] = task[s]
        /\ DOMAIN task' = Requests
    BY <1>0, <2>2
  <2>4. /\ \A q \in F!Pairs \ {p} : wished'[q] = wished[q]
        /\ wished'[p] = IF \E s \in Requests : F!Reacting(s, p) THEN F!Unknown ELSE type
        /\ wished' \in [F!Pairs -> F!Types \cup {F!None, F!Unknown}]
    BY <1>0, <1>1 DEF F!Put, F!TypeOK
  <2>5. F!TypeOK'
    BY <1>0, <2>1, <2>2, <2>3, <2>4 DEF F!TypeOK
  <2>6. \A q \in F!Pairs, s \in Requests :
          F!Reacting(s, q)' <=> IF s = t THEN q = p ELSE F!Reacting(s, q)
    BY <2>1, <2>3 DEF F!Reacting
  <2>7. \A q \in F!Pairs : ~F!Reacting(t, q)
    BY <2>2 DEF F!Reacting
  <2>8. OneTaskAtMost'
    <3> SUFFICES ASSUME NEW q \in F!Pairs, NEW s \in Requests,
                        wished'[q] # F!Unknown, F!Reacting(s, q)'
                 PROVE  task'[s].type = wished'[q]
                          /\ \A o \in Requests \ {s} : ~F!Reacting(o, q)'
      BY DEF OneTaskAtMost
    <3>1. CASE q = p
      <4>1. \A o \in Requests : ~F!Reacting(o, p)
        BY <2>4, <3>1
      <4>2. s = t
        BY <2>6, <3>1, <4>1
      <4>3. QED
        BY <2>1, <2>3, <2>4, <2>6, <3>1, <4>1, <4>2
    <3>2. CASE q # p
      <4>1. s # t /\ F!Reacting(s, q) /\ wished'[q] = wished[q]
        BY <2>4, <2>6, <3>2
      <4>2. QED
        BY <1>0, <2>3, <2>6, <3>2, <4>1 DEF OneTaskAtMost
    <3>3. QED
      BY <3>1, <3>2
  <2>9. F!LastPutCounts'
    <3> SUFFICES ASSUME NEW q \in F!Pairs, q[2] \in live, wished'[q] # F!Unknown,
                        \A s \in Requests : ~F!Reacting(s, q)'
                 PROVE  reactions[q] = wished'[q]
      BY <2>2 DEF F!LastPutCounts
    <3>1. q # p /\ \A s \in Requests : ~F!Reacting(s, q)
      BY <2>6, <2>7
    <3>2. QED
      BY <1>0, <2>4, <3>1 DEF F!LastPutCounts
  <2>10. QED
    BY <2>3, <2>5, <2>8, <2>9 DEF FeedbackInv
<1>2. ASSUME NEW t \in Requests, F!ReadReview(t) PROVE FeedbackInv'
  <2>1. CASE task[t].pair[2] \in live
    <3>1. /\ task[t] # F!Idle
          /\ task' = [task EXCEPT ![t].pc = "write"] /\ UNCHANGED <<live, reactions, wished>>
      BY <1>2, <2>1 DEF F!ReadReview, F!Goto, F!At, F!Idle
    <3>2. /\ task[t] \in [pc: {"read", "write"}, pair: F!Pairs, type: F!Types \cup {F!None}]
      BY <1>0, <3>1 DEF F!TypeOK
    <3>3. /\ \A s \in Requests \ {t} : task'[s] = task[s]
          /\ task'[t].pc = "write" /\ task'[t].pair = task[t].pair /\ task'[t].type = task[t].type
          /\ task'[t] \in [pc: {"read", "write"}, pair: F!Pairs, type: F!Types \cup {F!None}]
          /\ DOMAIN task' = Requests
      BY <1>0, <3>1, <3>2
    <3>4. \A s \in Requests, q \in F!Pairs : F!Reacting(s, q)' <=> F!Reacting(s, q)
      BY <3>1, <3>3 DEF F!Reacting, F!Idle
    <3>5. F!TypeOK'
      BY <1>0, <3>1, <3>3 DEF F!TypeOK
    <3>6. OneTaskAtMost'
      BY <1>0, <3>1, <3>3, <3>4 DEF OneTaskAtMost
    <3>7. F!LastPutCounts'
      BY <1>0, <3>1, <3>4 DEF F!LastPutCounts
    <3>8. QED
      BY <3>3, <3>5, <3>6, <3>7 DEF FeedbackInv
  <2>2. CASE task[t].pair[2] \notin live
    <3>1. F!End(t) /\ task[t] # F!Idle /\ UNCHANGED <<live, reactions, wished>>
      BY <1>2, <2>2 DEF F!ReadReview, F!At, F!Idle
    <3>2. QED
      BY <1>0, <2>2, <3>1, TaskEnds DEF F!TypeOK
  <2>3. QED
    BY <2>1, <2>2
<1>3. ASSUME NEW t \in Requests, F!WriteReaction(t) PROVE FeedbackInv'
  <2>1. /\ task[t] # F!Idle /\ F!End(t) /\ UNCHANGED <<live, wished>>
        /\ reactions' = [reactions EXCEPT ![task[t].pair] = task[t].type]
    BY <1>3 DEF F!WriteReaction, F!At, F!Idle
  <2>2. task[t].pair \in F!Pairs /\ task[t].type \in F!Types \cup {F!None}
    BY <1>0, <2>1 DEF F!TypeOK
  <2>3. /\ \A p \in F!Pairs \ {task[t].pair} : reactions'[p] = reactions[p]
        /\ reactions'[task[t].pair] = task[t].type
        /\ reactions' \in [F!Pairs -> F!Types \cup {F!None}]
    BY <1>0, <2>1, <2>2 DEF F!TypeOK
  <2>4. QED
    BY <1>0, <2>1, <2>3, TaskEnds DEF F!TypeOK
<1>4. ASSUME NEW t \in Requests, F!Abort(t) PROVE FeedbackInv'
  <2>1. /\ task[t] # F!Idle /\ F!End(t) /\ UNCHANGED <<live, reactions>>
        /\ wished' = [wished EXCEPT ![task[t].pair] = F!Unknown]
    BY <1>4 DEF F!Abort
  <2>2. task[t].pair \in F!Pairs
    BY <1>0, <2>1 DEF F!TypeOK
  <2>3. /\ \A p \in F!Pairs \ {task[t].pair} : wished'[p] = wished[p]
        /\ wished'[task[t].pair] = F!Unknown
        /\ wished' \in [F!Pairs -> F!Types \cup {F!None, F!Unknown}]
    BY <1>0, <2>1, <2>2 DEF F!TypeOK
  <2>4. QED
    BY <1>0, <2>1, <2>3, TaskEnds DEF F!TypeOK
<1>5. ASSUME NEW v \in ReviewIds, F!DeleteReview(v) PROVE FeedbackInv'
  <2>1. live' \subseteq live /\ UNCHANGED <<reactions, task, wished>>
    BY <1>5 DEF F!DeleteReview
  <2>2. F!TypeOK'
    BY <1>0, <2>1 DEF F!TypeOK
  <2>3. OneTaskAtMost' /\ F!LastPutCounts'
    BY <1>0, <2>1 DEF OneTaskAtMost, F!LastPutCounts, F!Reacting
  <2>4. QED
    BY <1>0, <2>1, <2>2, <2>3 DEF FeedbackInv
<1>6. CASE UNCHANGED F!vars
  BY <1>0, <1>6 DEF F!vars, FeedbackInv, F!TypeOK, OneTaskAtMost, F!LastPutCounts, F!Reacting
<1>7. QED
  BY <1>1, <1>2, <1>3, <1>4, <1>5, <1>6 DEF F!Next

-----------------------------------------------------------------------------
(* Reports (Reports)                                                       *)

KeyOfSent(s) == <<s.by, s.at>>

(* A report sends one image, under the key that its handler holds until    *)
(* the report is saved and that is saved with it; uploads are of images    *)
(* that were sent, to the key they were sent for.                          *)
SentOnce ==
  /\ \A s, q \in sent : s.image = q.image => s = q
  /\ \A s \in sent : LET f == sreq[s.image] IN
       f.pc \in {"save", "done"} /\ (f.pc = "save" => f.key = KeyOfSent(s))
  /\ \A v \in reports : sreq[v.report].pc = "done"
  /\ \A v \in reports, s \in sent : s.image = v.report => v.key = KeyOfSent(s)
  /\ \A o \in uploads : \E s \in sent : s.image = o.image /\ o.key = KeyOfSent(s)

(* What is promised of a report, of every image from the time it is sent.  *)
Arrives(s) ==
  \/ images[KeyOfSent(s)] = s.image \/ s.image \in failed
  \/ \E o \in uploads : o.image = s.image
  \/ \E q \in sent : q # s /\ q.by = s.by /\ q.at = s.at

ReportsInv == S!TypeOK /\ DOMAIN sreq = Requests /\ SentOnce /\ \A s \in sent : Arrives(s)

LEMMA ReportsInit == S!Init => ReportsInv
BY RestaurantsAssumption DEF S!Init, ReportsInv, S!TypeOK, S!Idle, SentOnce, S!ReportsAssumption

LEMMA ReportsImply == ReportsInv => S!ImagesAreTheReporters
<1> SUFFICES ASSUME ReportsInv, NEW v \in reports, NEW s \in sent, s.image = v.report
             PROVE  \/ images[v.key] = v.report \/ v.report \in failed
                    \/ \E o \in uploads : o.image = v.report
                    \/ \E q \in sent : q # s /\ q.by = s.by /\ q.at = s.at
  BY DEF S!ImagesAreTheReporters
<1>1. v.key = KeyOfSent(s) /\ Arrives(s)
  BY DEF ReportsInv, SentOnce
<1>2. QED
  BY <1>1 DEF Arrives

(* A step of the report r that sends no image.                             *)
LEMMA ReportGoesOn ==
  ASSUME ReportsInv, NEW r \in Requests, NEW f,
         sreq' = [sreq EXCEPT ![r] = f],
         f \in [pc: S!Steps, user: Users, key: S!Keys \cup {S!NoKey}],
         f.key = sreq[r].key,
         UNCHANGED <<open, S!bucket, now>>,
         \/ f.pc \in {"read", "discord"} /\ sreq[r].pc \in {"idle", "read"} /\ reports' = reports
         \/ f.pc = "save" /\ sreq[r].pc = "discord" /\ reports' = reports
         \/ f.pc = "done" /\ reports' = reports
         \/ /\ f.pc = "done" /\ sreq[r].pc = "save"
            /\ reports' = reports \cup {[report |-> r, key |-> sreq[r].key]}
  PROVE  ReportsInv'
<1>0. S!TypeOK /\ DOMAIN sreq = Requests /\ SentOnce /\ \A s \in sent : Arrives(s)
  BY DEF ReportsInv
<1>1. /\ sreq'[r] = f /\ \A q \in Requests \ {r} : sreq'[q] = sreq[q]
      /\ DOMAIN sreq' = Requests
  BY <1>0
<1>2. UNCHANGED <<images, uploads, sent, failed>>
  BY DEF S!bucket
<1>3. reports' \subseteq [report: Requests, key: S!Keys \cup {S!NoKey}]
  <2>1. f.key \in S!Keys \cup {S!NoKey}
    OBVIOUS
  <2>2. QED
    BY <1>0, <2>1 DEF S!TypeOK
<1>4. S!TypeOK'
  BY <1>0, <1>1, <1>2, <1>3 DEF S!TypeOK
<1>5. SentOnce'
  <2>1. \A s \in sent' : s \in sent /\ s.image \in Requests
    BY <1>0, <1>2 DEF S!TypeOK
  <2>2. (\A s, q \in sent : s.image = q.image => s = q)'
    BY <1>0, <1>2 DEF SentOnce
  <2>3. ASSUME NEW s \in sent
        PROVE  /\ sreq'[s.image].pc \in {"save", "done"}
               /\ sreq'[s.image].pc = "save" => sreq'[s.image].key = KeyOfSent(s)
    <3>1. /\ sreq[s.image].pc \in {"save", "done"}
          /\ sreq[s.image].pc = "save" => sreq[s.image].key = KeyOfSent(s)
      BY <1>0 DEF SentOnce
    <3>2. s.image \in Requests
      BY <1>2, <2>1
    <3>3. CASE s.image # r
      BY <1>1, <3>1, <3>2, <3>3
    <3>4. CASE s.image = r
      BY <1>1, <3>1, <3>4
    <3>5. QED
      BY <3>3, <3>4
  <2>4. ASSUME NEW v \in reports'
        PROVE  /\ sreq'[v.report].pc = "done"
               /\ \A s \in sent : s.image = v.report => v.key = KeyOfSent(s)
    <3>1. CASE v \in reports
      <4>1. /\ sreq[v.report].pc = "done" /\ v.report \in Requests
            /\ \A s \in sent : s.image = v.report => v.key = KeyOfSent(s)
        BY <1>0, <3>1 DEF SentOnce, S!TypeOK
      <4>2. QED
        BY <1>1, <4>1
    <3>2. CASE v \notin reports
      <4>1. /\ f.pc = "done" /\ sreq[r].pc = "save"
            /\ v = [report |-> r, key |-> sreq[r].key]
        BY <3>2
      <4>2. v.report = r /\ v.key = sreq[r].key
        BY <4>1
      <4>3. QED
        BY <1>0, <1>1, <4>1, <4>2 DEF SentOnce
    <3>3. QED
      BY <3>1, <3>2
  <2>5. (\A o \in uploads : \E s \in sent : s.image = o.image /\ o.key = KeyOfSent(s))'
    BY <1>0, <1>2 DEF SentOnce, KeyOfSent
  <2>6. QED
    BY <1>2, <2>2, <2>3, <2>4, <2>5 DEF SentOnce, KeyOfSent
<1>6. (\A s \in sent : Arrives(s))'
  BY <1>0, <1>2 DEF Arrives, KeyOfSent
<1>7. QED
  BY <1>1, <1>4, <1>5, <1>6 DEF ReportsInv

(* The image of the report r is sent, under the key of its user and now.   *)
LEMMA ReportSends ==
  ASSUME ReportsInv, NEW r \in Requests, NEW f, NEW s, NEW o,
         sreq[r].pc = "discord", sreq' = [sreq EXCEPT ![r] = f],
         f \in [pc: S!Steps, user: Users, key: S!Keys \cup {S!NoKey}],
         f.pc = "save" /\ f.key = <<s.by, s.at>>,
         s \in [by: Users, at: 0..MaxNow, image: Requests], s.image = r,
         sent' = sent \cup {s},
         o \in [key: S!Keys, image: Requests], o.key = f.key, o.image = r,
         uploads' = uploads \cup {o},
         UNCHANGED <<open, reports, images, failed, now>>
  PROVE  ReportsInv'
<1>0. S!TypeOK /\ DOMAIN sreq = Requests /\ SentOnce /\ \A q \in sent : Arrives(q)
  BY DEF ReportsInv
<1>1. /\ sreq'[r] = f /\ \A q \in Requests \ {r} : sreq'[q] = sreq[q]
      /\ DOMAIN sreq' = Requests
  BY <1>0
<1>2. S!TypeOK'
  BY <1>0, <1>1 DEF S!TypeOK
<1>3. \A q \in sent : q.image # r /\ q.image \in Requests
  BY <1>0 DEF SentOnce, S!TypeOK
<1>4. SentOnce'
  <2>1. (\A p, q \in sent : p.image = q.image => p = q)'
    BY <1>0, <1>3 DEF SentOnce
  <2>2. ASSUME NEW q \in sent'
        PROVE  /\ sreq'[q.image].pc \in {"save", "done"}
               /\ sreq'[q.image].pc = "save" => sreq'[q.image].key = KeyOfSent(q)
    <3>1. CASE q = s
      BY <1>1, <3>1 DEF KeyOfSent
    <3>2. CASE q # s
      BY <1>0, <1>1, <1>3, <3>2 DEF SentOnce
    <3>3. QED
      BY <3>1, <3>2
  <2>3. ASSUME NEW v \in reports
        PROVE  /\ sreq'[v.report].pc = "done"
               /\ \A q \in sent' : q.image = v.report => v.key = KeyOfSent(q)
    <3>1. /\ sreq[v.report].pc = "done" /\ v.report \in Requests
          /\ \A q \in sent : q.image = v.report => v.key = KeyOfSent(q)
      BY <1>0 DEF SentOnce, S!TypeOK
    <3>2. QED
      BY <1>1, <3>1
  <2>4. ASSUME NEW p \in uploads' PROVE \E q \in sent' : q.image = p.image /\ p.key = KeyOfSent(q)
    <3>1. CASE p \in uploads
      BY <1>0, <3>1 DEF SentOnce
    <3>2. CASE p = o
      BY <3>2 DEF KeyOfSent
    <3>3. QED
      BY <3>1, <3>2
  <2>5. QED
    BY <2>1, <2>2, <2>3, <2>4 DEF SentOnce, KeyOfSent
<1>5. ASSUME NEW q \in sent' PROVE Arrives(q)'
  <2>1. CASE q \in sent
    <3>1. Arrives(q)
      BY <1>0, <2>1
    <3>2. QED
      BY <3>1 DEF Arrives, KeyOfSent
  <2>2. CASE q = s
    BY <2>2 DEF Arrives
  <2>3. QED
    BY <2>1, <2>2
<1>6. QED
  BY <1>1, <1>2, <1>4, <1>5 DEF ReportsInv

(* An upload that arrives replaces the object under its key: an image that *)
(* was there was sent by the same user in the same millisecond.            *)
LEMMA UploadArrives == ASSUME ReportsInv, NEW o \in uploads, S!Upload(o) PROVE ReportsInv'
<1>0. S!TypeOK /\ DOMAIN sreq = Requests /\ SentOnce /\ \A s \in sent : Arrives(s)
  BY DEF ReportsInv
<1>1. /\ uploads' = uploads \ {o} /\ UNCHANGED <<open, sreq, reports, sent, now>>
      /\ \/ images' = [images EXCEPT ![o.key] = o.image] /\ failed' = failed
         \/ failed' = failed \cup {o.image} /\ images' = images
  BY DEF S!Upload
<1>2. o.key \in S!Keys /\ o.image \in Requests
  BY <1>0 DEF S!TypeOK
<1>3. PICK q \in sent : q.image = o.image /\ o.key = KeyOfSent(q)
  BY <1>0 DEF SentOnce
<1>4. /\ \A k \in S!Keys \ {o.key} : images'[k] = images[k]
      /\ images' \in [S!Keys -> Requests \cup {S!None}]
      /\ images'[o.key] = o.image \/ (o.image \in failed' /\ images' = images)
  BY <1>0, <1>1, <1>2 DEF S!TypeOK
<1>5. failed \subseteq failed' /\ failed' \subseteq Requests
  BY <1>0, <1>1, <1>2 DEF S!TypeOK
<1>6. S!TypeOK'
  BY <1>0, <1>1, <1>4, <1>5 DEF S!TypeOK
<1>7. SentOnce'
  BY <1>0, <1>1 DEF SentOnce, KeyOfSent
<1>8. ASSUME NEW s \in sent PROVE Arrives(s)'
  <2>1. CASE s = q
    BY <1>1, <1>3, <1>4, <2>1 DEF Arrives, KeyOfSent
  <2>2. CASE s # q
    <3>1. s.image # o.image /\ Arrives(s) /\ KeyOfSent(s) \in S!Keys
      BY <1>0, <1>3, <2>2 DEF SentOnce, S!TypeOK, KeyOfSent, S!Keys
    <3>2. (\E p \in uploads : p.image = s.image) => \E p \in uploads' : p.image = s.image
      BY <1>1, <3>1
    <3>3. CASE KeyOfSent(s) = o.key
      <4>1. q.by = s.by /\ q.at = s.at
        BY <1>3, <3>3 DEF KeyOfSent
      <4>2. QED
        BY <1>1, <2>2, <4>1 DEF Arrives
    <3>4. CASE KeyOfSent(s) # o.key
      <4>1. images'[KeyOfSent(s)] = images[KeyOfSent(s)]
        BY <1>4, <3>1, <3>4
      <4>2. QED
        BY <1>1, <1>5, <3>1, <3>2, <4>1 DEF Arrives, KeyOfSent
    <3>5. QED
      BY <3>3, <3>4
  <2>3. QED
    BY <2>1, <2>2
<1>9. QED
  BY <1>0, <1>1, <1>6, <1>7, <1>8 DEF ReportsInv

LEMMA ReportsNext == ReportsInv /\ [S!Next]_S!vars => ReportsInv'
<1> SUFFICES ASSUME ReportsInv, [S!Next]_S!vars PROVE ReportsInv'
  OBVIOUS
<1>0. S!TypeOK /\ DOMAIN sreq = Requests /\ SentOnce /\ \A s \in sent : Arrives(s)
  BY DEF ReportsInv
<1> DEFINE Frames == [pc: S!Steps, user: Users, key: S!Keys \cup {S!NoKey}]
<1>1. ASSUME NEW r \in Requests, NEW u \in Users, S!Report(r, u) PROVE ReportsInv'
  <2> DEFINE f == [[S!Idle EXCEPT !.pc = "read"] EXCEPT !.user = u]
  <2>1. f \in Frames /\ f.pc = "read" /\ f.key = S!Idle.key /\ S!Idle.pc = "idle"
    BY DEF S!Idle, S!Steps
  <2>2. /\ sreq[r] = S!Idle /\ sreq' = [sreq EXCEPT ![r] = f]
        /\ UNCHANGED <<open, reports, S!bucket, now>>
    BY <1>1 DEF S!Report
  <2> HIDE DEF f
  <2>3. QED
    BY <2>1, <2>2, ReportGoesOn
<1>2. ASSUME NEW r \in Requests, NEW step \in S!Steps, sreq[r].pc \in S!Steps, S!Goto(r, step),
             UNCHANGED <<open, S!bucket, now>>,
             \/ step = "discord" /\ sreq[r].pc = "read" /\ reports' = reports
             \/ step = "save" /\ sreq[r].pc = "discord" /\ reports' = reports
             \/ step = "done" /\ reports' = reports
             \/ /\ step = "done" /\ sreq[r].pc = "save"
                /\ reports' = reports \cup {[report |-> r, key |-> sreq[r].key]}
      PROVE  ReportsInv'
  <2> DEFINE f == [sreq[r] EXCEPT !.pc = step]
  <2>1. sreq[r] \in Frames
    BY <1>0, <1>2 DEF S!TypeOK, S!Idle, S!Steps
  <2>2. f \in Frames /\ f.pc = step /\ f.key = sreq[r].key
    BY <2>1
  <2>3. sreq' = [sreq EXCEPT ![r] = f]
    BY <1>2 DEF S!Goto
  <2> HIDE DEF f
  <2>4. QED
    BY <1>2, <2>2, <2>3, ReportGoesOn
<1>3. ASSUME NEW r \in Requests, S!ReadReview(r) \/ S!SaveReport(r) \/ S!Abort(r) PROVE ReportsInv'
  BY <1>2, <1>3 DEF S!ReadReview, S!SaveReport, S!Abort, S!At, S!Steps
<1>4. ASSUME NEW r \in Requests, S!SendDiscord(r) PROVE ReportsInv'
  <2>1. CASE S!Goto(r, "save") /\ UNCHANGED S!bucket
    BY <1>2, <1>4, <2>1 DEF S!SendDiscord, S!At, S!Steps
  <2>2. CASE ~(S!Goto(r, "save") /\ UNCHANGED S!bucket)
    <3> DEFINE u == sreq[r].user
               f == [[sreq[r] EXCEPT !.pc = "save"] EXCEPT !.key = S!Key(u)]
               s == [by |-> u, at |-> now, image |-> r]
               o == [key |-> S!Key(u), image |-> r]
    <3>1. sreq[r] \in Frames /\ now \in 0..MaxNow /\ sreq[r].pc = "discord"
      BY <1>0, <1>4 DEF S!TypeOK, S!SendDiscord, S!At, S!Idle, S!Steps
    <3>2. S!Key(u) \in S!Keys /\ S!Key(u) = <<s.by, s.at>>
      BY <3>1 DEF S!Key, S!Keys
    <3>3. f \in Frames /\ f.pc = "save" /\ f.key = S!Key(u)
      BY <3>1, <3>2 DEF S!Steps
    <3>4. /\ s \in [by: Users, at: 0..MaxNow, image: Requests] /\ s.image = r
          /\ o \in [key: S!Keys, image: Requests] /\ o.key = S!Key(u) /\ o.image = r
      BY <3>1, <3>2
    <3>5. /\ sreq' = [sreq EXCEPT ![r] = f] /\ sent' = sent \cup {s}
          /\ uploads' = uploads \cup {o}
          /\ UNCHANGED <<open, reports, images, failed, now>>
      BY <1>4, <2>2 DEF S!SendDiscord
    <3> HIDE DEF f, s, o
    <3>6. QED
      BY <3>1, <3>2, <3>3, <3>4, <3>5, ReportSends
  <2>3. QED
    BY <2>1, <2>2
<1>5. CASE S!DeleteReview \/ S!Tick \/ UNCHANGED S!vars
  <2>1. /\ UNCHANGED <<sreq, reports, images, uploads, sent, failed>>
        /\ open' \in BOOLEAN /\ now' \in 0..MaxNow
    <3>1. MaxNow \in Nat /\ now \in 0..MaxNow /\ open \in BOOLEAN
      BY <1>0, RestaurantsAssumption DEF S!TypeOK, S!ReportsAssumption
    <3>2. CASE S!DeleteReview
      BY <3>1, <3>2 DEF S!DeleteReview, S!bucket
    <3>3. CASE S!Tick
      BY <3>1, <3>3 DEF S!Tick, S!bucket
    <3>4. CASE UNCHANGED S!vars
      BY <3>1, <3>4 DEF S!vars, S!bucket
    <3>5. QED
      BY <1>5, <3>2, <3>3, <3>4
  <2>2. S!TypeOK'
    BY <1>0, <2>1 DEF S!TypeOK
  <2>3. SentOnce' /\ \A s \in sent : Arrives(s)'
    BY <1>0, <2>1 DEF SentOnce, Arrives, KeyOfSent
  <2>4. QED
    BY <1>0, <2>1, <2>2, <2>3 DEF ReportsInv
<1>6. QED
  BY <1>1, <1>3, <1>4, <1>5, UploadArrives DEF S!Next

-----------------------------------------------------------------------------
(* The import of shops (SbizImport)                                        *)

LEMMA LeastOf == ASSUME NEW W \in SUBSET Nat, W # {} PROVE \E x \in W : \A y \in W : x <= y
<1>1. PICK x \in W : \A y \in W : <<y, x>> \notin OpToRel(<, Nat)
  BY WFMin, NatLessThanWellFounded
<1>2. ASSUME NEW y \in W PROVE ~(y < x)
  <2>1. y \in Nat /\ x \in Nat /\ <<y, x>> \notin {ss \in Nat \X Nat : ss[1] < ss[2]}
    BY <1>1 DEF OpToRel
  <2>2. <<y, x>> \in Nat \X Nat /\ <<y, x>>[1] = y /\ <<y, x>>[2] = x
    BY <2>1
  <2>3. QED
    BY <2>1, <2>2, Zenon
<1>3. \A y \in W : x <= y
  BY <1>2
<1>4. QED
  BY <1>3

LEMMA GreatestOf ==
  ASSUME NEW b \in Nat, NEW W \in SUBSET (0..b), W # {}
  PROVE  \E x \in W : \A y \in W : y <= x
<1>1. PICK T : T = {b - s : s \in W}
  OBVIOUS
<1>2. T \in SUBSET Nat /\ T # {}
  <2>1. \A s \in W : b - s \in Nat
    OBVIOUS
  <2>2. QED
    BY <1>1, <2>1
<1>3. PICK t \in T : \A u \in T : t <= u
  BY <1>2, LeastOf
<1>4. PICK x \in W : t = b - x
  BY <1>1
<1>5. ASSUME NEW y \in W PROVE y <= x
  <2>1. b - y \in T
    BY <1>1
  <2>2. b - x <= b - y
    BY <1>3, <1>4, <2>1
  <2>3. QED
    BY <2>2
<1>6. QED
  BY <1>5

LEMMA CountsAlike == \A W : I!Cardinality(W) = Cardinality(W)
BY DEF I!Cardinality, Cardinality

LEMMA ImportNumbers ==
  /\ BatchSize \in Nat \ {0} /\ MaxStarts \in Nat
  /\ \A e \in Editions : e \in Seq(Seq(I!Lines)) /\ e # << >>
BY RestaurantsAssumption DEF I!SbizImportAssumption

LEMMA EditionLines ==
  ASSUME NEW e \in Editions
  PROVE  /\ Len(e) \in Nat \ {0} /\ DOMAIN e = 1..Len(e)
         /\ \A f \in DOMAIN e : /\ Len(e[f]) \in Nat /\ DOMAIN e[f] = 1..Len(e[f])
                                /\ \A n \in DOMAIN e[f] : e[f][n] \in I!Lines
<1>1. e \in Seq(Seq(I!Lines)) /\ e # << >>
  BY ImportNumbers
<1>2. Len(e) \in Nat \ {0} /\ DOMAIN e = 1..Len(e)
  BY <1>1
<1>3. ASSUME NEW f \in DOMAIN e
      PROVE  /\ Len(e[f]) \in Nat /\ DOMAIN e[f] = 1..Len(e[f])
             /\ \A n \in DOMAIN e[f] : e[f][n] \in I!Lines
  <2>1. e[f] \in Seq(I!Lines)
    BY <1>1
  <2>2. QED
    BY <2>1
<1>4. QED
  BY <1>2, <1>3

LEMMA LineKinds ==
  ASSUME NEW l \in I!Lines
  PROVE  /\ I!IsShop(l) => l # I!Blank /\ l # I!Unusable /\ l.id \in Ids /\ l.data \in Data
         /\ l # I!Blank <=> I!IsShop(l) \/ l = I!Unusable
<1>1. CASE l = I!Blank \/ l = I!Unusable
  <2>1. I!Blank.kind = "blank" /\ I!Unusable.kind = "unusable"
    BY DEF I!Blank, I!Unusable
  <2>2. QED
    BY <1>1, <2>1 DEF I!IsShop
<1>2. CASE \E id \in Ids, d \in Data : l = I!Shop(id, d)
  <2>1. l.kind = "shop" /\ l.id \in Ids /\ l.data \in Data
    BY <1>2 DEF I!Shop
  <2>2. I!Blank.kind = "blank" /\ I!Unusable.kind = "unusable"
    BY DEF I!Blank, I!Unusable
  <2>3. QED
    BY <2>1, <2>2 DEF I!IsShop
<1>3. QED
  BY <1>1, <1>2 DEF I!Lines

LEMMA InPositions ==
  ASSUME NEW e \in Editions, NEW x
  PROVE  x \in I!Positions(e) <=> \E f \in DOMAIN e : \E n \in DOMAIN e[f] : x = <<f, n>>
BY DEF I!Positions

(* What a run has read.                                                    *)
ReadBy(q) ==
  {x \in I!Positions(q.edition) : q.pc = "close" \/ x[1] < q.file \/ (x[1] = q.file /\ x[2] <= q.line)}
NonBlank(e, xs) == {x \in xs : I!LineAt(e, x) # I!Blank}

RunFrames ==
  [pc: {"idle", "upsert", "close"}, edition: Editions \cup {<< >>}, closeMissing: BOOLEAN,
   synced: 0..MaxStarts, file: Nat, line: Nat, imported: Nat, skipped: Nat, alone: BOOLEAN]
TableRows == [data: Data \cup {"none"}, synced: 0..MaxStarts, closed: BOOLEAN]

ImportTyped ==
  /\ table \in [Ids -> TableRows]
  /\ clock \in 0..MaxStarts
  /\ run \in [Runs -> RunFrames] /\ \A p \in Runs : run[p] = I!Idle \/ run[p].pc # "idle"
  /\ closing \in [synced: 0..MaxStarts, listed: SUBSET Ids]

(* The counters are those of the lines that were read.                     *)
RunOK(q) ==
  q.pc # "idle" =>
    /\ q.edition \in Editions /\ q.file \in DOMAIN q.edition /\ q.line \in 0..Len(q.edition[q.file])
    /\ IsFiniteSet(NonBlank(q.edition, ReadBy(q)))
    /\ q.imported + q.skipped = Cardinality(NonBlank(q.edition, ReadBy(q)))

(* A run has marked only what it lists; and what it has read, if nobody    *)
(* else wrote.                                                             *)
Written(q, tab) ==
  /\ \A id \in Ids : tab[id].synced = q.synced => id \in I!Listed(q.edition)
  /\ q.alone => \A id \in Ids : \A x \in I!About(id, q.edition) \cap ReadBy(q) :
       /\ tab[id].synced = q.synced /\ ~tab[id].closed
       /\ (\A y \in I!About(id, q.edition) \cap ReadBy(q) : ~I!Follows(y, x))
            => tab[id].data = I!LineAt(q.edition, x).data

RunsOK ==
  /\ \A p \in Runs : RunOK(run[p])
  /\ \A p \in Runs : run[p].pc # "idle" =>
       /\ run[p].synced <= clock /\ closing.synced < run[p].synced
       /\ run[p].alone => run[p].synced = clock /\ \A q \in Runs : run[q].pc # "idle" => q = p
       /\ Written(run[p], table)
  /\ \A p, q \in Runs : run[p].pc # "idle" /\ run[q].pc # "idle" /\ run[p].synced = run[q].synced => p = q
  /\ closing.synced <= clock /\ \A id \in Ids : table[id].synced <= clock

ImportInv == ImportTyped /\ RunsOK /\ I!OnlyMissingAreClosed

LEMMA IdleRun ==
  /\ I!Idle \in RunFrames /\ I!Idle.pc = "idle" /\ I!Idle.alone = FALSE /\ RunOK(I!Idle)
  /\ [I!Idle EXCEPT !.alone = FALSE] = I!Idle
<1>1. I!Idle \in RunFrames /\ I!Idle.pc = "idle" /\ I!Idle.alone = FALSE
  BY ImportNumbers DEF I!Idle, RunFrames
<1>2. ASSUME NEW q \in RunFrames, q.alone = FALSE PROVE [q EXCEPT !.alone = FALSE] = q
  BY <1>2 DEF RunFrames
<1>3. QED
  BY <1>1, <1>2 DEF RunOK

LEMMA ImportInit == I!Init => ImportInv
<1> SUFFICES ASSUME I!Init PROVE ImportInv
  OBVIOUS
<1>1. ImportTyped
  BY ImportNumbers, IdleRun DEF I!Init, ImportTyped, I!Absent, I!NoClosing, TableRows
<1>2. /\ \A p \in Runs : run[p] = I!Idle
      /\ \A id \in Ids : table[id] = I!Absent
      /\ closing.synced = 0 /\ clock = 0
  BY DEF I!Init, I!NoClosing
<1>3. RunsOK
  BY <1>2, IdleRun DEF RunsOK, I!Absent
<1>4. I!OnlyMissingAreClosed
  BY <1>2 DEF I!OnlyMissingAreClosed
<1>5. QED
  BY <1>1, <1>3, <1>4 DEF ImportInv

(* What makes the properties of an import.                                 *)
LEMMA ImportImplies == ImportInv => I!TypeOK /\ I!ImportIsComplete
<1> SUFFICES ASSUME ImportInv PROVE I!TypeOK /\ I!ImportIsComplete
  OBVIOUS
<1>0. ImportTyped /\ RunsOK
  BY DEF ImportInv
<1>1. I!TypeOK
  <2>1. ASSUME NEW p \in Runs, run[p] # I!Idle
        PROVE  /\ run[p].pc \in {"upsert", "close"}
               /\ run[p].edition \in Editions /\ run[p].synced \in 1..clock
               /\ run[p].file \in DOMAIN run[p].edition
               /\ run[p].line \in 0..Len(run[p].edition[run[p].file])
               /\ {run[p].imported, run[p].skipped} \subseteq Nat /\ run[p].alone \in BOOLEAN
    <3>1. run[p].pc # "idle" /\ run[p] \in RunFrames
      BY <1>0, <2>1 DEF ImportTyped
    <3>2. /\ run[p].pc \in {"upsert", "close"} /\ run[p].synced \in 0..MaxStarts
          /\ {run[p].imported, run[p].skipped} \subseteq Nat /\ run[p].alone \in BOOLEAN
      BY <3>1 DEF RunFrames
    <3>3. RunOK(run[p]) /\ run[p].synced <= clock /\ closing.synced < run[p].synced
      BY <1>0, <3>1 DEF RunsOK
    <3>4. closing.synced \in Nat /\ clock \in Nat
      BY <1>0 DEF ImportTyped
    <3>5. run[p].synced \in 1..clock
      BY <3>2, <3>3, <3>4
    <3>6. QED
      BY <3>1, <3>2, <3>3, <3>5 DEF RunOK
  <2>2. closing.synced \in 0..clock /\ closing.listed \subseteq Ids
    BY <1>0 DEF ImportTyped, RunsOK
  <2>3. QED
    BY <1>0, <2>1, <2>2 DEF ImportTyped, I!TypeOK, TableRows
<1>2. ASSUME NEW p \in Runs, run[p].pc = "close"
      PROVE  LET e == run[p].edition IN
               /\ run[p].alone =>
                    \A id \in Ids : \A x \in I!About(id, e) :
                      (\A y \in I!About(id, e) : ~I!Follows(y, x))
                        => table[id].data = I!LineAt(e, x).data /\ ~table[id].closed
               /\ I!Total(p) = I!Cardinality({x \in I!Positions(e) : I!LineAt(e, x) # I!Blank})
  <2>1. ReadBy(run[p]) = I!Positions(run[p].edition)
    BY <1>2 DEF ReadBy
  <2>2. \A id \in Ids : I!About(id, run[p].edition) \cap ReadBy(run[p]) = I!About(id, run[p].edition)
    BY <2>1 DEF I!About
  <2>3. RunOK(run[p]) /\ Written(run[p], table)
    BY <1>0, <1>2 DEF RunsOK
  <2>4. run[p].imported + run[p].skipped = Cardinality(NonBlank(run[p].edition, ReadBy(run[p])))
    BY <1>2, <2>3 DEF RunOK
  <2>5. I!Total(p) = I!Cardinality({x \in I!Positions(run[p].edition) : I!LineAt(run[p].edition, x) # I!Blank})
    BY <2>1, <2>4, CountsAlike DEF I!Total, NonBlank
  <2>6. QED
    BY <2>2, <2>3, <2>5 DEF Written
<1>3. QED
  BY <1>1, <1>2 DEF I!ImportIsComplete

(* The batches.                                                            *)
LEMMA CutIs ==
  ASSUME NEW file, Len(file) \in Nat, NEW from \in 0..Len(file)
  PROVE  I!Cut(file, from) \in from..Len(file)
<1> DEFINE full == {n \in from..Len(file) : I!Cardinality(I!Shops(file, from + 1..n)) = BatchSize}
<1>1. CASE full = {}
  BY <1>1 DEF I!Cut
<1>2. CASE full # {}
  <2>1. full \in SUBSET Nat
    OBVIOUS
  <2>2. \E x \in full : \A y \in full : x <= y
    <3> HIDE DEF full
    <3>1. QED
      BY <1>2, <2>1, LeastOf
  <2>3. I!Min(full) \in full
    <3> HIDE DEF full
    <3>1. QED
      BY <2>2 DEF I!Min
  <2>4. I!Cut(file, from) = I!Min(full)
    BY <1>2 DEF I!Cut
  <2>5. QED
    BY <2>3, <2>4
<1>3. QED
  BY <1>1, <1>2

LEMMA MaxIs ==
  ASSUME NEW b \in Nat, NEW W \in SUBSET (0..b), W # {}
  PROVE  I!Max(W) \in W /\ \A y \in W : y <= I!Max(W)
<1>1. \E x \in W : \A y \in W : x >= y
  <2>1. PICK x \in W : \A y \in W : y <= x
    BY GreatestOf
  <2>2. \A y \in W : x >= y
    BY <2>1
  <2>3. QED
    BY <2>2
<1>2. I!Max(W) \in W /\ \A y \in W : I!Max(W) >= y
  BY <1>1 DEF I!Max
<1>3. \A y \in W : y <= I!Max(W)
  BY <1>2
<1>4. QED
  BY <1>2, <1>3

(* The cursor of a run after it has read up to line `to'.                  *)
MovesTo(q, r, to) ==
  LET last == Len(q.edition[q.file])  ended == to = last  final == q.file = Len(q.edition) IN
    /\ r.edition = q.edition
    /\ r.pc = IF ended /\ final THEN "close" ELSE "upsert"
    /\ r.file = IF ended /\ q.file < Len(q.edition) THEN q.file + 1 ELSE q.file
    /\ r.line = IF ended THEN 0 ELSE to

Fresh(q, to) == {<<q.file, n>> : n \in q.line + 1..to}

LEMMA ReadGrows ==
  ASSUME NEW q, q.pc = "upsert", q.edition \in Editions, q.file \in DOMAIN q.edition,
         q.line \in 0..Len(q.edition[q.file]),
         NEW to \in q.line..Len(q.edition[q.file]), NEW r, MovesTo(q, r, to)
  PROVE  /\ ReadBy(r) = ReadBy(q) \cup Fresh(q, to) /\ ReadBy(q) \cap Fresh(q, to) = {}
         /\ Fresh(q, to) \subseteq I!Positions(q.edition)
         /\ r.file \in DOMAIN r.edition /\ r.line \in 0..Len(r.edition[r.file])
<1>1. PICK e, f, k : e = q.edition /\ f = q.file /\ k = q.line /\ e \in Editions
  OBVIOUS
<1>2. \A g \in DOMAIN e : Len(e[g]) \in Nat /\ DOMAIN e[g] = 1..Len(e[g])
  BY <1>1, EditionLines
<1>12. PICK N \in Nat : N = Len(e) /\ N >= 1 /\ DOMAIN e = 1..N
  BY <1>1, EditionLines
<1>13. PICK L \in Nat : L = Len(e[f]) /\ DOMAIN e[f] = 1..L
  BY <1>1, <1>2
<1>14. f \in Nat /\ 1 <= f /\ f <= N /\ f \in DOMAIN e
  BY <1>1, <1>12
<1>3. k \in Nat /\ to \in Nat /\ k <= to /\ to <= L
  BY <1>1, <1>13
<1>4. /\ r.edition = e
      /\ to # L => r.pc # "close" /\ r.file = f /\ r.line = to
      /\ to = L /\ f = N => r.pc = "close" /\ r.file = f /\ r.line = 0
      /\ to = L /\ f < N => r.pc # "close" /\ r.file = f + 1 /\ r.line = 0
  BY <1>1, <1>12, <1>13, <1>14 DEF MovesTo
<1>5. ASSUME NEW g \in DOMAIN e, NEW n \in DOMAIN e[g]
      PROVE  /\ <<g, n>> \in ReadBy(q) <=> g < f \/ (g = f /\ n <= k)
             /\ <<g, n>> \in ReadBy(r) <=> g < f \/ (g = f /\ n <= to)
  <2>1. <<g, n>> \in I!Positions(e) /\ <<g, n>>[1] = g /\ <<g, n>>[2] = n
    BY <1>1, InPositions
  <2>2. g \in Nat /\ n \in Nat /\ g <= N /\ n >= 1 /\ (g = f => n <= L)
    BY <1>2, <1>12, <1>13
  <2>3. <<g, n>> \in ReadBy(q) <=> g < f \/ (g = f /\ n <= k)
    BY <1>1, <2>1 DEF ReadBy
  <2>4. <<g, n>> \in ReadBy(r) <=> r.pc = "close" \/ g < r.file \/ (g = r.file /\ n <= r.line)
    BY <1>4, <2>1 DEF ReadBy
  <2>5. CASE to # L
    BY <1>4, <2>3, <2>4, <2>5
  <2>6. CASE to = L /\ f = N
    <3>1. <<g, n>> \in ReadBy(r)
      BY <1>4, <2>4, <2>6
    <3>2. g < f \/ (g = f /\ n <= to)
      BY <1>14, <2>2, <2>6
    <3>3. QED
      BY <2>3, <3>1, <3>2
  <2>7. CASE to = L /\ f < N
    <3>1. r.pc # "close" /\ r.file = f + 1 /\ r.line = 0
      BY <1>4, <2>7
    <3>2. <<g, n>> \in ReadBy(r) <=> g < f + 1
      BY <1>14, <2>2, <2>4, <3>1
    <3>3. g < f + 1 <=> g < f \/ (g = f /\ n <= to)
      BY <1>14, <2>2, <2>7
    <3>4. QED
      BY <2>3, <3>2, <3>3
  <2>8. f = N \/ f < N
    BY <1>14
  <2>9. QED
    BY <2>3, <2>5, <2>6, <2>7, <2>8
<1>6. ASSUME NEW g \in DOMAIN e, NEW n \in DOMAIN e[g]
      PROVE  <<g, n>> \in Fresh(q, to) <=> g = f /\ k < n /\ n <= to
  <2>1. n \in Nat
    BY <1>2
  <2>2. <<g, n>> \in Fresh(q, to) <=> g = f /\ n \in k + 1..to
    BY <1>1 DEF Fresh
  <2>3. QED
    BY <1>3, <2>1, <2>2
<1>7. Fresh(q, to) \subseteq I!Positions(e)
  <2>1. ASSUME NEW n \in k + 1..to PROVE <<f, n>> \in I!Positions(e)
    <3>1. f \in DOMAIN e /\ n \in DOMAIN e[f]
      BY <1>3, <1>13, <1>14
    <3>2. QED
      BY <1>1, <3>1, InPositions
  <2>2. QED
    BY <1>1, <2>1 DEF Fresh
<1>8. ReadBy(q) \subseteq I!Positions(e) /\ ReadBy(r) \subseteq I!Positions(e)
  BY <1>1, <1>4 DEF ReadBy
<1>9. ASSUME NEW x \in I!Positions(e)
      PROVE  /\ x \in ReadBy(r) <=> x \in ReadBy(q) \/ x \in Fresh(q, to)
             /\ ~(x \in ReadBy(q) /\ x \in Fresh(q, to))
  <2>1. PICK g \in DOMAIN e : \E n \in DOMAIN e[g] : x = <<g, n>>
    BY <1>1, InPositions
  <2>2. PICK n \in DOMAIN e[g] : x = <<g, n>>
    BY <2>1
  <2>3. g \in Nat /\ n \in Nat
    BY <1>2, <1>12
  <2>4. QED
    BY <1>3, <1>5, <1>6, <1>14, <2>2, <2>3
<1>10. r.file \in DOMAIN e /\ r.line \in 0..Len(e[r.file])
  <2>1. CASE to # L
    <3>1. r.file = f /\ r.line = to
      BY <1>4, <2>1
    <3>2. to \in 0..L
      BY <1>3
    <3>3. QED
      BY <1>13, <1>14, <3>1, <3>2, Zenon
  <2>2. CASE to = L /\ f = N
    BY <1>4, <1>13, <1>14, <2>2
  <2>3. CASE to = L /\ f < N
    <3>1. f + 1 \in DOMAIN e
      BY <1>12, <1>14, <2>3
    <3>2. QED
      BY <1>2, <1>4, <2>3, <3>1
  <2>4. QED
    BY <1>14, <2>1, <2>2, <2>3
<1>11. QED
  BY <1>1, <1>4, <1>7, <1>8, <1>9, <1>10

LEMMA DisjointUnion ==
  ASSUME NEW W, NEW T, IsFiniteSet(W), IsFiniteSet(T), W \cap T = {}
  PROVE  IsFiniteSet(W \cup T) /\ Cardinality(W \cup T) = Cardinality(W) + Cardinality(T)
<1>1. /\ IsFiniteSet(W \cup T)
      /\ Cardinality(W \cup T) = Cardinality(W) + Cardinality(T) - Cardinality(W \cap T)
  BY FS_Union
<1>2. Cardinality(W) \in Nat /\ Cardinality(T) \in Nat /\ Cardinality({}) = 0
  BY FS_CardinalityType, FS_EmptySet
<1>3. PICK a, b, c, d : a = Cardinality(W) /\ b = Cardinality(T) /\ c = Cardinality(W \cup T)
                        /\ d = Cardinality(W \cap T)
  OBVIOUS
<1>4. d = 0
  BY <1>2, <1>3, Zenon
<1>5. c = a + b
  BY <1>1, <1>2, <1>3, <1>4
<1>6. QED
  BY <1>1, <1>3, <1>5

ShopsIn(file, read) == I!Cardinality(I!Shops(file, read))
UnusableIn(file, read) == I!Cardinality({n \in read : file[n] = I!Unusable})

LEMMA FreshCount ==
  ASSUME NEW e \in Editions, NEW f \in DOMAIN e, NEW k \in Nat, NEW to \in Nat, to <= Len(e[f]),
         NEW q, q.file = f, q.line = k
  PROVE  /\ IsFiniteSet(NonBlank(e, Fresh(q, to)))
         /\ Cardinality(NonBlank(e, Fresh(q, to))) = ShopsIn(e[f], k + 1..to) + UnusableIn(e[f], k + 1..to)
         /\ ShopsIn(e[f], k + 1..to) \in Nat /\ UnusableIn(e[f], k + 1..to) \in Nat
<1>1. PICK shops, unusable : /\ shops = {n \in k + 1..to : I!IsShop(e[f][n])}
                             /\ unusable = {n \in k + 1..to : e[f][n] = I!Unusable}
  OBVIOUS
<1>2. IsFiniteSet(shops) /\ IsFiniteSet(unusable)
  <2>1. IsFiniteSet(k + 1..to)
    BY FS_Interval
  <2>2. QED
    BY <1>1, <2>1, FS_Subset
<1>3. ASSUME NEW n \in k + 1..to
      PROVE  /\ e[f][n] \in I!Lines /\ ~(I!IsShop(e[f][n]) /\ e[f][n] = I!Unusable)
             /\ e[f][n] # I!Blank <=> I!IsShop(e[f][n]) \/ e[f][n] = I!Unusable
  <2>1. n \in DOMAIN e[f]
    BY EditionLines
  <2>2. e[f][n] \in I!Lines
    BY <2>1, EditionLines
  <2>3. QED
    BY <2>2, LineKinds
<1>4. shops \cap unusable = {}
  BY <1>1, <1>3
<1>5. /\ IsFiniteSet(shops \cup unusable)
      /\ Cardinality(shops \cup unusable) = Cardinality(shops) + Cardinality(unusable)
  BY <1>2, <1>4, DisjointUnion
<1>6. PICK W, T, g : /\ W = shops \cup unusable /\ T = NonBlank(e, Fresh(q, to))
                     /\ g = [n \in W |-> <<f, n>>]
  OBVIOUS
<1>7. ASSUME NEW x
      PROVE  x \in T <=> \E n \in W : x = <<f, n>>
  <2>1. x \in T <=> \E n \in k + 1..to : x = <<f, n>> /\ I!LineAt(e, x) # I!Blank
    BY <1>6 DEF NonBlank, Fresh
  <2>2. \A n : I!LineAt(e, <<f, n>>) = e[f][n]
    BY DEF I!LineAt
  <2>3. \A n \in k + 1..to : n \in W <=> e[f][n] # I!Blank
    BY <1>1, <1>3, <1>6
  <2>4. \A n \in W : n \in k + 1..to
    BY <1>1, <1>6
  <2>5. QED
    BY <2>1, <2>2, <2>3, <2>4
<1>8. g \in Bijection(W, T)
  <2>1. g \in [W -> T]
    BY <1>6, <1>7
  <2>2. \A a, b \in W : g[a] = g[b] => a = b
    BY <1>6
  <2>3. \A t \in T : \E s \in W : g[s] = t
    BY <1>6, <1>7
  <2>4. QED
    BY <2>1, <2>2, <2>3 DEF Bijection, Injection, Surjection, IsInjective
<1>9. IsFiniteSet(T) /\ Cardinality(T) = Cardinality(W)
  BY <1>5, <1>6, <1>8, FS_Bijection DEF ExistsBijection
<1>10. I!Shops(e[f], k + 1..to) = shops
  BY <1>1 DEF I!Shops
<1>11. Cardinality(shops) \in Nat /\ Cardinality(unusable) \in Nat
  BY <1>2, FS_CardinalityType
<1>12. QED
  BY <1>1, <1>5, <1>6, <1>9, <1>10, <1>11, CountsAlike DEF ShopsIn, UnusableIn

(* Only x, of the positions in ps, is followed by none.                    *)
Latest(x, ps) == x \in ps /\ \A z \in ps : (\A y \in ps : ~I!Follows(y, z)) => z = x

BatchAbout(q, e, f, to, id, about) ==
  /\ I!About(id, e) \cap Fresh(q, to) = {<<f, n>> : n \in about}
  /\ about # {} => /\ I!Max(about) \in about
                   /\ Latest(<<f, I!Max(about)>>, I!About(id, e) \cap (ReadBy(q) \cup Fresh(q, to)))

(* The last line about a shop in a batch is the last one read of it.       *)
LEMMA LastInBatch ==
  ASSUME NEW e \in Editions, NEW f \in DOMAIN e, NEW k \in 0..Len(e[f]), NEW to \in k..Len(e[f]),
         NEW q, q.edition = e, q.file = f, q.line = k, q.pc = "upsert", NEW id,
         NEW about, about = {n \in I!Shops(e[f], k + 1..to) : e[f][n].id = id}
  PROVE  BatchAbout(q, e, f, to, id, about)
<1>1. f \in Nat /\ k \in Nat /\ to \in Nat /\ k <= to /\ to <= Len(e[f]) /\ DOMAIN e[f] = 1..Len(e[f])
  <2>1. DOMAIN e = 1..Len(e) /\ DOMAIN e[f] = 1..Len(e[f]) /\ Len(e[f]) \in Nat /\ Len(e) \in Nat
    BY EditionLines
  <2>2. QED
    BY <2>1
<1>2. \A n \in k + 1..to : <<f, n>> \in I!Positions(e) /\ I!LineAt(e, <<f, n>>) = e[f][n]
  <2>1. \A n \in k + 1..to : n \in DOMAIN e[f]
    BY <1>1
  <2>2. QED
    BY <2>1, InPositions DEF I!LineAt
<1>3. I!About(id, e) \cap Fresh(q, to) = {<<f, n>> : n \in about}
  <2>1. Fresh(q, to) = {<<f, n>> : n \in k + 1..to}
    BY DEF Fresh
  <2>2. about = {n \in k + 1..to : I!IsShop(e[f][n]) /\ e[f][n].id = id}
    BY DEF I!Shops
  <2>3. QED
    BY <1>2, <2>1, <2>2 DEF I!About
<1>4. ASSUME about # {} PROVE I!Max(about) \in about /\ \A n \in about : n <= I!Max(about)
  <2>1. about \in SUBSET (0..to)
    BY <1>1 DEF I!Shops
  <2>2. QED
    BY <1>1, <1>4, <2>1, MaxIs
<1>5. ASSUME about # {}, NEW x \in I!About(id, e) \cap (ReadBy(q) \cup Fresh(q, to)),
             \A y \in I!About(id, e) \cap (ReadBy(q) \cup Fresh(q, to)) : ~I!Follows(y, x)
      PROVE  x = <<f, I!Max(about)>>
  <2>1. PICK m \in about : m = I!Max(about) /\ \A n \in about : n <= m
    BY <1>4, <1>5
  <2>2. m \in Nat /\ k < m
    BY <1>1, <2>1 DEF I!Shops
  <2>3. ~I!Follows(<<f, m>>, x)
    BY <1>3, <1>5, <2>1
  <2>4. ~(f > x[1]) /\ ~(f = x[1] /\ m > x[2])
    BY <2>3 DEF I!Follows
  <2>5. CASE x \in Fresh(q, to)
    <3>1. PICK n \in about : x = <<f, n>>
      BY <1>3, <1>5, <2>5
    <3>2. n \in Nat /\ n <= m /\ ~(m > n)
      BY <1>1, <2>1, <2>4, <3>1 DEF I!Shops
    <3>3. QED
      BY <2>1, <2>2, <3>1, <3>2
  <2>6. CASE x \in ReadBy(q)
    <3>1. PICK g \in DOMAIN e : \E n \in DOMAIN e[g] : x = <<g, n>>
      BY <2>6, InPositions DEF ReadBy
    <3>2. PICK n \in DOMAIN e[g] : x = <<g, n>>
      BY <3>1
    <3>3. g \in Nat /\ n \in Nat
      BY EditionLines
    <3>4. g < f \/ (g = f /\ n <= k)
      BY <2>6, <3>2 DEF ReadBy
    <3>5. QED
      BY <1>1, <2>2, <2>4, <3>2, <3>3, <3>4
  <2>7. QED
    BY <1>5, <2>5, <2>6
<1>6. ASSUME about # {}
      PROVE  Latest(<<f, I!Max(about)>>, I!About(id, e) \cap (ReadBy(q) \cup Fresh(q, to)))
  <2>1. <<f, I!Max(about)>> \in I!About(id, e) \cap Fresh(q, to)
    BY <1>3, <1>4, <1>6
  <2>2. QED
    BY <1>5, <1>6, <2>1 DEF Latest
<1>7. QED
  BY <1>3, <1>4, <1>6 DEF BatchAbout

(* A batch is written: nothing is lost of what was written before.         *)
LEMMA BatchMoves ==
  ASSUME ImportInv, NEW p \in Runs, I!Upsert(p),
         NEW q, q = run[p], NEW e, e = q.edition, NEW f, f = q.file, NEW k, k = q.line,
         NEW to, to = I!Cut(e[f], k), NEW r, r = run'[p]
  PROVE  /\ q.pc = "upsert" /\ e \in Editions /\ f \in DOMAIN e /\ k \in 0..Len(e[f]) /\ to \in k..Len(e[f])
         /\ run' \in [Runs -> RunFrames] /\ \A o \in Runs : o # p => run'[o] = run[o]
         /\ MovesTo(q, r, to) /\ r.synced = q.synced /\ r.alone = q.alone
         /\ RunOK(r) /\ r.pc # "idle"
<1>0. ImportTyped /\ RunsOK
  BY DEF ImportInv
<1>1. q.pc = "upsert" /\ q \in RunFrames /\ RunOK(q) /\ run \in [Runs -> RunFrames]
  BY <1>0 DEF ImportTyped, RunsOK, I!Upsert
<1>2. e \in Editions /\ f \in DOMAIN e /\ k \in 0..Len(e[f])
  BY <1>1 DEF RunOK
<1>3. to \in k..Len(e[f])
  <2>1. Len(e[f]) \in Nat
    BY <1>2, EditionLines
  <2>2. QED
    BY <1>2, <2>1, CutIs
<1>4. to \in Nat /\ k \in Nat /\ to <= Len(e[f]) /\ Len(e[f]) \in Nat /\ Len(e) \in Nat
  BY <1>2, <1>3, EditionLines
<1>5. PICK a, b : a = ShopsIn(e[f], k + 1..to) /\ b = UnusableIn(e[f], k + 1..to)
  OBVIOUS
<1>6. /\ a \in Nat /\ b \in Nat
      /\ IsFiniteSet(NonBlank(e, Fresh(q, to))) /\ Cardinality(NonBlank(e, Fresh(q, to))) = a + b
  <2>1. e \in Editions /\ f \in DOMAIN e /\ k \in Nat /\ to \in Nat /\ to <= Len(e[f]) /\ q.file = f /\ q.line = k
    BY <1>2, <1>4
  <2>2. /\ IsFiniteSet(NonBlank(e, Fresh(q, to)))
        /\ Cardinality(NonBlank(e, Fresh(q, to))) = ShopsIn(e[f], k + 1..to) + UnusableIn(e[f], k + 1..to)
        /\ ShopsIn(e[f], k + 1..to) \in Nat /\ UnusableIn(e[f], k + 1..to) \in Nat
    BY <2>1, FreshCount
  <2>3. QED
    BY <1>5, <2>2
<1>7. run' = [run EXCEPT ![p].imported = @ + a, ![p].skipped = @ + b,
                ![p].pc = IF to = Len(e[f]) /\ f = Len(e) THEN "close" ELSE "upsert",
                ![p].file = IF to = Len(e[f]) /\ f < Len(e) THEN f + 1 ELSE @,
                ![p].line = IF to = Len(e[f]) THEN 0 ELSE to]
  BY <1>5, Zenon DEF I!Upsert, I!Batch, ShopsIn, UnusableIn
<1>8. r = [q EXCEPT !.imported = @ + a, !.skipped = @ + b,
             !.pc = IF to = Len(e[f]) /\ f = Len(e) THEN "close" ELSE "upsert",
             !.file = IF to = Len(e[f]) /\ f < Len(e) THEN f + 1 ELSE @,
             !.line = IF to = Len(e[f]) THEN 0 ELSE to]
  BY <1>0, <1>7 DEF ImportTyped
<1>9. f \in Nat /\ q.imported \in Nat /\ q.skipped \in Nat
  <2>1. DOMAIN e = 1..Len(e)
    BY <1>2, EditionLines
  <2>2. QED
    BY <1>1, <1>2, <1>4, <2>1 DEF RunFrames
<1>15. PICK pc, file, line : /\ pc = IF to = Len(e[f]) /\ f = Len(e) THEN "close" ELSE "upsert"
                             /\ file = IF to = Len(e[f]) /\ f < Len(e) THEN f + 1 ELSE f
                             /\ line = IF to = Len(e[f]) THEN 0 ELSE to
  OBVIOUS
<1>16. r = [q EXCEPT !.imported = @ + a, !.skipped = @ + b, !.pc = pc, !.file = file, !.line = line]
  BY <1>1, <1>8, <1>15
<1>17. pc \in {"upsert", "close"} /\ file \in Nat /\ line \in Nat
  BY <1>4, <1>9, <1>15
<1>10. r \in RunFrames /\ r.synced = q.synced /\ r.alone = q.alone /\ r.edition = e
       /\ r.imported = q.imported + a /\ r.skipped = q.skipped + b
  <2>5. q.imported + a \in Nat /\ q.skipped + b \in Nat
    BY <1>6, <1>9
  <2>1. PICK x, y \in Nat : x = q.imported + a /\ y = q.skipped + b
    BY <2>5, Zenon
  <2>2. r = [q EXCEPT !.imported = x, !.skipped = y, !.pc = pc, !.file = file, !.line = line]
    BY <1>16, <2>1
  <2>3. r \in RunFrames /\ r.synced = q.synced /\ r.alone = q.alone /\ r.edition = q.edition
        /\ r.imported = x /\ r.skipped = y
    BY <1>1, <1>17, <2>2 DEF RunFrames
  <2>4. QED
    BY <2>1, <2>3
<1>11. MovesTo(q, r, to) /\ r.pc # "idle"
  BY <1>1, <1>15, <1>16, <1>17 DEF MovesTo, RunFrames
<1>12. run' \in [Runs -> RunFrames] /\ \A o \in Runs : o # p => run'[o] = run[o]
  <2>0. run' = [run EXCEPT ![p] = r]
    BY <1>1, <1>7, <1>8, ZenonT(60)
  <2>1. \A o \in Runs : o # p => run'[o] = run[o]
    BY <1>1, <2>0
  <2>2. DOMAIN run' = Runs /\ run' = [o \in Runs |-> run'[o]]
    BY <1>1, <2>0
  <2>3. \A o \in Runs : run'[o] \in RunFrames
    BY <1>1, <1>10, <2>1
  <2>4. QED
    BY <2>1, <2>2, <2>3
<1>13. RunOK(r)
  <2>1. /\ ReadBy(r) = ReadBy(q) \cup Fresh(q, to) /\ ReadBy(q) \cap Fresh(q, to) = {}
        /\ r.file \in DOMAIN r.edition /\ r.line \in 0..Len(r.edition[r.file])
    BY <1>1, <1>2, <1>3, <1>11, ReadGrows
  <2>2. PICK A, B : A = NonBlank(e, ReadBy(q)) /\ B = NonBlank(e, Fresh(q, to))
    OBVIOUS
  <2>3. NonBlank(e, ReadBy(r)) = A \cup B /\ A \cap B = {}
    BY <2>1, <2>2 DEF NonBlank
  <2>4. IsFiniteSet(A) /\ Cardinality(A) = q.imported + q.skipped /\ IsFiniteSet(B) /\ Cardinality(B) = a + b
    BY <1>1, <1>6, <2>2 DEF RunOK
  <2>5. IsFiniteSet(A \cup B) /\ Cardinality(A \cup B) = Cardinality(A) + Cardinality(B)
    BY <2>3, <2>4, DisjointUnion
  <2>6. r.imported + r.skipped = Cardinality(A \cup B)
    <3>1. r.imported + r.skipped = (q.imported + q.skipped) + (a + b)
      BY <1>6, <1>9, <1>10
    <3>2. QED
      BY <2>4, <2>5, <3>1
  <2>7. QED
    BY <1>2, <1>10, <2>1, <2>3, <2>5, <2>6 DEF RunOK
<1>14. QED
  BY <1>1, <1>2, <1>3, <1>10, <1>11, <1>12, <1>13

(* Each row is left alone or has what the last line about it says.         *)
RowFrom(tab, id, e, x, s) ==
  tab[id].data = I!LineAt(e, x).data /\ tab[id].synced = s /\ ~tab[id].closed /\ tab[id] \in TableRows

LEMMA BatchWrites ==
  ASSUME ImportInv, NEW p \in Runs, I!Upsert(p),
         NEW q, q = run[p], NEW e, e = q.edition, NEW f, f = q.file, NEW k, k = q.line,
         NEW to, to = I!Cut(e[f], k), NEW id \in Ids
  PROVE  \/ I!About(id, e) \cap Fresh(q, to) = {} /\ table'[id] = table[id]
         \/ \E x \in I!About(id, e) :
              /\ RowFrom(table', id, e, x, q.synced)
              /\ Latest(x, I!About(id, e) \cap (ReadBy(q) \cup Fresh(q, to)))
<1>1. PICK r : r = run'[p]
  OBVIOUS
<1>2. q.pc = "upsert" /\ e \in Editions /\ f \in DOMAIN e /\ k \in 0..Len(e[f]) /\ to \in k..Len(e[f])
  BY <1>1, BatchMoves
<1>3. q.synced \in 0..MaxStarts
  BY DEF ImportInv, ImportTyped, RunFrames
<1>4. PICK A : A = {n \in I!Shops(e[f], k + 1..to) : e[f][n].id = id}
  OBVIOUS
<1>5. table'[id] = IF A # {} THEN [data |-> e[f][I!Max(A)].data, synced |-> q.synced, closed |-> FALSE]
                   ELSE table[id]
  <2>1. table'[id] =
          IF {n \in I!Shops(e[f], k + 1..to) : e[f][n].id = id} # {}
          THEN [data |-> e[f][I!Max({n \in I!Shops(e[f], k + 1..to) : e[f][n].id = id})].data,
                synced |-> q.synced, closed |-> FALSE]
          ELSE table[id]
    BY DEF I!Upsert, I!Batch
  <2>2. QED
    BY <1>4, <2>1, Zenon
<1>6. q.edition = e /\ q.file = f /\ q.line = k
  OBVIOUS
<1>7. /\ I!About(id, e) \cap Fresh(q, to) = {<<f, n>> : n \in A}
      /\ A # {} => /\ I!Max(A) \in A
                   /\ Latest(<<f, I!Max(A)>>, I!About(id, e) \cap (ReadBy(q) \cup Fresh(q, to)))
  <2>1. BatchAbout(q, e, f, to, id, A)
    BY <1>2, <1>4, <1>6, LastInBatch
  <2>2. QED
    BY <2>1 DEF BatchAbout
<1>8. CASE A = {}
  <2>1. I!About(id, e) \cap Fresh(q, to) = {}
    BY <1>7, <1>8
  <2>2. QED
    BY <1>5, <1>8, <2>1, Zenon
<1>9. CASE A # {}
  <2>1. PICK m \in A : m = I!Max(A)
    BY <1>7, <1>9, Zenon
  <2>2. table'[id] = [data |-> e[f][m].data, synced |-> q.synced, closed |-> FALSE]
    BY <1>5, <1>9, <2>1, Zenon
  <2>3. m \in k + 1..to /\ I!IsShop(e[f][m])
    BY <1>4 DEF I!Shops
  <2>4. m \in DOMAIN e[f] /\ e[f][m] \in I!Lines
    <3>1. DOMAIN e[f] = 1..Len(e[f]) /\ Len(e[f]) \in Nat
      BY <1>2, EditionLines
    <3>2. m \in DOMAIN e[f]
      BY <1>2, <2>3, <3>1
    <3>3. QED
      BY <1>2, <3>2, EditionLines
  <2>5. e[f][m].data \in Data
    BY <2>3, <2>4, LineKinds
  <2>6. RowFrom(table', id, e, <<f, m>>, q.synced)
    <3>1. table'[id] \in TableRows
      BY <1>3, <2>2, <2>5 DEF TableRows
    <3>2. I!LineAt(e, <<f, m>>) = e[f][m]
      BY DEF I!LineAt
    <3>3. QED
      BY <2>2, <3>1, <3>2 DEF RowFrom
  <2>7. <<f, m>> \in I!About(id, e) /\ Latest(<<f, m>>, I!About(id, e) \cap (ReadBy(q) \cup Fresh(q, to)))
    BY <1>7, <1>9, <2>1 DEF Latest
  <2>8. QED
    BY <2>6, <2>7, Zenon
<1>10. QED
  BY <1>8, <1>9

LEMMA Upserted == ASSUME ImportInv, NEW p \in Runs, I!Upsert(p) PROVE ImportInv'
<1>0. ImportTyped /\ RunsOK /\ I!OnlyMissingAreClosed
  BY DEF ImportInv
<1>1. PICK q, e, f, k, to, r :
        /\ q = run[p] /\ e = q.edition /\ f = q.file /\ k = q.line
        /\ to = I!Cut(e[f], k) /\ r = run'[p]
  OBVIOUS
<1>2. /\ q.pc = "upsert" /\ e \in Editions /\ f \in DOMAIN e /\ k \in 0..Len(e[f]) /\ to \in k..Len(e[f])
      /\ run' \in [Runs -> RunFrames] /\ \A o \in Runs : o # p => run'[o] = run[o]
      /\ MovesTo(q, r, to) /\ r.synced = q.synced /\ r.alone = q.alone
      /\ RunOK(r) /\ r.pc # "idle"
  BY <1>1, BatchMoves
<1>3. r.edition = e /\ ReadBy(r) = ReadBy(q) \cup Fresh(q, to)
  <2>1. r.edition = e
    BY <1>1, <1>2 DEF MovesTo
  <2>2. /\ q.pc = "upsert" /\ q.edition \in Editions /\ q.file \in DOMAIN q.edition
        /\ q.line \in 0..Len(q.edition[q.file]) /\ to \in q.line..Len(q.edition[q.file])
        /\ MovesTo(q, r, to)
    BY <1>1, <1>2
  <2>3. ReadBy(r) = ReadBy(q) \cup Fresh(q, to)
    BY <2>2, ReadGrows
  <2>4. QED
    BY <2>1, <2>3
<1>4. UNCHANGED <<clock, closing>>
  BY DEF I!Upsert
<1>5. ASSUME NEW id \in Ids
      PROVE  \/ table'[id] = table[id] /\ I!About(id, e) \cap ReadBy(r) = I!About(id, e) \cap ReadBy(q)
             \/ \E x \in I!About(id, e) :
                  RowFrom(table', id, e, x, q.synced) /\ Latest(x, I!About(id, e) \cap ReadBy(r))
  <2>1. \/ I!About(id, e) \cap Fresh(q, to) = {} /\ table'[id] = table[id]
        \/ \E x \in I!About(id, e) :
              /\ RowFrom(table', id, e, x, q.synced)
              /\ Latest(x, I!About(id, e) \cap (ReadBy(q) \cup Fresh(q, to)))
    BY <1>1, BatchWrites
  <2>2. I!About(id, e) \cap Fresh(q, to) = {} => I!About(id, e) \cap ReadBy(r) = I!About(id, e) \cap ReadBy(q)
    BY <1>3
  <2>3. ReadBy(r) = ReadBy(q) \cup Fresh(q, to)
    BY <1>3
  <2>4. QED
    BY <2>1, <2>2, <2>3, Zenon
<1>6. \A id \in Ids :
        table'[id] = table[id] \/ (table'[id].synced = q.synced /\ ~table'[id].closed /\ table'[id] \in TableRows)
  BY <1>5 DEF RowFrom
<1>8. q \in RunFrames /\ q.synced \in 0..MaxStarts
  BY <1>0, <1>1 DEF ImportTyped, RunFrames
<1>9. ImportTyped'
  <2>2. table' \in [Ids -> TableRows]
    <3>1. \A id \in Ids : table[id] \in TableRows
      BY <1>0 DEF ImportTyped
    <3>2. \A id \in Ids : table'[id] \in TableRows
      BY <1>6, <3>1
    <3>3. table' = [id \in Ids |-> table'[id]]
      BY DEF I!Upsert
    <3>4. QED
      BY <3>2, <3>3
  <2>3. \A o \in Runs : run'[o] = I!Idle \/ run'[o].pc # "idle"
    BY <1>0, <1>1, <1>2 DEF ImportTyped
  <2>4. QED
    BY <1>0, <1>2, <1>4, <2>2, <2>3 DEF ImportTyped
<1>10. /\ closing.synced < q.synced /\ q.synced <= clock /\ Written(q, table)
       /\ q.alone => q.synced = clock /\ \A o \in Runs : run[o].pc # "idle" => o = p
       /\ clock \in Nat /\ closing.synced \in Nat /\ q.synced \in Nat
  BY <1>0, <1>1, <1>2, <1>8 DEF RunsOK, ImportTyped
<1>11. Written(r, table')
  <2>1. ASSUME NEW id \in Ids, table'[id].synced = r.synced PROVE id \in I!Listed(r.edition)
    <3>1. CASE table'[id] = table[id]
      <4>1. table[id].synced = q.synced
        BY <1>2, <2>1, <3>1
      <4>2. id \in I!Listed(q.edition)
        BY <1>10, <4>1 DEF Written
      <4>3. QED
        BY <1>1, <1>3, <4>2
    <3>2. CASE \E x : x \in I!About(id, e)
      BY <1>3, <3>2 DEF I!Listed
    <3>3. QED
      BY <1>5, <3>1, <3>2
  <2>2. ASSUME r.alone, NEW id \in Ids, NEW x \in I!About(id, r.edition) \cap ReadBy(r)
        PROVE  /\ table'[id].synced = r.synced /\ ~table'[id].closed
               /\ (\A y \in I!About(id, r.edition) \cap ReadBy(r) : ~I!Follows(y, x))
                    => table'[id].data = I!LineAt(r.edition, x).data
    <3>1. CASE \E z \in I!About(id, e) :
                 RowFrom(table', id, e, z, q.synced) /\ Latest(z, I!About(id, e) \cap ReadBy(r))
      <4>1. PICK z : RowFrom(table', id, e, z, q.synced) /\ Latest(z, I!About(id, e) \cap ReadBy(r))
        BY <3>1
      <4>2. (\A y \in I!About(id, e) \cap ReadBy(r) : ~I!Follows(y, x)) => x = z
        BY <1>3, <2>2, <4>1 DEF Latest
      <4>3. table'[id].data = I!LineAt(e, z).data /\ table'[id].synced = q.synced /\ ~table'[id].closed
        BY <4>1 DEF RowFrom
      <4>4. QED
        BY <1>2, <1>3, <4>2, <4>3
    <3>2. CASE table'[id] = table[id] /\ I!About(id, e) \cap ReadBy(r) = I!About(id, e) \cap ReadBy(q)
      <4>1. q.alone /\ q.edition = e /\ r.edition = e /\ r.synced = q.synced
        BY <1>1, <1>2, <1>3, <2>2
      <4>2. /\ table[id].synced = q.synced /\ ~table[id].closed
            /\ (\A y \in I!About(id, q.edition) \cap ReadBy(q) : ~I!Follows(y, x))
                 => table[id].data = I!LineAt(q.edition, x).data
        BY <1>10, <2>2, <3>2, <4>1 DEF Written
      <4>3. QED
        BY <3>2, <4>1, <4>2
    <3>3. QED
      BY <1>5, <3>1, <3>2
  <2>3. QED
    BY <2>1, <2>2 DEF Written
<1>12. ASSUME NEW o \in Runs, o # p, run[o].pc # "idle" PROVE Written(run[o], table')
  <2>1. Written(run[o], table) /\ run[o].synced # q.synced /\ ~run[o].alone
    BY <1>0, <1>1, <1>2, <1>12 DEF RunsOK
  <2>2. \A id \in Ids : table'[id].synced = run[o].synced => table[id].synced = run[o].synced
    BY <1>6, <2>1
  <2>3. QED
    BY <2>1, <2>2 DEF Written
<1>13. RunsOK'
  <2>1. \A o \in Runs : RunOK(run[o])'
    BY <1>0, <1>1, <1>2 DEF RunsOK
  <2>2. ASSUME NEW o \in Runs, run'[o].pc # "idle"
        PROVE  /\ run'[o].synced <= clock' /\ closing'.synced < run'[o].synced
               /\ run'[o].alone => run'[o].synced = clock' /\ \A oo \in Runs : run'[oo].pc # "idle" => oo = o
               /\ Written(run'[o], table')
    <3>1. CASE o = p
      BY <1>1, <1>2, <1>4, <1>10, <1>11, <3>1
    <3>2. CASE o # p
      BY <1>0, <1>1, <1>2, <1>4, <1>12, <2>2, <3>2 DEF RunsOK
    <3>3. QED
      BY <3>1, <3>2
  <2>3. \A o, oo \in Runs :
          run'[o].pc # "idle" /\ run'[oo].pc # "idle" /\ run'[o].synced = run'[oo].synced => o = oo
    BY <1>0, <1>1, <1>2 DEF RunsOK
  <2>4. closing'.synced <= clock' /\ \A id \in Ids : table'[id].synced <= clock'
    BY <1>0, <1>4, <1>6, <1>10 DEF RunsOK
  <2>5. QED
    BY <2>1, <2>2, <2>3, <2>4 DEF RunsOK
<1>14. I!OnlyMissingAreClosed'
  <2>1. ASSUME closing.synced > 0, NEW id \in Ids
        PROVE  /\ id \in closing.listed => ~table'[id].closed
               /\ id \notin closing.listed /\ table'[id] # I!Absent /\ table'[id].synced <= closing.synced
                    => table'[id].closed
    <3>1. CASE table'[id] = table[id]
      BY <1>0, <2>1, <3>1 DEF I!OnlyMissingAreClosed
    <3>2. CASE table'[id].synced = q.synced /\ ~table'[id].closed
      <4>1. closing.synced < q.synced /\ closing.synced \in Nat /\ q.synced \in Nat
        BY <1>10
      <4>2. QED
        BY <3>2, <4>1
    <3>3. QED
      BY <1>6, <3>1, <3>2
  <2>2. QED
    BY <1>4, <2>1 DEF I!OnlyMissingAreClosed
<1>15. QED
  BY <1>9, <1>13, <1>14 DEF ImportInv

LEMMA NotAlone ==
  ASSUME NEW q \in RunFrames, RunOK(q)
  PROVE  LET r == [q EXCEPT !.alone = FALSE] IN
           /\ r \in RunFrames /\ RunOK(r) /\ r.pc = q.pc /\ r.synced = q.synced /\ ~r.alone
           /\ \A tab : Written(q, tab) => Written(r, tab)
<1>1. PICK r : r = [q EXCEPT !.alone = FALSE]
  OBVIOUS
<1>2. /\ r \in RunFrames /\ ~r.alone /\ r.pc = q.pc /\ r.synced = q.synced /\ r.edition = q.edition
      /\ r.file = q.file /\ r.line = q.line /\ r.imported = q.imported /\ r.skipped = q.skipped
  BY <1>1 DEF RunFrames
<1>3. ReadBy(r) = ReadBy(q)
  BY <1>2 DEF ReadBy
<1>4. RunOK(r)
  BY <1>2, <1>3 DEF RunOK
<1>5. \A tab : Written(q, tab) => Written(r, tab)
  BY <1>2 DEF Written
<1>6. QED
  BY <1>1, <1>2, <1>4, <1>5

LEMMA NewRun ==
  ASSUME NEW e \in Editions, NEW r, r.edition = e, r.file = 1, r.line = 0, r.pc = "upsert",
         r.imported = 0, r.skipped = 0
  PROVE  RunOK(r) /\ ReadBy(r) = {}
<1>1. Len(e) \in Nat \ {0} /\ DOMAIN e = 1..Len(e)
  BY EditionLines
<1>2. \A f \in DOMAIN e : Len(e[f]) \in Nat /\ DOMAIN e[f] = 1..Len(e[f])
  BY EditionLines
<1>3. 1 \in DOMAIN e /\ 0 \in 0..Len(e[1])
  BY <1>1, <1>2
<1>4. ASSUME NEW x \in ReadBy(r) PROVE FALSE
  <2>1. PICK f \in DOMAIN e : \E n \in DOMAIN e[f] : x = <<f, n>>
    BY InPositions DEF ReadBy
  <2>2. PICK n \in DOMAIN e[f] : x = <<f, n>>
    BY <2>1
  <2>3. f \in Nat /\ f >= 1 /\ n \in Nat /\ n >= 1
    BY <1>1, <1>2
  <2>4. f < 1 \/ n <= 0
    BY <2>2 DEF ReadBy
  <2>5. QED
    BY <2>3, <2>4
<1>5. NonBlank(e, ReadBy(r)) = {}
  BY <1>4 DEF NonBlank
<1>6. QED
  BY <1>3, <1>4, <1>5, FS_EmptySet DEF RunOK

LEMMA RunStarts ==
  ASSUME ImportInv, NEW p \in Runs, NEW e \in Editions, NEW m \in BOOLEAN, I!Start(p, e, m)
  PROVE  ImportInv'
<1>0. ImportTyped /\ RunsOK /\ I!OnlyMissingAreClosed
  BY DEF ImportInv
<1>1. PICK r : r = run'[p]
  OBVIOUS
<1>2. /\ clock' = clock + 1 /\ clock' \in 0..MaxStarts /\ UNCHANGED <<table, closing>>
      /\ clock \in Nat /\ closing.synced \in Nat
  <2>1. clock \in 0..MaxStarts /\ MaxStarts \in Nat /\ closing.synced \in Nat
    BY <1>0, ImportNumbers DEF ImportTyped
  <2>2. clock < MaxStarts /\ clock' = clock + 1 /\ UNCHANGED <<table, closing>>
    BY DEF I!Start
  <2>3. QED
    BY <2>1, <2>2
<1>3. run' = [q \in Runs |->
       IF q = p THEN [I!Idle EXCEPT !.pc = "upsert", !.edition = e, !.file = 1, !.synced = clock',
                                  !.closeMissing = m, !.alone = \A o \in Runs : run[o] = I!Idle]
       ELSE [run[q] EXCEPT !.alone = FALSE]]
  BY DEF I!Start
<1>4. /\ r \in RunFrames /\ r.edition = e /\ r.file = 1 /\ r.line = 0 /\ r.pc = "upsert"
      /\ r.imported = 0 /\ r.skipped = 0 /\ r.synced = clock'
      /\ r.alone => \A o \in Runs : run[o] = I!Idle
  <2>1. PICK a \in BOOLEAN : a = \A o \in Runs : run[o] = I!Idle
    OBVIOUS
  <2>2. r = [I!Idle EXCEPT !.pc = "upsert", !.edition = e, !.file = 1, !.synced = clock',
                          !.closeMissing = m, !.alone = a]
    BY <1>1, <1>3, <2>1
  <2>3. QED
    BY <1>2, <2>1, <2>2 DEF I!Idle, RunFrames
<1>5. ASSUME NEW o \in Runs, o # p
      PROVE  /\ run'[o] \in RunFrames /\ RunOK(run'[o]) /\ ~run'[o].alone
             /\ run'[o].pc = run[o].pc /\ run'[o].synced = run[o].synced
             /\ run'[o].pc # "idle" => Written(run'[o], table)
             /\ run[o] = I!Idle => run'[o] = I!Idle
  <2>1. run[o] \in RunFrames /\ RunOK(run[o]) /\ (run[o].pc # "idle" => Written(run[o], table))
    BY <1>0 DEF ImportTyped, RunsOK
  <2>2. run'[o] = [run[o] EXCEPT !.alone = FALSE]
    BY <1>3, <1>5
  <2>3. /\ run'[o] \in RunFrames /\ RunOK(run'[o]) /\ run'[o].pc = run[o].pc
        /\ run'[o].synced = run[o].synced /\ ~run'[o].alone
        /\ \A tab : Written(run[o], tab) => Written(run'[o], tab)
    BY <2>1, <2>2, NotAlone
  <2>4. run[o] = I!Idle => run'[o] = I!Idle
    BY <2>2, IdleRun
  <2>5. QED
    BY <2>1, <2>3, <2>4
<1>6. RunOK(r) /\ ReadBy(r) = {}
  BY <1>4, NewRun
<1>7. Written(r, table)
  <2>1. \A id \in Ids : table[id].synced # r.synced
    <3>1. ASSUME NEW id \in Ids PROVE table[id].synced \in Nat /\ table[id].synced <= clock
      BY <1>0 DEF ImportTyped, RunsOK, TableRows
    <3>2. QED
      BY <1>2, <1>4, <3>1
  <2>2. QED
    BY <1>6, <2>1 DEF Written
<1>8. ImportTyped'
  <2>1. ASSUME NEW o \in Runs PROVE run'[o] \in RunFrames /\ (run'[o] = I!Idle \/ run'[o].pc # "idle")
    <3>1. CASE o = p
      BY <1>1, <1>4, <3>1
    <3>2. CASE o # p
      BY <1>0, <1>5, <3>2 DEF ImportTyped
    <3>3. QED
      BY <3>1, <3>2
  <2>2. run' = [o \in Runs |-> run'[o]]
    BY <1>3
  <2>3. run' \in [Runs -> RunFrames]
    BY <2>1, <2>2
  <2>4. QED
    BY <1>0, <1>2, <2>1, <2>3 DEF ImportTyped
<1>9. RunsOK'
  <2>1. \A o \in Runs : RunOK(run[o])'
    BY <1>1, <1>5, <1>6
  <2>2. ASSUME NEW o \in Runs, run'[o].pc # "idle"
        PROVE  /\ run'[o].synced <= clock' /\ closing'.synced < run'[o].synced
               /\ run'[o].alone => run'[o].synced = clock' /\ \A oo \in Runs : run'[oo].pc # "idle" => oo = o
               /\ Written(run'[o], table')
    <3>1. CASE o = p
      <4>1. closing.synced <= clock
        BY <1>0 DEF RunsOK
      <4>2. r.alone => \A oo \in Runs : run'[oo].pc # "idle" => oo = p
        BY <1>4, <1>5, IdleRun
      <4>3. r.synced <= clock' /\ closing.synced < r.synced
        BY <1>2, <1>4, <4>1
      <4>4. QED
        BY <1>1, <1>2, <1>4, <1>7, <3>1, <4>2, <4>3
    <3>2. CASE o # p
      <4>1. run[o].synced <= clock /\ closing.synced < run[o].synced /\ run[o].synced \in Nat
        BY <1>0, <1>5, <2>2, <3>2 DEF RunsOK, ImportTyped, RunFrames
      <4>2. run'[o].synced <= clock' /\ closing.synced < run'[o].synced
        BY <1>2, <1>5, <3>2, <4>1
      <4>3. QED
        BY <1>2, <1>5, <2>2, <3>2, <4>2
    <3>3. QED
      BY <3>1, <3>2
  <2>3. ASSUME NEW o \in Runs, NEW oo \in Runs, run'[o].pc # "idle", run'[oo].pc # "idle",
               run'[o].synced = run'[oo].synced
        PROVE  o = oo
    <3>1. ASSUME NEW x \in Runs, x # p, run'[x].pc # "idle"
          PROVE  run'[x].synced \in Nat /\ run'[x].synced <= clock
      <4>1. run[x] \in RunFrames /\ run[x].pc # "idle" /\ run'[x].synced = run[x].synced
        BY <1>0, <1>5, <3>1 DEF ImportTyped
      <4>2. run[x].synced \in Nat /\ run[x].synced <= clock
        BY <1>0, <4>1 DEF RunsOK, RunFrames
      <4>3. QED
        BY <4>1, <4>2
    <3>2. \A x \in Runs : x # p /\ run'[x].pc # "idle" => run'[x].synced # clock'
      BY <1>2, <3>1
    <3>3. CASE o = p \/ oo = p
      BY <1>1, <1>4, <2>3, <3>2, <3>3
    <3>4. CASE o # p /\ oo # p
      BY <1>0, <1>5, <2>3, <3>4 DEF RunsOK
    <3>5. QED
      BY <3>3, <3>4
  <2>4. closing'.synced <= clock' /\ \A id \in Ids : table'[id].synced <= clock'
    <3>1. closing.synced <= clock
      BY <1>0 DEF RunsOK
    <3>2. ASSUME NEW id \in Ids PROVE table[id].synced <= clock + 1
      <4>1. table[id].synced \in Nat /\ table[id].synced <= clock
        BY <1>0 DEF ImportTyped, RunsOK, TableRows
      <4>2. QED
        BY <1>2, <4>1
    <3>3. QED
      BY <1>2, <3>1, <3>2
  <2>5. QED
    BY <2>1, <2>2, <2>3, <2>4 DEF RunsOK
<1>10. I!OnlyMissingAreClosed'
  BY <1>0, <1>2 DEF I!OnlyMissingAreClosed
<1>11. QED
  BY <1>8, <1>9, <1>10 DEF ImportInv

(* A run ends: it leaves what the others rely on.                          *)
LEMMA RunEnds ==
  ASSUME ImportInv, NEW p \in Runs, run[p].pc # "idle", run' = [run EXCEPT ![p] = I!Idle], clock' = clock,
         table' \in [Ids -> TableRows], \A id \in Ids : table'[id].synced = table[id].synced,
         closing' \in [synced: 0..MaxStarts, listed: SUBSET Ids],
         \/ closing' = closing \/ closing'.synced = 0
         \/ run[p].alone /\ closing'.synced = run[p].synced
  PROVE  ImportTyped' /\ RunsOK'
<1>0. ImportTyped /\ RunsOK
  BY DEF ImportInv
<1>1. run'[p] = I!Idle /\ \A o \in Runs : o # p => run'[o] = run[o]
  BY <1>0 DEF ImportTyped
<1>2. ImportTyped'
  <2>1. run' \in [Runs -> RunFrames]
    BY <1>0, IdleRun DEF ImportTyped
  <2>2. QED
    BY <1>0, <1>1, <2>1 DEF ImportTyped
<1>3. /\ run[p].synced <= clock /\ closing.synced <= clock
      /\ \A o \in Runs : run[o].pc # "idle" => closing.synced < run[o].synced /\ run[o].synced \in Nat
      /\ closing.synced \in Nat /\ clock \in Nat
  BY <1>0 DEF RunsOK, ImportTyped, RunFrames
<1>4. ASSUME NEW o \in Runs, o # p, run[o].pc # "idle" PROVE ~run[o].alone /\ ~run[p].alone
  BY <1>0, <1>4 DEF RunsOK
<1>5. ASSUME NEW o \in Runs, o # p, run[o].pc # "idle" PROVE Written(run[o], table')
  <2>1. Written(run[o], table) /\ ~run[o].alone
    BY <1>0, <1>4, <1>5 DEF RunsOK
  <2>2. QED
    BY <2>1 DEF Written
<1>6. ASSUME NEW o \in Runs, o # p, run[o].pc # "idle" PROVE closing'.synced < run[o].synced
  BY <1>3, <1>4, <1>6
<1>7. closing'.synced <= clock'
  BY <1>3
<1>8. RunsOK'
  <2>1. \A o \in Runs : RunOK(run[o])'
    BY <1>0, <1>1, IdleRun DEF RunsOK
  <2>2. ASSUME NEW o \in Runs, run'[o].pc # "idle"
        PROVE  /\ run'[o].synced <= clock' /\ closing'.synced < run'[o].synced
               /\ run'[o].alone => run'[o].synced = clock' /\ \A oo \in Runs : run'[oo].pc # "idle" => oo = o
               /\ Written(run'[o], table')
    <3>1. o # p /\ run'[o] = run[o] /\ run[o].pc # "idle"
      BY <1>1, <2>2, IdleRun
    <3>2. ~run[o].alone /\ Written(run[o], table') /\ closing'.synced < run[o].synced
      BY <1>4, <1>5, <1>6, <3>1
    <3>3. run[o].synced <= clock
      BY <1>0, <3>1 DEF RunsOK
    <3>4. QED
      BY <3>1, <3>2, <3>3
  <2>3. \A o, oo \in Runs :
          run'[o].pc # "idle" /\ run'[oo].pc # "idle" /\ run'[o].synced = run'[oo].synced => o = oo
    BY <1>0, <1>1, IdleRun DEF RunsOK
  <2>4. \A id \in Ids : table'[id].synced <= clock'
    BY <1>0 DEF RunsOK
  <2>5. QED
    BY <1>7, <2>1, <2>2, <2>3, <2>4 DEF RunsOK
<1>9. QED
  BY <1>2, <1>8

LEMMA RunCloses == ASSUME ImportInv, NEW p \in Runs, I!Close(p) PROVE ImportInv'
<1>0. ImportTyped /\ RunsOK /\ I!OnlyMissingAreClosed
  BY DEF ImportInv
<1>1. PICK q : q = run[p] /\ q.pc = "close" /\ q.pc # "idle"
  BY DEF I!Close
<1>2. /\ q.edition \in Editions /\ ReadBy(q) = I!Positions(q.edition) /\ Written(q, table)
      /\ q.synced \in 0..MaxStarts
  BY <1>0, <1>1 DEF RunsOK, RunOK, ReadBy, ImportTyped, RunFrames
<1>3. run' = [run EXCEPT ![p] = I!Idle] /\ clock' = clock
  BY DEF I!Close
<1>4. CASE q.closeMissing
  <2>1. /\ table' = [id \in Ids |-> IF table[id].synced < q.synced /\ table[id] # I!Absent
                                   THEN [table[id] EXCEPT !.closed = TRUE] ELSE table[id]]
        /\ closing' = I!Closing(p)
    BY <1>1, <1>4 DEF I!Close
  <2>2. ASSUME NEW id \in Ids
        PROVE  /\ table'[id] \in TableRows /\ table'[id].synced = table[id].synced
               /\ table[id].synced < q.synced /\ table[id] # I!Absent => table'[id].closed
               /\ ~(table[id].synced < q.synced /\ table[id] # I!Absent) => table'[id] = table[id]
    <3>1. table[id] \in TableRows
      BY <1>0 DEF ImportTyped
    <3>2. QED
      BY <2>1, <3>1 DEF TableRows
  <2>3. table' \in [Ids -> TableRows]
    <3>1. table' = [id \in Ids |-> table'[id]]
      BY <2>1
    <3>2. QED
      BY <2>2, <3>1
  <2>4. CASE q.alone
    <3>1. closing'.synced = q.synced /\ closing'.listed = I!Listed(q.edition)
          /\ closing' \in [synced: 0..MaxStarts, listed: SUBSET Ids]
      BY <1>1, <1>2, <2>1, <2>4 DEF I!Closing, I!Listed
    <3>2. ImportTyped' /\ RunsOK'
      BY <1>1, <1>3, <2>2, <2>3, <2>4, <3>1, RunEnds
    <3>3. ASSUME NEW id \in Ids
          PROVE  /\ id \in closing'.listed => ~table'[id].closed
                 /\ id \notin closing'.listed /\ table'[id] # I!Absent /\ table'[id].synced <= closing'.synced
                      => table'[id].closed
      <4>1. table[id].synced \in Nat /\ q.synced \in Nat
        BY <1>0, <1>2 DEF ImportTyped, TableRows
      <4>2. CASE id \in I!Listed(q.edition)
        <5>1. PICK x \in I!About(id, q.edition) : TRUE
          BY <4>2 DEF I!Listed
        <5>2. x \in ReadBy(q)
          BY <1>2, <5>1 DEF I!About
        <5>3. table[id].synced = q.synced /\ ~table[id].closed
          BY <1>2, <2>4, <5>1, <5>2 DEF Written
        <5>4. QED
          BY <2>2, <3>1, <4>1, <4>2, <5>3
      <4>3. CASE id \notin I!Listed(q.edition)
        <5>1. table[id].synced # q.synced
          BY <1>2, <4>3 DEF Written
        <5>2. QED
          BY <2>2, <3>1, <4>1, <4>3, <5>1
      <4>4. QED
        BY <4>2, <4>3
    <3>4. I!OnlyMissingAreClosed'
      BY <3>3 DEF I!OnlyMissingAreClosed
    <3>5. QED
      BY <3>2, <3>4 DEF ImportInv
  <2>5. CASE ~q.alone
    <3>1. closing'.synced = 0 /\ closing' \in [synced: 0..MaxStarts, listed: SUBSET Ids]
      BY <1>1, <2>1, <2>5, ImportNumbers DEF I!Closing, I!NoClosing
    <3>2. ImportTyped' /\ RunsOK'
      BY <1>1, <1>3, <2>2, <2>3, <3>1, RunEnds
    <3>3. I!OnlyMissingAreClosed'
      BY <3>1 DEF I!OnlyMissingAreClosed
    <3>4. QED
      BY <3>2, <3>3 DEF ImportInv
  <2>6. QED
    BY <2>4, <2>5
<1>5. CASE ~q.closeMissing
  <2>1. UNCHANGED <<table, closing>>
    BY <1>1, <1>5 DEF I!Close
  <2>2. ImportTyped' /\ RunsOK'
    BY <1>0, <1>1, <1>3, <2>1, RunEnds DEF ImportTyped
  <2>3. QED
    BY <1>0, <2>1, <2>2 DEF ImportInv, I!OnlyMissingAreClosed
<1>6. QED
  BY <1>4, <1>5

LEMMA RunAborts == ASSUME ImportInv, NEW p \in Runs, I!Abort(p) PROVE ImportInv'
<1>1. /\ run[p] # I!Idle /\ run' = [run EXCEPT ![p] = I!Idle] /\ clock' = clock
      /\ UNCHANGED <<table, closing>>
  BY DEF I!Abort
<1>2. ImportTyped /\ I!OnlyMissingAreClosed /\ run[p].pc # "idle"
  BY <1>1 DEF ImportInv, ImportTyped
<1>3. ImportTyped' /\ RunsOK'
  BY <1>1, <1>2, RunEnds DEF ImportTyped
<1>4. QED
  BY <1>1, <1>2, <1>3 DEF ImportInv, I!OnlyMissingAreClosed

LEMMA ImportNext == ImportInv /\ [I!Next]_I!vars => ImportInv'
<1> SUFFICES ASSUME ImportInv, [I!Next]_I!vars PROVE ImportInv'
  OBVIOUS
<1>1. CASE I!Next
  <2>1. PICK p \in Runs : \/ \E e \in Editions, m \in BOOLEAN : I!Start(p, e, m)
                          \/ I!Upsert(p) \/ I!Close(p) \/ I!Abort(p)
    BY <1>1 DEF I!Next
  <2>2. QED
    BY <2>1, RunStarts, Upserted, RunCloses, RunAborts
<1>2. CASE UNCHANGED I!vars
  BY <1>2 DEF I!vars, ImportInv, ImportTyped, RunsOK, I!OnlyMissingAreClosed
<1>3. QED
  BY <1>1, <1>2

-----------------------------------------------------------------------------
(* The parser of lines (module CsvLine): where the writer has put every    *)
(* character, and what the parser has of it.                               *)

(* Pieces one after the other, each from where the last one ended.         *)
Laid(pieces, whole, at) ==
  /\ at \in [1..Len(pieces) + 1 -> Nat] /\ at[1] = 0 /\ at[Len(pieces) + 1] = Len(whole)
  /\ \A k \in 1..Len(pieces) :
       /\ at[k + 1] = at[k] + Len(pieces[k]) /\ at[k + 1] <= Len(whole)
       /\ \A j \in 1..Len(pieces[k]) : whole[at[k] + j] = pieces[k][j]

(* f concatenates the first n pieces, for each n.                          *)
IsFlat(f, pieces, last) ==
  f = [n \in 1..last |-> IF n = 1 THEN pieces[n] ELSE f[n - 1] \o pieces[n]]

LEMMA FlattenIsFlat ==
  ASSUME NEW pieces, Len(pieces) # 0
  PROVE  C!FlattenSeq(pieces) = (CHOOSE f : IsFlat(f, pieces, Len(pieces)))[Len(pieces)]
BY DEF C!FlattenSeq, IsFlat

LEMMA NatSetInduction ==
  ASSUME NEW K, 0 \in K, \A n \in Nat : n \in K => n + 1 \in K
  PROVE  Nat \subseteq K
<1> SUFFICES ASSUME Nat \ K # {} PROVE FALSE
  OBVIOUS
<1>1. PICK n \in Nat \ K : \A m \in Nat \ K : n <= m
  <2> DEFINE Missing == Nat \ K
  <2>1. Missing \in SUBSET Nat /\ Missing # {}
    OBVIOUS
  <2> HIDE DEF Missing
  <2>2. \E n \in Missing : \A m \in Missing : n <= m
    BY <2>1, LeastOf
  <2>3. QED
    BY <2>2 DEF Missing
<1>2. n # 0 /\ n - 1 \in Nat /\ ~(n <= n - 1) /\ n = (n - 1) + 1
  BY <1>1
<1>3. QED
  BY <1>1, <1>2

LEMMA FlatExists == ASSUME NEW pieces, NEW last \in Nat PROVE \E f : IsFlat(f, pieces, last)
<1> DEFINE Good == {m \in Nat : \E f : IsFlat(f, pieces, m)}
<1>1. 0 \in Good
  <2>1. PICK f : f = [n \in 1..0 |-> pieces[n]]
    OBVIOUS
  <2>2. IsFlat(f, pieces, 0)
    BY <2>1 DEF IsFlat
  <2>3. QED
    BY <2>2
<1>2. ASSUME NEW m \in Nat, m \in Good PROVE m + 1 \in Good
  <2>1. PICK f : IsFlat(f, pieces, m)
    BY <1>2
  <2>2. PICK g : g = [n \in 1..(m + 1) |-> IF n = m + 1
                                          THEN IF n = 1 THEN pieces[n] ELSE f[m] \o pieces[n]
                                          ELSE f[n]]
    OBVIOUS
  <2>3. \A n \in 1..m : g[n] = f[n]
    BY <2>2
  <2>4. ASSUME NEW n \in 1..(m + 1) PROVE g[n] = IF n = 1 THEN pieces[n] ELSE g[n - 1] \o pieces[n]
    <3>1. CASE n = m + 1
      <4>1. CASE n = 1
        BY <2>2, <3>1, <4>1
      <4>2. CASE n # 1
        <5>1. m \in 1..m /\ n - 1 = m
          BY <3>1, <4>2
        <5>2. g[n] = f[m] \o pieces[n]
          BY <2>2, <3>1, <4>2
        <5>3. QED
          BY <2>3, <4>2, <5>1, <5>2
      <4>3. QED
        BY <4>1, <4>2
    <3>2. CASE n # m + 1
      <4>1. n \in 1..m
        BY <3>2
      <4>2. f[n] = IF n = 1 THEN pieces[n] ELSE f[n - 1] \o pieces[n]
        BY <2>1, <4>1 DEF IsFlat
      <4>3. n # 1 => n - 1 \in 1..m
        BY <4>1
      <4>4. QED
        BY <2>3, <4>1, <4>2, <4>3
    <3>3. QED
      BY <3>1, <3>2
  <2>5. g = [n \in 1..(m + 1) |-> IF n = 1 THEN pieces[n] ELSE g[n - 1] \o pieces[n]]
    BY <2>2, <2>4
  <2>7. IsFlat(g, pieces, m + 1)
    BY <2>5 DEF IsFlat
  <2>6. QED
    BY <2>7
<1>3. Nat \subseteq Good
  <2> HIDE DEF Good
  <2>1. QED
    BY <1>1, <1>2, NatSetInduction
<1>4. QED
  BY <1>3

LEMMA Concatenated ==
  ASSUME NEW chars, NEW a \in Seq(chars), NEW b \in Seq(chars)
  PROVE  /\ a \o b \in Seq(chars) /\ Len(a \o b) = Len(a) + Len(b)
         /\ \A k \in 1..Len(a) : (a \o b)[k] = a[k]
         /\ \A k \in 1..Len(b) : (a \o b)[Len(a) + k] = b[k]
OBVIOUS

LEMMA Flattened ==
  ASSUME NEW chars, NEW pieces \in Seq(Seq(chars))
  PROVE  C!FlattenSeq(pieces) \in Seq(chars) /\ \E at : Laid(pieces, C!FlattenSeq(pieces), at)
<1>1. CASE Len(pieces) = 0
  <2>1. C!FlattenSeq(pieces) = << >> /\ Len(<< >>) = 0 /\ << >> \in Seq(chars)
    BY <1>1 DEF C!FlattenSeq
  <2>2. PICK at : at = [k \in 1..1 |-> 0]
    OBVIOUS
  <2>3. Laid(pieces, << >>, at)
    BY <1>1, <2>1, <2>2 DEF Laid
  <2>4. QED
    BY <2>1, <2>3
<1>2. CASE Len(pieces) # 0
  <2>1. PICK n \in Nat \ {0} : n = Len(pieces)
    BY <1>2
  <2>2. PICK f : f = CHOOSE g : IsFlat(g, pieces, n)
    OBVIOUS
  <2>3. IsFlat(f, pieces, n)
    BY <2>2, FlatExists
  <2>4. \A m \in 1..n : f[m] = IF m = 1 THEN pieces[m] ELSE f[m - 1] \o pieces[m]
    BY <2>1, <2>3 DEF IsFlat
  <2>5. f[1] = pieces[1] /\ \A m \in 1..n : m + 1 \in 1..n => f[m + 1] = f[m] \o pieces[m + 1]
    <3>1. 1 \in 1..n /\ \A m \in 1..n : m + 1 # 1 /\ (m + 1) - 1 = m
      OBVIOUS
    <3>2. QED
      BY <2>4, <3>1
  <2>6. \A m \in 1..n : pieces[m] \in Seq(chars)
    BY <2>1
  <2>7. \A m \in 1..n : f[m] \in Seq(chars)
    <3> DEFINE Good == {m \in Nat : m \in 1..n => f[m] \in Seq(chars)}
    <3>1. 0 \in Good
      OBVIOUS
    <3>2. ASSUME NEW m \in Nat, m \in Good PROVE m + 1 \in Good
      <4>1. CASE m = 0
        BY <2>5, <2>6, <4>1
      <4>2. CASE m # 0 /\ m + 1 \in 1..n
        <5>1. m \in 1..n /\ f[m] \in Seq(chars) /\ pieces[m + 1] \in Seq(chars)
          BY <2>6, <3>2, <4>2
        <5>2. f[m + 1] = f[m] \o pieces[m + 1]
          BY <2>5, <4>2, <5>1
        <5>3. PICK a \in Seq(chars), b \in Seq(chars) : a = f[m] /\ b = pieces[m + 1]
          BY <5>1
        <5>4. a \o b \in Seq(chars)
          BY Concatenated
        <5>5. a \o b = f[m + 1]
          BY <5>2, <5>3
        <5>6. QED
          BY <5>4, <5>5
      <4>3. QED
        BY <4>1, <4>2
    <3>3. Nat \subseteq Good
      <4> HIDE DEF Good
      <4>1. QED
        BY <3>1, <3>2, NatSetInduction
    <3>4. QED
      BY <3>3
  <2>8. PICK at : at = [k \in 1..(n + 1) |-> IF k = 1 THEN 0 ELSE Len(f[k - 1])]
    OBVIOUS
  <2>9. /\ at \in [1..(n + 1) -> Nat] /\ at[1] = 0
        /\ \A k \in 1..n : at[k + 1] = Len(f[k])
    <3>1. \A k \in 1..(n + 1) : k # 1 => k - 1 \in 1..n
      OBVIOUS
    <3>2. \A k \in 1..n : k + 1 \in 1..(n + 1) /\ k + 1 # 1 /\ (k + 1) - 1 = k
      OBVIOUS
    <3>3. \A m \in 1..n : Len(f[m]) \in Nat
      BY <2>7
    <3>4. \A k \in 1..(n + 1) : at[k] = IF k = 1 THEN 0 ELSE Len(f[k - 1])
      BY <2>8
    <3>5. DOMAIN at = 1..(n + 1) /\ at = [k \in 1..(n + 1) |-> at[k]]
      BY <2>8
    <3>6. \A k \in 1..(n + 1) : at[k] \in Nat
      BY <3>1, <3>3, <3>4
    <3>7. at \in [1..(n + 1) -> Nat]
      BY <3>5, <3>6
    <3>8. 1 \in 1..(n + 1)
      OBVIOUS
    <3>9. QED
      BY <3>2, <3>4, <3>7, <3>8
  <2>10. \A k \in 1..n : Len(f[k]) = at[k] + Len(pieces[k]) /\ at[k] \in Nat /\ Len(pieces[k]) \in Nat
    <3>1. SUFFICES ASSUME NEW k \in 1..n
                   PROVE Len(f[k]) = at[k] + Len(pieces[k]) /\ at[k] \in Nat /\ Len(pieces[k]) \in Nat
      OBVIOUS
    <3>2. at[k] \in Nat /\ Len(pieces[k]) \in Nat
      BY <2>6, <2>9
    <3>3. CASE k = 1
      BY <2>5, <2>9, <3>2, <3>3
    <3>4. CASE k # 1
      <4>1. PICK m \in 1..n : k = m + 1
        BY <3>4
      <4>2. f[k] = f[m] \o pieces[k] /\ at[k] = Len(f[m])
        BY <2>5, <2>9, <4>1
      <4>3. QED
        BY <2>6, <2>7, <3>2, <4>2, Concatenated
    <3>5. QED
      BY <3>3, <3>4
  <2> DEFINE Kept(m) == \A k \in 1..m : /\ Len(f[k]) <= Len(f[m])
                                        /\ \A j \in 1..Len(pieces[k]) : f[m][at[k] + j] = pieces[k][j]
  <2>11. Kept(1)
    BY <2>5, <2>6, <2>9
  <2>12. ASSUME NEW m \in 1..n, m + 1 \in 1..n, Kept(m) PROVE Kept(m + 1)
    <3>1. f[m + 1] = f[m] \o pieces[m + 1] /\ f[m] \in Seq(chars) /\ pieces[m + 1] \in Seq(chars)
      BY <2>5, <2>6, <2>7, <2>12
    <3>2. /\ Len(f[m + 1]) = Len(f[m]) + Len(pieces[m + 1])
          /\ Len(f[m]) \in Nat /\ Len(pieces[m + 1]) \in Nat
          /\ \A j \in 1..Len(f[m]) : f[m + 1][j] = f[m][j]
          /\ \A j \in 1..Len(pieces[m + 1]) : f[m + 1][Len(f[m]) + j] = pieces[m + 1][j]
      <4>1. PICK a \in Seq(chars), b \in Seq(chars) : a = f[m] /\ b = pieces[m + 1]
        BY <3>1
      <4>2. /\ Len(a \o b) = Len(a) + Len(b) /\ Len(a) \in Nat /\ Len(b) \in Nat
            /\ \A j \in 1..Len(a) : (a \o b)[j] = a[j]
            /\ \A j \in 1..Len(b) : (a \o b)[Len(a) + j] = b[j]
        BY Concatenated
      <4>3. QED
        BY <3>1, <4>1, <4>2
    <3>5. Len(f[m]) <= Len(f[m + 1]) /\ Len(f[m]) \in Nat /\ Len(f[m + 1]) \in Nat
      <4>1. PICK p \in Nat, q \in Nat : p = Len(f[m]) /\ q = Len(pieces[m + 1])
        BY <3>2
      <4>2. Len(f[m + 1]) = p + q
        BY <3>2, <4>1
      <4>3. PICK t : t = Len(f[m + 1])
        OBVIOUS
      <4>4. t = p + q
        BY <4>2, <4>3
      <4>5. t \in Nat /\ p <= t
        BY <4>4
      <4>6. QED
        BY <4>1, <4>3, <4>5
    <3>3. ASSUME NEW k \in 1..(m + 1)
          PROVE  /\ Len(f[k]) <= Len(f[m + 1])
                 /\ \A j \in 1..Len(pieces[k]) : f[m + 1][at[k] + j] = pieces[k][j]
      <4>1. CASE k = m + 1
        <5>1. at[k] = Len(f[m]) /\ Len(f[k]) = Len(f[m + 1])
          BY <2>9, <4>1
        <5>2. ASSUME NEW j \in 1..Len(pieces[k]) PROVE f[m + 1][at[k] + j] = pieces[k][j]
          BY <3>2, <4>1, <5>1
        <5>3. QED
          BY <3>2, <5>1, <5>2
      <4>2. CASE k # m + 1
        <5>1. k \in 1..m /\ k \in 1..n
          BY <4>2
        <5>2. Len(f[k]) <= Len(f[m]) /\ Len(f[k]) = at[k] + Len(pieces[k])
              /\ at[k] \in Nat /\ Len(pieces[k]) \in Nat
          BY <2>10, <2>12, <5>1
        <5>3. ASSUME NEW j \in 1..Len(pieces[k]) PROVE f[m + 1][at[k] + j] = pieces[k][j]
          <6>1. at[k] + j \in 1..Len(f[m])
            <7>1. PICK c \in Nat, l \in Nat, w \in Nat : c = at[k] /\ l = Len(pieces[k]) /\ w = Len(f[m])
              BY <3>5, <5>2
            <7>2. c + l <= w /\ j \in 1..l
              BY <5>2, <7>1
            <7>3. c + j \in 1..w
              BY <7>2
            <7>4. QED
              BY <7>1, <7>3
          <6>2. f[m][at[k] + j] = pieces[k][j]
            BY <2>12, <5>1
          <6>3. QED
            BY <3>2, <6>1, <6>2
        <5>4. Len(f[k]) <= Len(f[m + 1])
          <6>1. PICK c \in Nat, l \in Nat, w \in Nat, z \in Nat :
                  /\ c = at[k] /\ l = Len(pieces[k]) /\ w = Len(f[m]) /\ z = Len(f[m + 1])
            BY <3>5, <5>2
          <6>2. Len(f[k]) = c + l /\ c + l <= w /\ w <= z
            BY <3>5, <5>2, <6>1
          <6>3. c + l <= z
            BY <6>2
          <6>4. QED
            BY <6>1, <6>2, <6>3
        <5>5. QED
          BY <5>3, <5>4
      <4>3. QED
        BY <4>1, <4>2
    <3>4. QED
      BY <3>3
  <2>13. Kept(n)
    <3> DEFINE Good == {m \in Nat : m \in 1..n => Kept(m)}
    <3>1. 0 \in Good
      OBVIOUS
    <3>2. ASSUME NEW m \in Nat, m \in Good PROVE m + 1 \in Good
      <4> HIDE DEF Kept
      <4>1. CASE m = 0
        BY <2>11, <4>1
      <4>2. CASE m # 0 /\ m + 1 \in 1..n
        BY <2>12, <3>2, <4>2
      <4>3. QED
        BY <4>1, <4>2
    <3>3. Nat \subseteq Good
      <4> HIDE DEF Good
      <4>1. QED
        BY <3>1, <3>2, NatSetInduction
    <3> HIDE DEF Kept
    <3>4. QED
      BY <3>3
  <2>14. C!FlattenSeq(pieces) = f[n]
    BY <1>2, <2>1, <2>2, FlattenIsFlat
  <2>15. Laid(pieces, f[n], at)
    <3>1. n \in 1..n /\ at[n + 1] = Len(f[n])
      BY <2>9
    <3>2. ASSUME NEW k \in 1..n
          PROVE  /\ at[k + 1] = at[k] + Len(pieces[k]) /\ at[k + 1] <= Len(f[n])
                 /\ \A j \in 1..Len(pieces[k]) : f[n][at[k] + j] = pieces[k][j]
      BY <2>9, <2>10, <2>13
    <3>3. QED
      BY <2>1, <2>9, <3>1, <3>2 DEF Laid
  <2>16. n \in 1..n
    OBVIOUS
  <2>17. QED
    BY <2>7, <2>14, <2>15, <2>16
<1>3. QED
  BY <1>1, <1>2

(* A value that is written as it is, between from and to.                  *)
Plain(from, to, v) ==
  /\ to = from + Len(v)
  /\ \A j \in 1..Len(v) : text[from + j] = v[j] /\ v[j] \notin {C!Quote, C!Comma}

(* A value in quotes, its characters from the positions o, a quote twice.  *)
InQuotes(from, to, v, o) ==
  /\ o \in [1..Len(v) + 1 -> Nat] /\ o[1] = from + 1 /\ to = o[Len(v) + 1] + 1
  /\ text[from + 1] = C!Quote /\ text[to] = C!Quote
  /\ \A j \in 1..Len(v) + 1 : o[j] + 1 <= to
  /\ \A j \in 1..Len(v) :
       /\ text[o[j] + 1] = v[j]
       /\ v[j] = C!Quote => text[o[j] + 2] = C!Quote /\ o[j + 1] = o[j] + 2
       /\ v[j] # C!Quote => o[j + 1] = o[j] + 1

(* The fields of the row, with a comma between each and the next.          *)
Separated(from, to) ==
  /\ from \in [DOMAIN row -> Nat] /\ to \in [DOMAIN row -> Nat] /\ from[1] = 0
  /\ \A k \in DOMAIN row :
       /\ from[k] <= to[k] /\ to[k] <= Len(text)
       /\ k = Len(row) => to[k] = Len(text)
       /\ k # Len(row) => to[k] < Len(text) /\ text[to[k] + 1] = C!Comma /\ from[k + 1] = to[k] + 1
Layout(from, to, o) ==
  /\ Separated(from, to)
  /\ \A k \in DOMAIN row : Plain(from[k], to[k], row[k]) \/ InQuotes(from[k], to[k], row[k], o[k])

(* What the parser has of a sequence is how it begins.                     *)
Begins(some, whole) == Len(some) <= Len(whole) /\ \A j \in 1..Len(some) : some[j] = whole[j]

(* In a field: outside of quotes, before them, in them, or after them.     *)
Reading(from, to, v, o) ==
  /\ Begins(field, v)
  /\ \/ Plain(from, to, v) /\ ~quoted /\ pos = from + Len(field) + 1
     \/ /\ InQuotes(from, to, v, o)
        /\ \/ ~quoted /\ Len(field) = 0 /\ pos = from + 1
           \/ quoted /\ pos = o[Len(field) + 1] + 1
           \/ ~quoted /\ Len(field) = Len(v) /\ pos = to + 1

Progress(from, to, o) ==
  /\ Begins(fields, row)
  /\ \/ pos = Len(text) + 2 /\ Len(fields) = Len(row) /\ ~quoted
     \/ /\ Len(fields) < Len(row)
        /\ LET k == Len(fields) + 1 IN Reading(from[k], to[k], row[k], o[k])

CsvTyped ==
  /\ row \in C!Rows /\ text \in Seq(C!Chars) /\ pos \in Nat /\ quoted \in BOOLEAN
  /\ field \in Seq(C!Chars) /\ fields \in Seq(Seq(C!Chars))

CsvInv == CsvTyped /\ \E from, to, o : Layout(from, to, o) /\ Progress(from, to, o)

LEMMA CsvChars ==
  /\ C!Quote \in C!Chars /\ C!Comma \in C!Chars /\ C!Quote # C!Comma
BY DEF C!Quote, C!Comma, C!Chars

LEMMA RowIs ==
  ASSUME NEW r \in C!Rows
  PROVE  /\ r \in Seq(Seq(C!Chars)) /\ Len(r) \in Nat \ {0} /\ DOMAIN r = 1..Len(r)
         /\ \A k \in 1..Len(r) : r[k] \in Seq(C!Chars) /\ Len(r[k]) \in Nat /\ DOMAIN r[k] = 1..Len(r[k])
<1>1. PICK n \in 1..MaxFields : r \in [1..n -> C!Values]
  BY DEF C!Rows
<1>2. \A v \in C!Values : v \in Seq(C!Chars)
  <2>1. SUFFICES ASSUME NEW v \in C!Values PROVE v \in Seq(C!Chars)
    OBVIOUS
  <2>2. PICK m \in 0..MaxField : v \in [1..m -> C!Chars]
    BY DEF C!Values
  <2>3. m \in Nat
    BY RestaurantsAssumption DEF C!CsvLineAssumption
  <2>4. QED
    BY <2>2, <2>3
<1>3. n \in Nat \ {0}
  BY RestaurantsAssumption DEF C!CsvLineAssumption
<1>4. r \in [1..n -> Seq(C!Chars)]
  BY <1>1, <1>2
<1>5. r \in Seq(Seq(C!Chars)) /\ Len(r) = n
  BY <1>3, <1>4
<1>6. QED
  BY <1>3, <1>4, <1>5

(* What the writer puts for a value in quotes: w, whose j-th character     *)
(* comes after the position q[j].                                          *)
Encodes(w, v, q) ==
  /\ q \in [1..Len(v) + 1 -> Nat] /\ q[1] = 1 /\ Len(w) = q[Len(v) + 1] + 1
  /\ w[1] = C!Quote /\ w[q[Len(v) + 1] + 1] = C!Quote
  /\ \A j \in 1..Len(v) + 1 : q[j] + 1 <= q[Len(v) + 1] + 1
  /\ \A j \in 1..Len(v) :
       /\ w[q[j] + 1] = v[j]
       /\ v[j] = C!Quote => w[q[j] + 2] = C!Quote /\ q[j + 1] = q[j] + 2
       /\ v[j] # C!Quote => q[j + 1] = q[j] + 1

LEMMA QuotedIs ==
  ASSUME NEW v \in Seq(C!Chars)
  PROVE  C!Quoted(v) \in Seq(C!Chars) /\ \E q : Encodes(C!Quoted(v), v, q)
<1>1. PICK n \in Nat : n = Len(v) /\ DOMAIN v = 1..n
  OBVIOUS
<1>2. PICK p : p = [i \in DOMAIN v |-> IF v[i] = C!Quote THEN <<C!Quote, C!Quote>> ELSE <<v[i]>>]
  OBVIOUS
<1>3. \A i \in 1..n : /\ p[i] \in Seq(C!Chars)
                      /\ v[i] = C!Quote => p[i] = <<C!Quote, C!Quote>> /\ Len(p[i]) = 2
                      /\ v[i] # C!Quote => p[i] = <<v[i]>> /\ Len(p[i]) = 1
                      /\ p[i][1] = v[i]
  <2>1. SUFFICES ASSUME NEW i \in 1..n
                 PROVE  /\ p[i] \in Seq(C!Chars)
                        /\ v[i] = C!Quote => p[i] = <<C!Quote, C!Quote>> /\ Len(p[i]) = 2
                        /\ v[i] # C!Quote => p[i] = <<v[i]>> /\ Len(p[i]) = 1
                        /\ p[i][1] = v[i]
    OBVIOUS
  <2>2. PICK c \in C!Chars : c = v[i]
    BY <1>1
  <2>3. p[i] = IF c = C!Quote THEN <<C!Quote, C!Quote>> ELSE <<c>>
    BY <1>1, <1>2, <2>2
  <2>4. /\ <<c>> \in Seq(C!Chars) /\ Len(<<c>>) = 1 /\ <<c>>[1] = c
        /\ <<C!Quote, C!Quote>> \in Seq(C!Chars) /\ Len(<<C!Quote, C!Quote>>) = 2
        /\ <<C!Quote, C!Quote>>[1] = C!Quote
    BY CsvChars
  <2>5. QED
    BY <2>2, <2>3, <2>4
<1>4. p \in Seq(Seq(C!Chars)) /\ Len(p) = n
  <2>1. p \in [1..n -> Seq(C!Chars)]
    BY <1>1, <1>2, <1>3
  <2>2. QED
    BY <2>1
<1>5. PICK e \in Seq(C!Chars) : e = C!FlattenSeq(p) /\ \E at : Laid(p, e, at)
  BY <1>4, Flattened
<1>6. PICK at : Laid(p, e, at)
  BY <1>5
<1>7. /\ at \in [1..(n + 1) -> Nat] /\ at[1] = 0 /\ at[n + 1] = Len(e)
      /\ \A k \in 1..n : /\ at[k + 1] = at[k] + Len(p[k]) /\ at[k + 1] <= Len(e)
                         /\ \A j \in 1..Len(p[k]) : e[at[k] + j] = p[k][j]
  BY <1>4, <1>6 DEF Laid
<1>8. PICK w : w = C!Quoted(v)
  OBVIOUS
<1>9. w = (<<C!Quote>> \o e) \o <<C!Quote>>
  BY <1>2, <1>5, <1>8 DEF C!Quoted
<1>10. /\ w \in Seq(C!Chars) /\ Len(w) = Len(e) + 2 /\ Len(e) \in Nat
       /\ w[1] = C!Quote /\ w[Len(e) + 2] = C!Quote
       /\ \A j \in 1..Len(e) : w[j + 1] = e[j]
  BY <1>9, CsvChars
<1>11. PICK q : q = [j \in 1..(n + 1) |-> at[j] + 1]
  OBVIOUS
<1>12. q \in [1..(n + 1) -> Nat] /\ \A j \in 1..(n + 1) : q[j] = at[j] + 1
  BY <1>7, <1>11
<1>13. 1 \in 1..(n + 1) /\ n + 1 \in 1..(n + 1) /\ q[1] = 1 /\ q[n + 1] = Len(e) + 1
  BY <1>7, <1>12
<1>14. ASSUME NEW j \in 1..(n + 1) PROVE q[j] + 1 <= q[n + 1] + 1
  <2>1. at[j] \in Nat /\ q[j] = at[j] + 1
    BY <1>7, <1>12
  <2>2. at[j] <= Len(e)
    <3>1. CASE j = 1
      BY <1>7, <1>10, <3>1
    <3>2. CASE j # 1
      <4>1. PICK k \in 1..n : j = k + 1
        BY <3>2
      <4>2. QED
        BY <1>7, <4>1
    <3>3. QED
      BY <3>1, <3>2
  <2>3. QED
    BY <1>10, <1>13, <2>1, <2>2
<1>15. ASSUME NEW j \in 1..n
       PROVE  /\ w[q[j] + 1] = v[j]
              /\ v[j] = C!Quote => w[q[j] + 2] = C!Quote /\ q[j + 1] = q[j] + 2
              /\ v[j] # C!Quote => q[j + 1] = q[j] + 1
  <2>1. /\ at[j] \in Nat /\ at[j + 1] = at[j] + Len(p[j]) /\ at[j + 1] <= Len(e)
        /\ \A i \in 1..Len(p[j]) : e[at[j] + i] = p[j][i]
        /\ j \in 1..(n + 1) /\ j + 1 \in 1..(n + 1)
    <3>1. j \in 1..(n + 1) /\ j + 1 \in 1..(n + 1)
      OBVIOUS
    <3>2. at[j] \in Nat
      BY <1>7, <3>1
    <3>3. QED
      BY <1>7, <3>1, <3>2
  <2>2. q[j] = at[j] + 1 /\ q[j + 1] = at[j + 1] + 1
    BY <1>12, <2>1
  <2>3. CASE v[j] = C!Quote
    <3>1. Len(p[j]) = 2 /\ p[j][1] = C!Quote /\ p[j][2] = C!Quote
      BY <1>3, <2>3
    <3>2. at[j] + 1 \in 1..Len(e) /\ at[j] + 2 \in 1..Len(e) /\ 1 \in 1..2 /\ 2 \in 1..2
      <4>1. PICK c \in Nat, l \in Nat : c = at[j] /\ l = Len(e)
        BY <1>10, <2>1
      <4>2. c + 2 <= l
        BY <2>1, <3>1, <4>1
      <4>3. QED
        BY <4>1, <4>2
    <3>3. e[at[j] + 1] = C!Quote /\ e[at[j] + 2] = C!Quote
      BY <2>1, <3>1, <3>2
    <3>4. w[(at[j] + 1) + 1] = C!Quote /\ w[(at[j] + 2) + 1] = C!Quote
      BY <1>10, <3>2, <3>3
    <3>5. (at[j] + 2) + 1 = (at[j] + 1) + 2 /\ at[j + 1] + 1 = (at[j] + 1) + 2
      BY <2>1, <3>1
    <3>6. QED
      BY <2>2, <2>3, <3>4, <3>5
  <2>4. CASE v[j] # C!Quote
    <3>1. Len(p[j]) = 1 /\ p[j][1] = v[j]
      BY <1>3, <2>4
    <3>2. at[j] + 1 \in 1..Len(e) /\ 1 \in 1..1
      BY <1>10, <2>1, <3>1
    <3>3. e[at[j] + 1] = v[j]
      BY <2>1, <3>1, <3>2
    <3>4. w[(at[j] + 1) + 1] = v[j]
      BY <1>10, <3>2, <3>3
    <3>5. at[j + 1] + 1 = (at[j] + 1) + 1
      BY <2>1, <3>1
    <3>6. QED
      BY <2>2, <2>4, <3>4, <3>5
  <2>5. QED
    BY <2>3, <2>4
<1>16. Len(w) = q[n + 1] + 1 /\ q[n + 1] + 1 = Len(e) + 2
  BY <1>10, <1>13
<1>17. /\ q \in [1..n + 1 -> Nat] /\ q[1] = 1 /\ Len(w) = q[n + 1] + 1
       /\ w[1] = C!Quote /\ w[q[n + 1] + 1] = C!Quote
       /\ \A j \in 1..n + 1 : q[j] + 1 <= q[n + 1] + 1
  BY <1>10, <1>12, <1>13, <1>14, <1>16
<1>18. Encodes(w, v, q)
  BY <1>1, <1>15, <1>17 DEF Encodes
<1>19. QED
  BY <1>8, <1>10, <1>18

(* Where the writer puts the fields of a row.                              *)
LEMMA WriterLaysOut ==
  ASSUME C!Init
  PROVE  text \in Seq(C!Chars) /\ \E from, to, o : Layout(from, to, o)
<1>1. PICK n \in Nat \ {0} : n = Len(row) /\ DOMAIN row = 1..n
  BY RowIs DEF C!Init
<1>2. \A k \in 1..n : row[k] \in Seq(C!Chars)
  BY <1>1, RowIs DEF C!Init
<1>3. PICK parts : /\ DOMAIN parts = 1..n /\ text = C!Joined(parts)
                   /\ \A k \in 1..n : parts[k] \in C!Written(row[k])
  BY <1>1 DEF C!Init
<1>4. ASSUME NEW k \in 1..n
      PROVE  /\ parts[k] \in Seq(C!Chars)
             /\ \/ parts[k] = C!Quoted(row[k])
                \/ parts[k] = row[k] /\ \A j \in 1..Len(row[k]) : row[k][j] \notin {C!Quote, C!Comma}
  <2>1. PICK v \in Seq(C!Chars) : v = row[k]
    BY <1>2
  <2>2. parts[k] = C!Quoted(v) \/ (parts[k] = v /\ {C!Quote, C!Comma} \cap C!Range(v) = {})
    BY <1>3, <2>1 DEF C!Written
  <2>3. C!Quoted(v) \in Seq(C!Chars)
    BY QuotedIs
  <2>4. \A j \in 1..Len(v) : v[j] \in C!Range(v)
    BY DEF C!Range
  <2>5. QED
    BY <2>1, <2>2, <2>3, <2>4
<1>5. PICK pieces : pieces = [k \in 1..n |-> IF k = 1 THEN parts[k] ELSE <<C!Comma>> \o parts[k]]
  OBVIOUS
<1>20. PICK lead : lead = [k \in 1..n |-> IF k = 1 THEN 0 ELSE 1]
  OBVIOUS
<1>21. \A k \in 1..n : lead[k] \in Nat /\ (k = 1 => lead[k] = 0) /\ (k # 1 => lead[k] = 1)
  BY <1>20
<1>6. ASSUME NEW k \in 1..n
      PROVE  /\ pieces[k] \in Seq(C!Chars) /\ Len(pieces[k]) = lead[k] + Len(parts[k]) /\ Len(parts[k]) \in Nat
             /\ \A j \in 1..Len(parts[k]) : pieces[k][lead[k] + j] = parts[k][j]
             /\ k # 1 => pieces[k][1] = C!Comma
  <2>1. PICK s \in Seq(C!Chars) : s = parts[k]
    BY <1>4
  <2>2. PICK t : t = <<C!Comma>> \o s
    OBVIOUS
  <2>3. /\ t \in Seq(C!Chars) /\ Len(t) = 1 + Len(s) /\ t[1] = C!Comma
        /\ \A j \in 1..Len(s) : t[1 + j] = s[j]
    BY <2>2, CsvChars
  <2>4. pieces[k] = IF k = 1 THEN s ELSE t
    BY <1>5, <2>1, <2>2
  <2>5. CASE k = 1
    BY <1>21, <2>1, <2>4, <2>5
  <2>6. CASE k # 1
    BY <1>21, <2>1, <2>3, <2>4, <2>6
  <2>7. QED
    BY <2>5, <2>6
<1>7. pieces \in Seq(Seq(C!Chars)) /\ Len(pieces) = n
  <2>1. pieces \in [1..n -> Seq(C!Chars)]
    BY <1>5, <1>6
  <2>2. QED
    BY <2>1
<1>8. text = C!FlattenSeq(pieces)
  BY <1>3, <1>5 DEF C!Joined
<1>9. PICK at : Laid(pieces, text, at) /\ text \in Seq(C!Chars)
  BY <1>7, <1>8, Flattened
<1>10. /\ at \in [1..(n + 1) -> Nat] /\ at[1] = 0 /\ at[n + 1] = Len(text) /\ Len(text) \in Nat
       /\ \A k \in 1..n : /\ at[k + 1] = at[k] + Len(pieces[k]) /\ at[k + 1] <= Len(text)
                          /\ \A j \in 1..Len(pieces[k]) : text[at[k] + j] = pieces[k][j]
  BY <1>7, <1>9 DEF Laid
<1>11. PICK from : from = [k \in 1..n |-> at[k] + lead[k]]
  OBVIOUS
<1>12. PICK to : to = [k \in 1..n |-> at[k + 1]]
  OBVIOUS
<1>13. ASSUME NEW k \in 1..n
       PROVE  /\ at[k] \in Nat /\ at[k + 1] \in Nat /\ from[k] \in Nat /\ to[k] \in Nat
              /\ from[k] = at[k] + lead[k] /\ to[k] = at[k + 1]
              /\ to[k] = from[k] + Len(parts[k]) /\ to[k] <= Len(text)
              /\ \A j \in 1..Len(parts[k]) : text[from[k] + j] = parts[k][j]
              /\ k # 1 => text[at[k] + 1] = C!Comma /\ from[k] = at[k] + 1 /\ at[k] < to[k]
  <2>1. k \in 1..(n + 1) /\ k + 1 \in 1..(n + 1)
    OBVIOUS
  <2>2. at[k] \in Nat /\ at[k + 1] \in Nat
    BY <1>10, <2>1
  <2>3. from[k] = at[k] + lead[k] /\ to[k] = at[k + 1]
    BY <1>11, <1>12
  <2>4. PICK m \in Nat, p \in Nat : m = Len(parts[k]) /\ p = Len(pieces[k]) /\ p = lead[k] + m
    <3>1. PICK x : x = lead[k] /\ x \in Nat
      BY <1>21
    <3>2. PICK m \in Nat : m = Len(parts[k])
      BY <1>6
    <3>3. x + m = Len(pieces[k]) /\ x + m \in Nat
      BY <1>6, <3>1, <3>2
    <3>4. QED
      BY <3>1, <3>2, <3>3
  <2>5. at[k + 1] = at[k] + p /\ at[k + 1] <= Len(text) /\ \A j \in 1..p : text[at[k] + j] = pieces[k][j]
    BY <1>10, <2>4
  <2>6. ASSUME NEW j \in 1..m PROVE text[from[k] + j] = parts[k][j]
    <3>1. lead[k] + j \in 1..p /\ from[k] + j = at[k] + (lead[k] + j)
      <4>1. PICK x \in Nat : x = lead[k]
        BY <1>21
      <4>2. PICK y \in Nat : y = at[k]
        BY <2>2
      <4>3. x + j \in 1..p /\ (y + x) + j = y + (x + j)
        BY <2>4, <4>1
      <4>4. QED
        BY <2>3, <4>1, <4>2, <4>3
    <3>2. pieces[k][lead[k] + j] = parts[k][j]
      BY <1>6, <2>4
    <3>3. QED
      BY <2>5, <3>1, <3>2
  <2>7. ASSUME k # 1 PROVE text[at[k] + 1] = C!Comma /\ from[k] = at[k] + 1 /\ at[k] < to[k]
    <3>1. 1 \in 1..p /\ lead[k] = 1 /\ p # 0
      BY <1>21, <2>4, <2>7
    <3>2. text[at[k] + 1] = pieces[k][1]
      BY <2>5, <3>1
    <3>3. at[k] < at[k] + p
      BY <2>2, <3>1
    <3>4. QED
      BY <1>6, <2>3, <2>5, <2>7, <3>1, <3>2, <3>3
  <2>8. from[k] \in Nat /\ to[k] = from[k] + m
    <3>1. PICK x \in Nat : x = lead[k]
      BY <1>21
    <3>2. PICK y \in Nat : y = at[k]
      BY <2>2
    <3>3. y + (x + m) = (y + x) + m /\ y + x \in Nat
      OBVIOUS
    <3>4. QED
      BY <2>3, <2>4, <2>5, <3>1, <3>2, <3>3
  <2>9. QED
    BY <2>2, <2>3, <2>4, <2>5, <2>6, <2>7, <2>8
<1>14. Separated(from, to)
  <2>1. from \in [1..n -> Nat] /\ to \in [1..n -> Nat]
    <3>1. DOMAIN from = 1..n /\ from = [k \in 1..n |-> from[k]]
      BY <1>11
    <3>2. DOMAIN to = 1..n /\ to = [k \in 1..n |-> to[k]]
      BY <1>12
    <3>3. QED
      BY <1>13, <3>1, <3>2
  <2>2. from[1] = 0
    <3>1. 1 \in 1..n
      OBVIOUS
    <3>2. QED
      BY <1>10, <1>13, <1>21, <3>1
  <2>3. ASSUME NEW k \in 1..n
        PROVE  /\ from[k] <= to[k] /\ to[k] <= Len(text)
               /\ k = n => to[k] = Len(text)
               /\ k # n => to[k] < Len(text) /\ text[to[k] + 1] = C!Comma /\ from[k + 1] = to[k] + 1
    <3>1. from[k] <= to[k] /\ to[k] <= Len(text)
      <4>1. PICK m \in Nat : m = Len(parts[k])
        BY <1>6
      <4>2. QED
        BY <1>13, <4>1
    <3>2. CASE k = n
      BY <1>10, <1>13, <3>1, <3>2
    <3>3. CASE k # n
      <4>1. PICK m \in 1..n : m = k + 1 /\ m # 1
        BY <3>3
      <4>2. text[at[m] + 1] = C!Comma /\ from[m] = at[m] + 1 /\ at[m] < to[m] /\ to[m] <= Len(text)
            /\ at[m] \in Nat /\ to[m] \in Nat
        BY <1>13, <4>1
      <4>3. to[k] = at[m]
        BY <1>13, <4>1
      <4>4. QED
        BY <1>10, <3>1, <3>3, <4>1, <4>2, <4>3
    <3>4. QED
      BY <3>2, <3>3
  <2>4. QED
    BY <1>1, <2>1, <2>2, <2>3 DEF Separated
<1>15. ASSUME NEW k \in 1..n
       PROVE  Plain(from[k], to[k], row[k]) \/ \E o : InQuotes(from[k], to[k], row[k], o)
  <2>1. PICK v \in Seq(C!Chars) : v = row[k]
    BY <1>2
  <2>2. PICK s \in Seq(C!Chars) : s = parts[k]
    BY <1>4
  <2>3. PICK a \in Nat, b \in Nat : a = from[k] /\ b = to[k]
    BY <1>13
  <2>4. b = a + Len(s) /\ \A j \in 1..Len(s) : text[a + j] = s[j]
    BY <1>13, <2>2, <2>3
  <2>5. CASE s = v /\ \A j \in 1..Len(v) : v[j] \notin {C!Quote, C!Comma}
    BY <2>1, <2>3, <2>4, <2>5 DEF Plain
  <2>6. CASE s = C!Quoted(v)
    <3>1. PICK m \in Nat : m = Len(v)
      OBVIOUS
    <3>12. PICK q : Encodes(s, v, q)
      BY <2>6, QuotedIs
    <3>2. /\ q \in [1..(m + 1) -> Nat] /\ q[1] = 1 /\ Len(s) = q[m + 1] + 1
          /\ s[1] = C!Quote /\ s[q[m + 1] + 1] = C!Quote
          /\ \A j \in 1..(m + 1) : q[j] + 1 <= q[m + 1] + 1
          /\ \A j \in 1..m : /\ s[q[j] + 1] = v[j]
                             /\ v[j] = C!Quote => s[q[j] + 2] = C!Quote /\ q[j + 1] = q[j] + 2
                             /\ v[j] # C!Quote => q[j + 1] = q[j] + 1
      BY <3>1, <3>12 DEF Encodes
    <3>3. PICK o : o = [j \in 1..(m + 1) |-> a + q[j]]
      OBVIOUS
    <3>4. o \in [1..(m + 1) -> Nat] /\ \A j \in 1..(m + 1) : o[j] = a + q[j] /\ q[j] \in Nat
      <4>1. \A j \in 1..(m + 1) : q[j] \in Nat
        BY <3>2
      <4>2. \A j \in 1..(m + 1) : a + q[j] \in Nat
        BY <4>1
      <4>3. QED
        BY <3>3, <4>1, <4>2
    <3>5. PICK last \in Nat : last = q[m + 1] /\ Len(s) = last + 1 /\ b = a + (last + 1)
      BY <2>4, <3>2
    <3>6. 1 \in 1..(m + 1) /\ m + 1 \in 1..(m + 1) /\ o[1] = a + 1 /\ b = o[m + 1] + 1
      <4>1. 1 \in 1..(m + 1) /\ m + 1 \in 1..(m + 1)
        OBVIOUS
      <4>2. o[1] = a + 1 /\ o[m + 1] = a + last
        BY <3>2, <3>4, <3>5, <4>1
      <4>3. a + (last + 1) = (a + last) + 1
        OBVIOUS
      <4>4. QED
        BY <3>5, <4>1, <4>2, <4>3
    <3>7. text[a + 1] = C!Quote /\ text[b] = C!Quote
      <4>1. \A j \in 1..(last + 1) : text[a + j] = s[j]
        BY <2>4, <3>5
      <4>2. 1 \in 1..(last + 1) /\ last + 1 \in 1..(last + 1)
        OBVIOUS
      <4>3. s[last + 1] = C!Quote
        BY <3>2, <3>5
      <4>4. QED
        BY <3>2, <3>5, <4>1, <4>2, <4>3
    <3>8. ASSUME NEW j \in 1..(m + 1) PROVE o[j] + 1 <= b
      <4>1. PICK c \in Nat : c = q[j] /\ o[j] = a + c
        BY <3>4
      <4>2. c + 1 <= last + 1
        BY <3>2, <3>5, <4>1
      <4>3. (a + c) + 1 <= a + (last + 1)
        BY <4>2
      <4>4. QED
        BY <3>5, <4>1, <4>3
    <3>9. ASSUME NEW j \in 1..m
          PROVE  /\ text[o[j] + 1] = v[j]
                 /\ v[j] = C!Quote => text[o[j] + 2] = C!Quote /\ o[j + 1] = o[j] + 2
                 /\ v[j] # C!Quote => o[j + 1] = o[j] + 1
      <4>1. j \in 1..(m + 1) /\ j + 1 \in 1..(m + 1)
        OBVIOUS
      <4>2. PICK c \in Nat, d \in Nat : c = q[j] /\ d = q[j + 1] /\ c + 1 <= last + 1 /\ d + 1 <= last + 1
        <5>1. PICK c \in Nat, d \in Nat : c = q[j] /\ d = q[j + 1]
          BY <3>4, <4>1
        <5>2. c + 1 <= last + 1 /\ d + 1 <= last + 1
          BY <3>2, <3>5, <4>1, <5>1
        <5>3. QED
          BY <5>1, <5>2
      <4>3. o[j] = a + c /\ o[j + 1] = a + d
        BY <3>4, <4>1, <4>2
      <4>4. /\ s[c + 1] = v[j]
            /\ v[j] = C!Quote => s[c + 2] = C!Quote /\ d = c + 2
            /\ v[j] # C!Quote => d = c + 1
        BY <3>2, <4>2
      <4>5. text[a + (c + 1)] = s[c + 1] /\ (a + c) + 1 = a + (c + 1)
        <5>1. c + 1 \in 1..(last + 1)
          BY <4>2
        <5>2. text[a + (c + 1)] = s[c + 1]
          BY <2>4, <3>5, <5>1
        <5>3. QED
          BY <5>2
      <4>6. CASE v[j] = C!Quote
        <5>1. c + 2 \in 1..Len(s) /\ (a + c) + 2 = a + (c + 2) /\ a + d = (a + c) + 2
          <6>1. d = c + 2
            BY <4>4, <4>6
          <6>2. c + 2 \in 1..(last + 1)
            <7>1. d = c + 2 /\ d + 1 <= last + 1
              BY <4>2, <6>1
            <7>2. QED
              BY <7>1
          <6>3. (a + c) + 2 = a + (c + 2)
            OBVIOUS
          <6>4. QED
            BY <3>5, <6>1, <6>2, <6>3
        <5>2. text[a + (c + 2)] = C!Quote
          BY <2>4, <4>4, <4>6, <5>1
        <5>3. QED
          BY <4>3, <4>4, <4>5, <4>6, <5>1, <5>2
      <4>7. CASE v[j] # C!Quote
        <5>1. a + d = (a + c) + 1
          <6>1. d = c + 1
            BY <4>4, <4>7
          <6>2. QED
            BY <6>1
        <5>2. QED
          BY <4>3, <4>4, <4>5, <4>7, <5>1
      <4>8. QED
        BY <4>6, <4>7
    <3>10. InQuotes(a, b, v, o)
      BY <3>1, <3>4, <3>6, <3>7, <3>8, <3>9 DEF InQuotes
    <3>11. QED
      BY <2>1, <2>3, <3>10
  <2>7. QED
    BY <1>4, <2>1, <2>2, <2>5, <2>6
<1>16. PICK o : o = [k \in 1..n |-> CHOOSE x : InQuotes(from[k], to[k], row[k], x)]
  OBVIOUS
<1>17. ASSUME NEW k \in 1..n
       PROVE  Plain(from[k], to[k], row[k]) \/ InQuotes(from[k], to[k], row[k], o[k])
  BY <1>15, <1>16
<1>18. QED
  BY <1>1, <1>9, <1>14, <1>17 DEF Layout

LEMMA CsvInit == C!Init => CsvInv
<1> SUFFICES ASSUME C!Init PROVE CsvInv
  OBVIOUS
<1>1. /\ row \in C!Rows /\ pos = 1 /\ quoted = FALSE /\ field = << >> /\ fields = << >>
  BY DEF C!Init
<1>2. PICK from, to, o : Layout(from, to, o)
  BY WriterLaysOut
<1>3. PICK n \in Nat \ {0} : n = Len(row) /\ DOMAIN row = 1..n
  BY <1>1, RowIs
<1>4. text \in Seq(C!Chars)
  BY WriterLaysOut
<1>5. CsvTyped
  <2>1. << >> \in Seq(C!Chars) /\ << >> \in Seq(Seq(C!Chars))
    OBVIOUS
  <2>2. 1 \in Nat /\ FALSE \in BOOLEAN
    OBVIOUS
  <2>3. QED
    BY <1>1, <1>4, <2>1, <2>2 DEF CsvTyped
<1>6. from[1] = 0 /\ 1 \in 1..n
  BY <1>2 DEF Layout, Separated
<1>7. Len(<< >>) = 0 /\ \A s : Len(s) \in Nat => Begins(<< >>, s)
  BY DEF Begins
<1>8. Len(row) \in Nat /\ Len(row[1]) \in Nat
  BY <1>1, <1>3, <1>6, RowIs
<1>9. Plain(from[1], to[1], row[1]) \/ InQuotes(from[1], to[1], row[1], o[1])
  BY <1>2, <1>3, <1>6 DEF Layout
<1>10. Reading(from[1], to[1], row[1], o[1])
  BY <1>1, <1>6, <1>7, <1>8, <1>9 DEF Reading
<1>11. Progress(from, to, o)
  BY <1>1, <1>3, <1>7, <1>8, <1>10 DEF Progress
<1>12. QED
  BY <1>2, <1>5, <1>11 DEF CsvInv

(* The row and the line stay as they are.                                  *)
LEMMA LayoutStays ==
  ASSUME NEW from, NEW to, NEW o, Layout(from, to, o), row' = row, text' = text
  PROVE  Layout(from, to, o)'
BY DEF Layout, Separated, Plain, InQuotes

(* A step within a field.                                                  *)
LEMMA StaysInField ==
  ASSUME CsvTyped, CsvTyped', NEW from, NEW to, NEW o, Layout(from, to, o),
         UNCHANGED <<row, text, fields>>, Begins(fields, row), Len(fields) < Len(row),
         NEW k, k = Len(fields) + 1, NEW a, NEW b, NEW v, NEW e,
         a = from[k], b = to[k], v = row[k], e = o[k], Reading(a, b, v, e)'
  PROVE  CsvInv'
<1>1. Layout(from, to, o)'
  BY LayoutStays
<1>2. Begins(fields, row)'
  BY DEF Begins
<1>3. Progress(from, to, o)'
  BY <1>2 DEF Progress
<1>4. QED
  BY <1>1, <1>3 DEF CsvInv

LEMMA Appended ==
  ASSUME NEW T, NEW s \in Seq(T), NEW x \in T
  PROVE  /\ Append(s, x) \in Seq(T) /\ Len(Append(s, x)) = Len(s) + 1 /\ Len(s) \in Nat
         /\ Append(s, x)[Len(s) + 1] = x /\ \A j \in 1..Len(s) : Append(s, x)[j] = s[j]
OBVIOUS

LEMMA Extended ==
  ASSUME NEW s \in Seq(C!Chars), NEW c \in C!Chars
  PROVE  /\ s \o <<c>> \in Seq(C!Chars) /\ Len(s \o <<c>>) = Len(s) + 1 /\ Len(s) \in Nat
         /\ (s \o <<c>>)[Len(s) + 1] = c /\ \A j \in 1..Len(s) : (s \o <<c>>)[j] = s[j]
         /\ s \o << >> = s
OBVIOUS

(* One more character, or one more field, as it is in the whole.           *)
LEMMA OneMore ==
  ASSUME NEW whole, Len(whole) \in Nat, NEW some, Begins(some, whole), Len(some) \in Nat, Len(some) < Len(whole),
         NEW more, Len(more) = Len(some) + 1, more[Len(some) + 1] = whole[Len(some) + 1],
         \A j \in 1..Len(some) : more[j] = some[j]
  PROVE  Begins(more, whole)
BY DEF Begins

LEMMA SameSequence ==
  ASSUME NEW T, NEW s \in Seq(T), NEW t \in Seq(T), Begins(s, t), Len(s) = Len(t)
  PROVE  s = t
BY DEF Begins

(* The parser at the end of a field: it has the whole of it.               *)
LEMMA FieldEnds ==
  ASSUME CsvTyped, NEW from, NEW to, NEW o, Layout(from, to, o), Begins(fields, row),
         UNCHANGED <<row, text, quoted>>, ~quoted, NEW k, k = Len(fields) + 1, Len(fields) < Len(row),
         Begins(field, row[k]), Len(field) = Len(row[k]), pos = to[k] + 1, pos' = pos + 1,
         C!Push, k = Len(row) <=> pos = Len(text) + 1
  PROVE  CsvInv'
<1>1. /\ row \in C!Rows /\ text \in Seq(C!Chars) /\ field \in Seq(C!Chars) /\ fields \in Seq(Seq(C!Chars))
      /\ pos \in Nat
  BY DEF CsvTyped
<1>2. PICK n \in Nat \ {0} : n = Len(row) /\ DOMAIN row = 1..n
  BY <1>1, RowIs
<1>3. PICK m \in Nat : m = Len(fields) /\ m < n /\ k = m + 1 /\ k \in 1..n
  BY <1>1, <1>2
<1>4. row \in Seq(Seq(C!Chars)) /\ row[k] \in Seq(C!Chars)
  BY <1>1, <1>2, <1>3, RowIs
<1>5. field = row[k]
  BY <1>1, <1>4, SameSequence
<1>6. fields' = Append(fields, field) /\ field' = << >>
  BY DEF C!Push
<1>7. fields' \in Seq(Seq(C!Chars)) /\ Len(fields') = m + 1 /\ Begins(fields', row)
  <2>1. PICK s, t : s = fields /\ t = Append(s, field) /\ s \in Seq(Seq(C!Chars))
    BY <1>1
  <2>2. /\ t \in Seq(Seq(C!Chars)) /\ Len(t) = m + 1 /\ t[m + 1] = field
        /\ \A j \in 1..m : t[j] = s[j]
    BY <1>1, <1>3, <2>1, Appended
  <2>3. Begins(t, row)
    <3>1. Len(s) = m /\ Begins(s, row) /\ Len(t) = Len(s) + 1 /\ Len(s) < Len(row)
      BY <1>2, <1>3, <2>1, <2>2
    <3>2. m + 1 <= n /\ Len(t) = m + 1 /\ Len(row) = n
      BY <1>2, <1>3, <2>2
    <3>3. \A j \in 1..(m + 1) : t[j] = row[j]
      <4>1. \A j \in 1..m : t[j] = row[j]
        <5>1. \A j \in 1..m : s[j] = row[j]
          BY <3>1, SMTT(30) DEF Begins
        <5>2. QED
          BY <2>2, <5>1
      <4>2. t[m + 1] = row[m + 1]
        BY <1>3, <1>5, <2>2
      <4>3. \A j \in 1..(m + 1) : j \in 1..m \/ j = m + 1
        OBVIOUS
      <4>4. QED
        BY <4>1, <4>2, <4>3, Zenon
    <3>4. QED
      BY <3>2, <3>3 DEF Begins
  <2>4. QED
    BY <1>6, <2>1, <2>2, <2>3
<1>8. CsvTyped'
  BY <1>1, <1>6, <1>7 DEF CsvTyped
<1>9. Layout(from, to, o)'
  BY LayoutStays
<1>10. CASE k = n
  <2>1. pos' = Len(text) + 2
    BY <1>1, <1>2, <1>10
  <2>2. Progress(from, to, o)'
    BY <1>2, <1>3, <1>7, <1>10, <2>1 DEF Progress
  <2>3. QED
    BY <1>8, <1>9, <2>2 DEF CsvInv
<1>11. CASE k # n
  <2>1. PICK l \in 1..n : l = k + 1 /\ l = m + 2
    BY <1>3, <1>11
  <2>2. from[l] = to[k] + 1
    BY <1>2, <1>3, <1>11, <2>1 DEF Layout, Separated
  <2>3. Plain(from[l], to[l], row[l]) \/ InQuotes(from[l], to[l], row[l], o[l])
    BY <1>2 DEF Layout
  <2>4. pos' = from[l] + 1 /\ from[l] \in Nat
    BY <1>1, <2>2
  <2>5. PICK a, b, v, e : a \in Nat /\ a = from[l] /\ b = to[l] /\ v = row[l] /\ e = o[l]
    BY <2>4
  <2>6. Len(v) \in Nat
    BY <1>1, <1>2, <2>5, RowIs
  <2>7. Len(field') = 0 /\ Begins(field', v)
    BY <1>6, <2>6 DEF Begins
  <2>8. (Plain(a, b, v) \/ InQuotes(a, b, v, e))'
    BY <2>3, <2>5 DEF Plain, InQuotes
  <2>9. Reading(a, b, v, e)'
    BY <2>4, <2>5, <2>7, <2>8 DEF Reading
  <2>10. Len(fields') < Len(row') /\ Len(fields') + 1 = l
    BY <1>2, <1>7, <2>1
  <2>11. Progress(from, to, o)'
    BY <1>7, <2>5, <2>9, <2>10 DEF Progress
  <2>12. QED
    BY <1>8, <1>9, <2>11 DEF CsvInv
<1>12. QED
  BY <1>10, <1>11

(* In quotes: the next character, a doubled quote, or the closing one.     *)
LEMMA InsideSteps == ASSUME CsvInv, C!Inside PROVE CsvInv'
<1>1. CsvTyped
  BY DEF CsvInv
<1>2. PICK from, to, o : Layout(from, to, o) /\ Progress(from, to, o)
  BY DEF CsvInv
<1>3. quoted /\ pos <= Len(text) /\ UNCHANGED <<row, text, fields>>
  BY DEF C!Inside, C!Keep
<1>4. PICK n \in Nat \ {0} : n = Len(row) /\ DOMAIN row = 1..n
  BY <1>1, RowIs DEF CsvTyped
<1>5. PICK k : k = Len(fields) + 1
  OBVIOUS
<1>6. Begins(fields, row) /\ Len(fields) < Len(row) /\ Reading(from[k], to[k], row[k], o[k])
  BY <1>2, <1>3, <1>5 DEF Progress
<1>7. k \in 1..n
  <2>1. PICK m \in Nat : m = Len(fields)
    BY <1>1 DEF CsvTyped
  <2>2. QED
    BY <1>4, <1>5, <1>6, <2>1
<1>8. PICK a, b, v, e : a = from[k] /\ b = to[k] /\ v = row[k] /\ e = o[k]
  OBVIOUS
<1>9. /\ a \in Nat /\ b \in Nat /\ b <= Len(text) /\ Len(text) \in Nat
      /\ b < Len(text) => text[b + 1] = C!Comma
  <2>1. Separated(from, to) /\ k \in DOMAIN row /\ text \in Seq(C!Chars)
    BY <1>1, <1>2, <1>4, <1>7 DEF Layout, CsvTyped
  <2>2. from \in [DOMAIN row -> Nat] /\ to \in [DOMAIN row -> Nat] /\ to[k] <= Len(text)
    BY <2>1 DEF Separated
  <2>3. k # Len(row) => text[to[k] + 1] = C!Comma
    BY <2>1 DEF Separated
  <2>4. k = Len(row) => to[k] = Len(text)
    BY <2>1 DEF Separated
  <2>5. b \in Nat /\ Len(text) \in Nat /\ b = to[k]
    BY <1>8, <2>1, <2>2
  <2>6. b < Len(text) => k # Len(row)
    BY <2>4, <2>5
  <2>7. QED
    BY <1>8, <2>1, <2>2, <2>3, <2>5, <2>6
<1>10. v \in Seq(C!Chars)
  BY <1>1, <1>4, <1>7, <1>8, RowIs DEF CsvTyped
<1>11. PICK last \in Nat, j \in Nat : last = Len(v) /\ j = Len(field) /\ j <= last
  <2>1. PICK last \in Nat, j \in Nat : last = Len(v) /\ j = Len(field)
    BY <1>1, <1>10 DEF CsvTyped
  <2>2. j <= last
    BY <1>6, <1>8, <2>1 DEF Reading, Begins
  <2>3. QED
    BY <2>1, <2>2
<1>12. InQuotes(a, b, v, e) /\ pos = e[j + 1] + 1 /\ Begins(field, v)
  BY <1>3, <1>6, <1>8, <1>11 DEF Reading
<1>13. /\ e \in [1..(last + 1) -> Nat] /\ b = e[last + 1] + 1 /\ text[b] = C!Quote
       /\ \A i \in 1..(last + 1) : e[i] + 1 <= b
       /\ \A i \in 1..last : /\ text[e[i] + 1] = v[i]
                             /\ v[i] = C!Quote => text[e[i] + 2] = C!Quote /\ e[i + 1] = e[i] + 2
                             /\ v[i] # C!Quote => e[i + 1] = e[i] + 1
  BY <1>11, <1>12 DEF InQuotes
<1>14. InQuotes(a, b, v, e)'
  BY <1>3, <1>12 DEF InQuotes
<1>15. field \in Seq(C!Chars) /\ pos \in Nat
  BY <1>1 DEF CsvTyped
<1>16. ASSUME CsvTyped', Reading(a, b, v, e)' PROVE CsvInv'
  BY <1>1, <1>2, <1>3, <1>5, <1>6, <1>8, <1>16, StaysInField
<1>17. ASSUME NEW c \in C!Chars, j < last, c = v[j + 1], field' = field \o <<c>>, quoted',
              quoted' \in BOOLEAN, pos' = e[j + 2] + 1
       PROVE  CsvInv'
  <2>1. PICK s : s = field \o <<c>>
    OBVIOUS
  <2>2. /\ s \in Seq(C!Chars) /\ Len(s) = j + 1 /\ s[j + 1] = v[j + 1]
        /\ \A i \in 1..j : s[i] = field[i]
    BY <1>11, <1>15, <1>17, <2>1, Extended
  <2>3. Begins(s, v)
    BY <1>11, <1>12, <1>17, <2>2, OneMore
  <2>4. j + 2 \in 1..(last + 1) /\ (j + 1) + 1 = j + 2
    BY <1>17
  <2>5. pos' \in Nat
    BY <1>13, <1>17, <2>4
  <2>6. CsvTyped'
    BY <1>1, <1>3, <1>17, <2>1, <2>2, <2>5 DEF CsvTyped
  <2>7. Begins(field', v) /\ Len(field') = j + 1 /\ pos' = e[Len(field') + 1] + 1
    BY <1>17, <2>1, <2>2, <2>3, <2>4
  <2>8. Reading(a, b, v, e)'
    BY <1>14, <1>17, <2>7 DEF Reading
  <2>9. QED
    BY <1>16, <2>6, <2>8
<1>18. CASE j < last
  <2>1. j + 1 \in 1..last /\ j + 1 \in 1..(last + 1) /\ j + 2 \in 1..(last + 1) /\ (j + 1) + 1 = j + 2
    BY <1>18
  <2>2. PICK c \in C!Chars : c = v[j + 1]
    BY <1>10, <1>11, <2>1
  <2>3. PICK p \in Nat, q \in Nat : p = e[j + 1] /\ q = e[j + 2]
    BY <1>13, <2>1
  <2>4. /\ pos = p + 1 /\ text[p + 1] = c /\ q + 1 <= b
        /\ c = C!Quote => text[p + 2] = C!Quote /\ q = p + 2
        /\ c # C!Quote => q = p + 1
    BY <1>12, <1>13, <2>1, <2>2, <2>3
  <2>5. CASE c = C!Quote
    <3>1. q = p + 2 /\ p + 2 <= Len(text) /\ p + 1 <= Len(text)
      BY <1>9, <2>4, <2>5
    <3>2. C!SeesQuote(pos) /\ C!SeesQuote(pos + 1)
      <4>1. pos + 1 = p + 2
        BY <2>4
      <4>2. QED
        BY <2>4, <2>5, <3>1, <4>1 DEF C!SeesQuote
    <3>3. field' = field \o <<c>> /\ pos' = pos + 2 /\ quoted' = quoted
      BY <2>5, <3>2 DEF C!Inside, C!Keep
    <3>4. pos' = q + 1
      BY <2>4, <3>1, <3>3
    <3>5. QED
      BY <1>1, <1>3, <1>17, <1>18, <2>2, <2>3, <3>3, <3>4 DEF CsvTyped
  <2>6. CASE c # C!Quote
    <3>1. ~C!SeesQuote(pos) /\ text[pos] = c
      BY <2>4, <2>6 DEF C!SeesQuote
    <3>2. field' = field \o <<c>> /\ pos' = pos + 1 /\ quoted' = quoted
      BY <3>1 DEF C!Inside, C!Keep
    <3>3. pos' = q + 1
      BY <2>4, <2>6, <3>2
    <3>4. QED
      BY <1>1, <1>3, <1>17, <1>18, <2>2, <2>3, <3>2, <3>3 DEF CsvTyped
  <2>7. QED
    BY <2>5, <2>6
<1>19. CASE j = last
  <2>1. pos = b
    BY <1>12, <1>13, <1>19
  <2>2. C!SeesQuote(pos) /\ ~C!SeesQuote(pos + 1)
    <3>1. ~C!SeesQuote(b + 1)
      <4>1. b + 1 <= Len(text) => b < Len(text)
        BY <1>9
      <4>2. QED
        BY <1>9, <4>1, CsvChars DEF C!SeesQuote
    <3>2. QED
      BY <1>9, <1>13, <2>1, <3>1 DEF C!SeesQuote
  <2>3. field' = field \o << >> /\ pos' = pos + 1 /\ quoted' = FALSE
    BY <2>2 DEF C!Inside, C!Keep
  <2>4. field \o << >> = field
    BY <1>15
  <2>5. pos' = b + 1 /\ pos' \in Nat /\ field' = field
    BY <1>9, <2>1, <2>3, <2>4
  <2>6. CsvTyped'
    BY <1>1, <1>3, <2>3, <2>5 DEF CsvTyped
  <2>7. Reading(a, b, v, e)'
    BY <1>11, <1>12, <1>14, <1>19, <2>3, <2>5 DEF Reading
  <2>8. QED
    BY <1>16, <2>6, <2>7
<1>20. QED
  BY <1>11, <1>18, <1>19

(* Out of quotes: a character of the field, the quote it begins with, or   *)
(* the comma after it.  At the end of the line the last field ends.        *)
LEMMA OutsideSteps == ASSUME CsvInv, C!Outside \/ C!Finish PROVE CsvInv'
<1>1. CsvTyped
  BY DEF CsvInv
<1>2. PICK from, to, o : Layout(from, to, o) /\ Progress(from, to, o)
  BY DEF CsvInv
<1>3. /\ UNCHANGED <<row, text>> /\ pos <= Len(text) + 1 /\ pos' = pos + 1
      /\ text \in Seq(C!Chars) /\ Len(text) \in Nat /\ pos \in Nat /\ field \in Seq(C!Chars)
  BY <1>1 DEF C!Outside, C!Finish, CsvTyped
<1>4. PICK n \in Nat \ {0} : n = Len(row) /\ DOMAIN row = 1..n
  BY <1>1, RowIs DEF CsvTyped
<1>5. PICK k : k = Len(fields) + 1
  OBVIOUS
<1>6. Begins(fields, row) /\ Len(fields) < Len(row) /\ Reading(from[k], to[k], row[k], o[k])
  BY <1>2, <1>3, <1>5 DEF Progress
<1>7. k \in 1..n
  <2>1. PICK m \in Nat : m = Len(fields)
    BY <1>1 DEF CsvTyped
  <2>2. QED
    BY <1>4, <1>5, <1>6, <2>1
<1>8. PICK a, b, v, e : a = from[k] /\ b = to[k] /\ v = row[k] /\ e = o[k]
  OBVIOUS
<1>9. /\ a \in Nat /\ b \in Nat /\ b <= Len(text)
      /\ k = n => b = Len(text)
      /\ k # n => b < Len(text) /\ text[b + 1] = C!Comma
  BY <1>2, <1>4, <1>7, <1>8 DEF Layout, Separated
<1>10. v \in Seq(C!Chars)
  BY <1>1, <1>4, <1>7, <1>8, RowIs DEF CsvTyped
<1>11. PICK last \in Nat, j \in Nat : last = Len(v) /\ j = Len(field) /\ j <= last
  BY <1>3, <1>6, <1>8, <1>10 DEF Reading, Begins
<1>12. Begins(field, v) /\ Reading(a, b, v, e)
  BY <1>6, <1>8 DEF Reading
<1>13. ASSUME CsvTyped', UNCHANGED fields, Reading(a, b, v, e)' PROVE CsvInv'
  BY <1>1, <1>2, <1>3, <1>5, <1>6, <1>8, <1>13, StaysInField
<1>14. ASSUME ~quoted, j = last, pos = b + 1 PROVE CsvInv'
  <2>1. k = n <=> pos = Len(text) + 1
    BY <1>3, <1>9, <1>14
  <2>2. C!Push /\ UNCHANGED quoted
    <3>1. CASE C!Finish
      BY <3>1 DEF C!Finish
    <3>2. CASE C!Outside
      <4>1. pos <= Len(text)
        BY <3>2 DEF C!Outside
      <4>2. text[pos] = C!Comma
        BY <1>3, <1>9, <1>14, <2>1, <4>1
      <4>3. QED
        BY <3>2, <4>2, CsvChars DEF C!Outside
    <3>3. QED
      BY <3>1, <3>2
  <2>3. QED
    BY <1>1, <1>2, <1>3, <1>4, <1>5, <1>6, <1>8, <1>11, <1>12, <1>14, <2>1, <2>2, FieldEnds
<1>15. ASSUME Plain(a, b, v), ~quoted, pos = a + j + 1, j < last PROVE CsvInv'
  <2>1. b = a + last /\ text[a + (j + 1)] = v[j + 1] /\ v[j + 1] \notin {C!Quote, C!Comma}
    <3>1. j + 1 \in 1..last
      BY <1>15
    <3>2. QED
      BY <1>11, <1>15, <3>1 DEF Plain
  <2>2. pos = a + (j + 1) /\ pos <= Len(text)
    BY <1>3, <1>9, <1>15, <2>1
  <2>3. PICK c \in C!Chars : c = v[j + 1]
    BY <1>10, <1>11, <1>15
  <2>4. C!Outside
    BY <1>3, <2>2 DEF C!Finish
  <2>5. field' = field \o <<c>> /\ UNCHANGED <<fields, quoted>>
    BY <2>1, <2>2, <2>3, <2>4 DEF C!Outside, C!Keep
  <2>6. PICK s : s = field \o <<c>>
    OBVIOUS
  <2>7. /\ s \in Seq(C!Chars) /\ Len(s) = j + 1 /\ s[j + 1] = v[j + 1]
        /\ \A i \in 1..j : s[i] = field[i]
    BY <1>3, <1>11, <2>3, <2>6, Extended
  <2>8. Begins(s, v)
    BY <1>11, <1>12, <1>15, <2>7, OneMore
  <2>9. CsvTyped'
    BY <1>1, <1>3, <2>5, <2>6, <2>7 DEF CsvTyped
  <2>10. Plain(a, b, v)'
    BY <1>3, <1>15 DEF Plain
  <2>11. pos' = a + Len(field') + 1 /\ Begins(field', v)
    <3>1. field' = s /\ Begins(field', v)
      BY <2>5, <2>6, <2>8
    <3>2. pos' = (a + j + 1) + 1
      BY <1>3, <1>15
    <3>3. (a + j + 1) + 1 = a + (j + 1) + 1
      BY <1>9
    <3>4. QED
      BY <2>7, <3>1, <3>2, <3>3
  <2>12. Reading(a, b, v, e)'
    BY <1>15, <2>5, <2>10, <2>11 DEF Reading
  <2>13. QED
    BY <1>13, <2>5, <2>9, <2>12
<1>16. ASSUME InQuotes(a, b, v, e), ~quoted, j = 0, pos = a + 1 PROVE CsvInv'
  <2>1. e[1] = a + 1 /\ text[a + 1] = C!Quote /\ e[1] + 1 <= b
    <3>1. 1 \in 1..(last + 1)
      OBVIOUS
    <3>2. QED
      BY <1>11, <1>16, <3>1 DEF InQuotes
  <2>2. pos <= Len(text)
    BY <1>3, <1>9, <1>16, <2>1
  <2>3. C!Outside
    BY <1>3, <2>2 DEF C!Finish
  <2>4. quoted' = TRUE /\ field' = field \o << >> /\ UNCHANGED fields
    BY <1>16, <2>1, <2>3, CsvChars DEF C!Outside, C!Keep
  <2>5. field' = field
    BY <1>3, <2>4
  <2>6. CsvTyped'
    BY <1>1, <1>3, <2>4, <2>5 DEF CsvTyped
  <2>7. InQuotes(a, b, v, e)'
    BY <1>3, <1>16 DEF InQuotes
  <2>8. Len(field') + 1 = 1 /\ pos' = e[1] + 1
    <3>1. Len(field') = 0
      BY <1>11, <1>16, <2>5
    <3>2. pos' = e[1] + 1
      BY <1>3, <1>9, <1>16, <2>1
    <3>3. QED
      BY <3>1, <3>2
  <2>9. Reading(a, b, v, e)'
    BY <1>12, <2>4, <2>5, <2>7, <2>8 DEF Reading
  <2>10. QED
    BY <1>13, <2>4, <2>6, <2>9
<1>17. CASE quoted
  <2>1. C!Finish
    BY <1>17 DEF C!Outside
  <2>2. InQuotes(a, b, v, e) /\ pos = e[j + 1] + 1
    BY <1>11, <1>12, <1>17 DEF Reading
  <2>3. j + 1 \in 1..(last + 1)
    BY <1>11
  <2>4. e[j + 1] + 1 <= b
    BY <1>11, <2>2, <2>3 DEF InQuotes
  <2>5. QED
    BY <1>3, <1>9, <2>1, <2>2, <2>4 DEF C!Finish
<1>18. CASE ~quoted
  <2>1. \/ Plain(a, b, v) /\ pos = a + j + 1
        \/ InQuotes(a, b, v, e) /\ j = 0 /\ pos = a + 1
        \/ InQuotes(a, b, v, e) /\ j = last /\ pos = b + 1
    <3>1. Len(field) = j /\ Len(v) = last
      BY <1>11
    <3>2. \/ Plain(a, b, v) /\ pos = a + Len(field) + 1
          \/ InQuotes(a, b, v, e) /\ Len(field) = 0 /\ pos = a + 1
          \/ InQuotes(a, b, v, e) /\ Len(field) = Len(v) /\ pos = b + 1
      BY <1>12, <1>18 DEF Reading
    <3>3. QED
      BY <3>1, <3>2
  <2>2. CASE Plain(a, b, v) /\ pos = a + j + 1 /\ j = last
    <3>1. b = a + last
      BY <1>11, <2>2 DEF Plain
    <3>2. QED
      BY <1>14, <1>18, <2>2, <3>1
  <2>3. CASE Plain(a, b, v) /\ pos = a + j + 1 /\ j < last
    BY <1>15, <1>18, <2>3
  <2>4. CASE InQuotes(a, b, v, e) /\ j = 0 /\ pos = a + 1
    BY <1>16, <1>18, <2>4
  <2>5. CASE InQuotes(a, b, v, e) /\ j = last /\ pos = b + 1
    BY <1>14, <1>18, <2>5
  <2>6. j = last \/ j < last
    BY <1>11
  <2>7. QED
    BY <2>1, <2>2, <2>3, <2>4, <2>5, <2>6
<1>19. QED
  BY <1>17, <1>18

LEMMA CsvNext == CsvInv /\ [C!Next]_C!vars => CsvInv'
<1> SUFFICES ASSUME CsvInv, [C!Next]_C!vars PROVE CsvInv'
  OBVIOUS
<1>1. CASE UNCHANGED C!vars
  <2>1. UNCHANGED <<row, text, pos, quoted, field, fields>>
    BY <1>1 DEF C!vars
  <2>2. PICK from, to, o : Layout(from, to, o) /\ Progress(from, to, o)
    BY DEF CsvInv
  <2>3. Layout(from, to, o)'
    BY <2>1, <2>2, LayoutStays
  <2>4. Progress(from, to, o)'
    BY <2>1, <2>2 DEF Progress, Reading, Begins, Plain, InQuotes
  <2>5. CsvTyped'
    BY <2>1 DEF CsvInv, CsvTyped
  <2>6. QED
    BY <2>3, <2>4, <2>5 DEF CsvInv
<1>2. QED
  BY <1>1, InsideSteps, OutsideSteps DEF C!Next

LEMMA CsvImplies == CsvInv => C!TypeOK /\ C!ParsesWhatWasWritten
<1> SUFFICES ASSUME CsvInv PROVE C!TypeOK /\ C!ParsesWhatWasWritten
  OBVIOUS
<1>1. /\ row \in C!Rows /\ text \in Seq(C!Chars) /\ pos \in Nat /\ quoted \in BOOLEAN
      /\ field \in Seq(C!Chars) /\ fields \in Seq(Seq(C!Chars)) /\ Len(text) \in Nat
  BY DEF CsvInv, CsvTyped
<1>2. PICK from, to, o : Layout(from, to, o) /\ Progress(from, to, o)
  BY DEF CsvInv
<1>3. PICK n \in Nat \ {0} : n = Len(row) /\ DOMAIN row = 1..n /\ row \in Seq(Seq(C!Chars))
  BY <1>1, RowIs
<1>4. PICK m \in Nat : m = Len(fields) /\ m <= n /\ \A i \in 1..m : fields[i] = row[i]
  BY <1>1, <1>2, <1>3 DEF Progress, Begins
<1>5. fields = SubSeq(row, 1, Len(fields))
  <2>1. PICK s : s = SubSeq(row, 1, m)
    OBVIOUS
  <2>2. s \in Seq(Seq(C!Chars)) /\ Len(s) = m /\ \A i \in 1..m : s[i] = row[i]
    BY <1>3, <1>4, <2>1
  <2>3. Begins(fields, s) /\ Len(fields) = Len(s)
    BY <1>4, <2>2 DEF Begins
  <2>4. QED
    BY <1>1, <1>4, <2>1, <2>2, <2>3, SameSequence
<1>6. CASE pos = Len(text) + 2 /\ Len(fields) = Len(row) /\ ~quoted
  <2>1. fields = row
    BY <1>1, <1>2, <1>3, <1>6, SameSequence DEF Progress
  <2>2. QED
    BY <1>1, <1>5, <1>6, <2>1 DEF C!TypeOK, C!ParsesWhatWasWritten
<1>7. CASE Len(fields) < Len(row)
  <2>1. PICK k \in 1..n : k = m + 1 /\ k = Len(fields) + 1
    BY <1>3, <1>4, <1>7
  <2>2. PICK a, b, v, e : a = from[k] /\ b = to[k] /\ v = row[k] /\ e = o[k]
    OBVIOUS
  <2>3. Reading(a, b, v, e)
    BY <1>2, <1>3, <1>4, <1>7, <2>1, <2>2 DEF Progress
  <2>4. a \in Nat /\ b \in Nat /\ b <= Len(text)
    BY <1>2, <1>3, <2>2 DEF Layout, Separated
  <2>5. v \in Seq(C!Chars)
    BY <1>1, <1>3, <2>2, RowIs
  <2>6. PICK last \in Nat, j \in Nat : last = Len(v) /\ j = Len(field) /\ j <= last
    BY <1>1, <2>3, <2>5 DEF Reading, Begins
  <2>7. pos \in 1..Len(text) + 1 /\ (quoted => pos <= Len(text))
    <3>1. CASE Plain(a, b, v) /\ ~quoted /\ pos = a + j + 1
      <4>1. b = a + last
        BY <2>6, <3>1 DEF Plain
      <4>2. QED
        BY <1>1, <2>4, <2>6, <3>1, <4>1
    <3>2. CASE InQuotes(a, b, v, e)
      <4>1. 1 \in 1..(last + 1) /\ j + 1 \in 1..(last + 1)
        BY <2>6
      <4>2. e[1] = a + 1 /\ e[1] + 1 <= b /\ e[j + 1] + 1 <= b /\ e[j + 1] \in Nat
        BY <2>6, <3>2, <4>1 DEF InQuotes
      <4>3. \/ ~quoted /\ pos = a + 1
            \/ quoted /\ pos = e[j + 1] + 1
            \/ ~quoted /\ pos = b + 1
        BY <2>3, <2>6, <3>2 DEF Reading, InQuotes, Plain
      <4>4. QED
        BY <1>1, <2>4, <4>2, <4>3
    <3>3. QED
      BY <2>3, <2>6, <3>1, <3>2 DEF Reading
  <2>8. pos <= Len(text) + 1 /\ ~(pos > Len(text) + 1)
    BY <1>1, <2>7
  <2>9. C!ParsesWhatWasWritten
    BY <1>5, <2>8 DEF C!ParsesWhatWasWritten, C!Done
  <2>10. C!TypeOK
    BY <1>1, <2>7 DEF C!TypeOK
  <2>11. QED
    BY <2>9, <2>10
<1>8. QED
  BY <1>2, <1>6, <1>7 DEF Progress

-----------------------------------------------------------------------------
(* The behaviours of Restaurants are behaviours of each of its parts.      *)
LEMMA EachPart == RestaurantsSpec => Spec /\ F!Spec /\ S!Spec /\ I!Spec /\ C!Spec
<1>1. RestaurantsInit => Init /\ F!Init /\ S!Init /\ I!Init /\ C!Init
  BY DEF RestaurantsInit
<1> DEFINE all == <<part, vars, fvars, svars, ivars, cvars>>
<1>2. [RestaurantsNext]_all => [Next]_vars
  BY DEF RestaurantsNext
<1>3. [RestaurantsNext]_all => [F!Next]_F!vars
  BY DEF RestaurantsNext, fvars, F!vars
<1>4. [RestaurantsNext]_all => [S!Next]_S!vars
  BY DEF RestaurantsNext, svars, S!vars, S!bucket
<1>5. [RestaurantsNext]_all => [I!Next]_I!vars
  BY DEF RestaurantsNext, ivars, I!vars
<1>6. [RestaurantsNext]_all => [C!Next]_C!vars
  BY DEF RestaurantsNext, cvars, C!vars
<1>7. QED
  BY <1>1, <1>2, <1>3, <1>4, <1>5, <1>6, PTL
  DEF RestaurantsSpec, Spec, F!Spec, S!Spec, I!Spec, C!Spec

(* For any users, reviews and tasks: the reaction that a user put last on  *)
(* a live review counts, when its work was alone and done                  *)
(* (upsertRestaurantReviewRxn).                                            *)
THEOREM LastPutCountsHolds == RestaurantsSpec => []LastPutCounts
<1>1. FeedbackInv => LastPutCounts
  BY DEF FeedbackInv, LastPutCounts
<1>2. QED
  BY <1>1, EachPart, FeedbackInit, FeedbackNext, PTL DEF F!Spec

(* For any reports, users and times: the image under the key of a report   *)
(* is the one that was sent with it, unless its upload failed or is on its *)
(* way, or the same user sent another in the same millisecond              *)
(* (reportRestaurantReview, uploadFileToS3).                               *)
THEOREM ImagesAreTheReportersHolds == RestaurantsSpec => []ImagesAreTheReporters
<1>1. ReportsInv => ImagesAreTheReporters
  BY ReportsImply DEF ImagesAreTheReporters
<1>2. QED
  BY <1>1, EachPart, ReportsInit, ReportsNext, PTL DEF S!Spec

(* For any editions, batch size and runs: when a run that was alone has    *)
(* read its files, every shop of the edition has what the last line about  *)
(* it says, and every line but the empty ones was counted once             *)
(* (importSbizRestaurants, importSbizFile, upsertSbizRestaurants).         *)
THEOREM ImportIsCompleteHolds == RestaurantsSpec => []ImportIsComplete
<1>1. ImportInv => ImportIsComplete
  BY ImportImplies DEF ImportIsComplete
<1>2. QED
  BY <1>1, EachPart, ImportInit, ImportNext, PTL DEF I!Spec

(* For any editions and runs: after a run that closed, alone, the shops    *)
(* its edition listed are open, and those that no later run has seen and   *)
(* it did not list are closed (closeUnsyncedSbizRestaurants).              *)
THEOREM OnlyMissingAreClosedHolds == RestaurantsSpec => []OnlyMissingAreClosed
<1>1. ImportInv => OnlyMissingAreClosed
  BY DEF ImportInv, OnlyMissingAreClosed
<1>2. QED
  BY <1>1, EachPart, ImportInit, ImportNext, PTL DEF I!Spec

(* For any letters and lengths: the parser gives back the row that was     *)
(* written, however its fields hold quotes and commas and whether they are *)
(* written in quotes or not (parseCsvLine).                                *)
THEOREM ParsesWhatWasWrittenHolds == RestaurantsSpec => []ParsesWhatWasWritten
<1>1. CsvInv => ParsesWhatWasWritten
  BY CsvImplies DEF ParsesWhatWasWritten
<1>2. QED
  BY <1>1, EachPart, CsvInit, CsvNext, PTL DEF C!Spec

(* The tables, tasks, runs and lines of each part keep their types.        *)
THEOREM TypesOKHolds == RestaurantsSpec => []TypesOK
<1>1. IInv /\ FeedbackInv /\ ReportsInv /\ ImportInv /\ CsvInv => TypesOK
  BY ImportImplies, CsvImplies DEF IInv, FeedbackInv, ReportsInv, TypesOK
<1>2. QED
  BY <1>1, EachPart, InductiveInvariant, FeedbackInit, FeedbackNext, ReportsInit, ReportsNext,
     ImportInit, ImportNext, CsvInit, CsvNext, PTL DEF F!Spec, S!Spec, I!Spec, C!Spec
=============================================================================
