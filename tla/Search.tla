------------------------------- MODULE Search -------------------------------
(***************************************************************************)
(* What is told of reviews (src/src/domain/restaurant): the recommended    *)
(* restaurant, the reviewed ones nearby, the pages of a restaurant's       *)
(* reviews, the reviews of a member, and the newest.  Each is put together *)
(* from several reads, of tables that change between them.                 *)
(*                                                                         *)
(* These handlers write nothing, so that one request at a time is enough:  *)
(* the writes of all others (modules Reviews, SbizImport, Membership) are  *)
(* single steps here.  Distances are a set of near places.                 *)
(***************************************************************************)
EXTENDS Integers, SequencesExt

CONSTANTS
  Places,       \* ids of reviewed restaurants, positive numbers
  Shops,        \* imported restaurants, as records of id and category
  Members,
  Drafts,       \* what members may write: author, place and text of a review
  Near,         \* the places near the caller
  Filters,      \* what a search asks for: categories, keywords and prices
  Pages,        \* the pages asked for: page and limit, from 1
  ListLimit,    \* RECOMMENDATION_REVIEW_LIMIT: 10 in the code
  RecentCount,  \* 3 in the code
  MaxReviews,   \* bound: rows of restaurant_reviews
  MaxChanges    \* bound: edits, deletions, withdrawals and closings

ASSUME SearchAssumption ==
  /\ Places \subseteq Nat \ {0} /\ Near \subseteq Places
  /\ \A d \in Drafts : d.author \in Members /\ d.place \in Places
  /\ \A d \in Drafts : IsFiniteSet(d.text.prices) /\ d.text.prices \subseteq Nat
  /\ Pages \subseteq [page: Nat \ {0}, limit: Nat \ {0}]
  /\ {ListLimit, RecentCount} \subseteq Nat \ {0} /\ {MaxReviews, MaxChanges} \subseteq Nat

VARIABLES
  reviews,    \* table restaurant_reviews, a set of rows
  members,    \* members with an account
  open,       \* imported restaurants that are open
  changes,
  req,        \* the step, what was asked, what was read and the answer
  seen        \* observation: what the tables held during the request

tables == <<reviews, members, open, changes>>
vars == <<tables, req, seen>>

None == "none"
All == "all"        \* the option that stands for no filter
NaN == -1          \* stands for the number that is none
Idle == [pc |-> "idle"]
Asks ==
  [kind: {"recommend"}, filter: Filters] \cup [kind: {"nearby", "recent"}]
  \cup [kind: {"list"}, place: Places \cup {0}, page: Pages] \cup [kind: {"reviewer"}, user: Members]

Live == {v \in reviews : ~v.deleted}

TypeOK ==
  /\ \A v \in reviews : v.id \in 1..MaxReviews /\ v.deleted \in BOOLEAN /\ v.author \in Members /\ v.place \in Places
  /\ \A v, w \in reviews : v.id = w.id => v = w
  /\ members \subseteq Members /\ open \subseteq Shops /\ changes \in 0..MaxChanges
  /\ req = Idle \/
     /\ req.pc \in {"area", "near", "match", "draw", "list", "summaries", "reads", "answered"}
     /\ req.ask \in Asks
     /\ seen.steady \subseteq seen.since /\ seen.steadyOpen \subseteq seen.open

Init ==
  /\ reviews = {} /\ members = Members /\ open = Shops /\ changes = 0
  /\ req = Idle
  /\ seen = [since |-> {}, steady |-> {}, open |-> {}, steadyOpen |-> {}, last |-> 0]

-----------------------------------------------------------------------------
(* The writes of others.                                                   *)

Unanswered == req = Idle \/ req.pc # "answered"

(* What was there at some time of the request, and what all the time.      *)
Observe(rs, os) ==
  LET live == {v \in rs : ~v.deleted} IN
  seen' = IF req = Idle THEN seen
          ELSE [seen EXCEPT !.since = @ \cup live, !.steady = @ \cap live,
                            !.open = @ \cup os, !.steadyOpen = @ \cap os]

WriteReview(d) ==
  /\ Unanswered /\ Cardinality(reviews) < MaxReviews /\ d.author \in members
  /\ reviews' = reviews \cup {[id |-> Cardinality(reviews) + 1, author |-> d.author,
                               place |-> d.place, text |-> d.text, deleted |-> FALSE]}
  /\ Observe(reviews', open)
  /\ UNCHANGED <<members, open, changes, req>>

Change == Unanswered /\ changes < MaxChanges /\ changes' = changes + 1 /\ UNCHANGED req

(* updateReview and deleteRestaurnatReview *)
EditReview(v, d) ==
  /\ Change /\ v \in Live /\ d.author = v.author /\ d.place = v.place
  /\ reviews' = (reviews \ {v}) \cup {[v EXCEPT !.text = d.text]}
  /\ Observe(reviews', open)
  /\ UNCHANGED <<members, open>>

RemoveReview(v) ==
  /\ Change /\ v \in Live
  /\ reviews' = (reviews \ {v}) \cup {[v EXCEPT !.deleted = TRUE]}
  /\ Observe(reviews', open)
  /\ UNCHANGED <<members, open>>

(* A withdrawal leaves the reviews where they are. *)
Withdraw(u) ==
  /\ Change /\ u \in members
  /\ members' = members \ {u}
  /\ UNCHANGED <<reviews, open, seen>>

(* An import closes a restaurant or opens it again. *)
OpenOrClose(s) ==
  /\ Change
  /\ open' = IF s \in open THEN open \ {s} ELSE open \cup {s}
  /\ Observe(reviews, open')
  /\ UNCHANGED <<reviews, members>>

-----------------------------------------------------------------------------
At(step) == req # Idle /\ req.pc = step
Goto(step) == req' = [req EXCEPT !.pc = step] /\ UNCHANGED <<tables, seen>>
Answer(answer) ==
  req' = [pc |-> "answered", ask |-> req.ask, answer |-> answer] /\ UNCHANGED <<tables, seen>>
Empty == Answer([kind |-> "empty"])     \* EmptyContentException: 204
Refuse == Answer([kind |-> "refused"])  \* an exception

Receive(ask) ==
  /\ req = Idle
  /\ req' = [pc |-> CASE ask.kind = "recommend" -> "near"
                      [] ask.kind = "nearby" -> "area"
                      [] ask.kind = "list" -> "list"
                      [] OTHER -> "reads",
             ask |-> ask, near |-> {}, left |-> {"profile", "count", "reviews"},
             count |-> 0, read |-> {}, aggregate |-> None]
  /\ seen' = [since |-> Live, steady |-> Live, open |-> open, steadyOpen |-> open,
              last |-> Cardinality(reviews)]
  /\ UNCHANGED tables

Return == At("answered") /\ req' = Idle /\ UNCHANGED <<tables, seen>>

(* The process dies, or a read fails. *)
Abort == req # Idle /\ ~At("answered") /\ req' = Idle /\ UNCHANGED <<tables, seen>>

-----------------------------------------------------------------------------
(* Filters and aggregates.                                                 *)

(* Faulty variant: the option is a filter like any other. *)
WithoutNothing(values) == values

(* withoutAllOption; {} is undefined. *)
WithoutAllOption(values) == IF All \in values THEN {} ELSE values

(* getReviewsByConditions *)
ByConditions(places, categories, keywords, prices) ==
  {v \in Live :
     /\ places = {} \/ v.place \in places
     /\ categories = {} \/ v.text.category \in categories
     /\ keywords = {} \/ v.text.keywords \cap keywords # {}
     /\ prices = {} \/ v.text.prices \cap prices # {}}

AtPlaces(places) == ByConditions(places, {}, {}, {})

(* calcRevisitRatio, in tenths of a percent; 0 / 0 is NaN. *)
CalcRevisitRatio(yes, opinions) == IF opinions = 0 THEN NaN ELSE (2000 * yes + opinions) \div (2 * opinions)

Yes(rows) == {v \in rows : v.text.opinion = "Y"}
Opinions(rows) == {v \in rows : v.text.opinion # None}
RevisitRatio(rows) == CalcRevisitRatio(Cardinality(Yes(rows)), Cardinality(Opinions(rows)))

(* aggregatePrice: Math.round of the mean in thousands, halves up. A price *)
(* is named by its PriceMapping.                                           *)
AveragePrice(rows) ==
  LET n == MapThenSumSet(LAMBDA v : Cardinality(v.text.prices), rows)
      sum == MapThenSumSet(LAMBDA v : MapThenSumSet(LAMBDA p : p, v.text.prices), rows)
  IN IF n = 0 THEN 0 ELSE ((sum + 500 * n) \div (1000 * n)) * 1000

(* aggregateRestaurantReview: a review without an opinion counts as ''.    *)
Aggregate(rows) ==
  [rows |-> rows, avg |-> AveragePrice(rows),
   keywords |-> UNION {v.text.keywords : v \in rows},
   ratio |-> CalcRevisitRatio(Cardinality(Yes(rows)), Cardinality(rows))]

-----------------------------------------------------------------------------
(* getRecommendations: the near restaurants with a review, the reviews of  *)
(* them that match, one of their restaurants, then a page of its reviews.  *)
(* Without any match, an imported restaurant.                              *)
ReadNear ==
  /\ At("near")
  /\ LET near == {v.place : v \in Live} \cap Near IN
       IF near # {} THEN req' = [req EXCEPT !.pc = "match", !.near = near] /\ UNCHANGED <<tables, seen>>
       ELSE IF req.ask.kind = "recommend" THEN Goto("draw") ELSE Answer([kind |-> "nearby", groups |-> {}, read |-> {}])

Match ==
  /\ At("match") /\ req.ask.kind = "recommend"
  /\ LET f == req.ask.filter
         rows == ByConditions(req.near, WithoutAllOption(f.categories), WithoutAllOption(f.keywords), f.prices)
     IN IF rows = {} THEN Goto("draw")
        ELSE \E x \in {v.place : v \in rows} :
               /\ req' = [req EXCEPT !.pc = "list", !.aggregate = Aggregate({v \in rows : v.place = x})]
               /\ UNCHANGED <<tables, seen>>

(* getRandomSbizRestaurantByDistance *)
DrawShop ==
  /\ At("draw")
  /\ LET categories == WithoutAllOption(req.ask.filter.categories)
         shops == {s \in open : categories = {} \/ s.category \in categories}
     IN IF shops = {} THEN Empty
        ELSE \E s \in shops : Answer([kind |-> "shop", shop |-> s])

-----------------------------------------------------------------------------
(* getNearByRestaurants, of members with an area (module Reviews).         *)
CheckArea == At("area") /\ (Goto("near") \/ Refuse)

Group(x, rows) ==
  [place |-> x, total |-> Cardinality(rows), ratio |-> RevisitRatio(rows), avg |-> AveragePrice(rows)]

(* A restaurant that has lost its reviews since is passed over. *)
GroupNear ==
  /\ At("match") /\ req.ask.kind = "nearby"
  /\ LET rows == AtPlaces(req.near) IN
       IF rows = {} THEN Empty
       ELSE Answer([kind |-> "nearby", read |-> rows,
              groups |-> {Group(x, {v \in rows : v.place = x}) : x \in {v.place : v \in rows}}])

-----------------------------------------------------------------------------
(* getRestaurantReviews.  The rows come in any order, and 0n is no         *)
(* restaurant to ask for: the reviews of all are listed.                   *)
Asked ==
  IF req.ask.kind = "list" THEN IF req.ask.place = 0 THEN {} ELSE {req.ask.place}
  ELSE {v.place : v \in req.aggregate.rows}
AskedPage == IF req.ask.kind = "list" THEN req.ask.page ELSE [page |-> 1, limit |-> ListLimit]

(* slice((page - 1) * limit, page * limit) *)
Slice(rows, p) ==
  SubSeq(rows, (p.page - 1) * p.limit + 1, IF p.page * p.limit < Len(rows) THEN p.page * p.limit ELSE Len(rows))

Listing(rows, shown) ==
  [read |-> rows, shown |-> shown, total |-> Cardinality(rows),
   pages |-> (Cardinality(rows) + AskedPage.limit - 1) \div AskedPage.limit,
   ratio |-> RevisitRatio(rows), counts |-> << >>,
   keywords |-> [k \in UNION {v.text.keywords : v \in rows} |-> Cardinality({v \in rows : k \in v.text.keywords})]]

(* The answer, once a page of it is complete. *)
Complete(listing) ==
  Answer(IF req.ask.kind = "list" THEN [kind |-> "list", listing |-> listing]
         ELSE [kind |-> "restaurant", aggregate |-> req.aggregate, listing |-> listing])

ReadList ==
  /\ At("list")
  /\ \E order \in SetToSeqs(AtPlaces(Asked)) :
       LET listing == Listing(AtPlaces(Asked), Slice(order, AskedPage)) IN
       IF listing.shown = << >> THEN Complete(listing)
       ELSE /\ req' = [req EXCEPT !.pc = "summaries", !.read = listing,
                                  !.left = DOMAIN listing.shown]
            /\ UNCHANGED <<tables, seen>>

(* Faulty variant: deleted reviews are not counted. *)
UserReviewCountLive(u) == Cardinality({v \in Live : v.author = u})

(* getUserReviewCount *)
UserReviewCount(u) == Cardinality({v \in reviews : v.author = u})

(* getReviewerSummary of each, all at once: searchProfile throws for a     *)
(* reviewer without an account, and the whole listing fails.               *)
Summarize ==
  /\ At("summaries")
  /\ \E i \in req.left :
       LET author == req.read.shown[i].author
           listing == [req.read EXCEPT !.counts = Append(@, [of |-> author, count |-> UserReviewCount(author)])]
       IN IF author \notin members THEN Refuse
          ELSE IF req.left = {i} THEN Complete(listing)
          ELSE /\ req' = [req EXCEPT !.left = @ \ {i}, !.read = listing]
               /\ UNCHANGED <<tables, seen>>

-----------------------------------------------------------------------------
(* getRestaurantReviewsByUserId: three reads in any order.  The restaurant *)
(* of each review is there (module Reviews).                               *)
ReadOfReviewer ==
  /\ At("reads") /\ req.ask.kind = "reviewer"
  /\ \E read \in req.left :
       LET got == [req EXCEPT !.left = @ \ {read},
                     !.read = IF read = "reviews" THEN {v \in Live : v.author = req.ask.user} ELSE @,
                     !.count = IF read = "count" THEN UserReviewCount(req.ask.user) ELSE @]
       IN IF read = "profile" /\ req.ask.user \notin members THEN Refuse
          ELSE IF got.left = {} THEN Answer([kind |-> "reviewer", read |-> got.read, count |-> got.count])
          ELSE req' = got /\ UNCHANGED <<tables, seen>>

Newest(rows) == {v \in rows : Cardinality({w \in rows : w.id > v.id}) < RecentCount}

(* getRecentReviews: ordered by createdAt, which the ids follow. *)
ReadRecent ==
  /\ At("reads") /\ req.ask.kind = "recent"
  /\ Answer([kind |-> "recent", read |-> Newest(Live)])

-----------------------------------------------------------------------------
Work ==
  \/ CheckArea \/ ReadNear \/ Match \/ DrawShop \/ GroupNear
  \/ ReadList \/ Summarize \/ ReadOfReviewer \/ ReadRecent

Next ==
  \/ \E ask \in Asks : Receive(ask)
  \/ Work \/ Return \/ Abort
  \/ \E d \in Drafts : WriteReview(d) \/ \E v \in Live : EditReview(v, d)
  \/ \E v \in Live : RemoveReview(v)
  \/ \E u \in Members : Withdraw(u)
  \/ \E s \in Shops : OpenOrClose(s)

Spec == Init /\ [][Next]_vars

-----------------------------------------------------------------------------
(* Properties                                                              *)

(* What a member who asks means by a filter. *)
Wanted(category, filter) == filter.categories = {} \/ filter.categories \cap {All, category} # {}
WantedReview(v, filter) ==
  /\ v.place \in Near
  /\ Wanted(v.text.category, filter)
  /\ filter.keywords = {} \/ All \in filter.keywords \/ \E k \in v.text.keywords : k \in filter.keywords
  /\ filter.prices = {} \/ \E p \in v.text.prices : p \in filter.prices

Answered(kind) == At("answered") /\ req.answer.kind = kind

(* A restaurant that is recommended for its reviews is near, and all that  *)
(* is told of it comes from reviews of it that match the search and were   *)
(* there during the request, none that was there all the time missing.     *)
(* Only when no review matched all the time is an imported restaurant      *)
(* recommended in its place, an open one of the categories asked for; and  *)
(* nothing only when there was none of these either.                       *)
RecommendationFits ==
  LET asked == At("answered") /\ req.ask.kind = "recommend"
      steady == {v \in seen.steady : WantedReview(v, req.ask.filter)}
  IN asked =>
     /\ req.answer.kind = "restaurant" =>
          LET rows == req.answer.aggregate.rows IN
          /\ rows # {} /\ rows \subseteq seen.since
          /\ \A v, w \in rows : WantedReview(v, req.ask.filter) /\ v.place = w.place
          /\ \A v \in rows, w \in steady : w.place = v.place => w \in rows
     /\ req.answer.kind \in {"shop", "empty"} => steady = {}
     /\ req.answer.kind = "shop" =>
          req.answer.shop \in seen.open /\ Wanted(req.answer.shop.category, req.ask.filter)
     /\ req.answer.kind = "empty" => ~\E s \in seen.steadyOpen : Wanted(s.category, req.ask.filter)

(* A rounded ratio and a rounded price are as near as they can be. *)
RatioIs(ratio, yes, all) == ratio # NaN => 2 * (all * ratio - 1000 * yes) \in -all..all
PriceIs(avg, prices) ==
  LET n == Cardinality(prices) IN 2 * (n * avg - MapThenSumSet(LAMBDA q : q[2], prices)) \in -(1000 * n)..(1000 * n)
PricesOf(rows) == UNION {{v.id} \X v.text.prices : v \in rows}

(* The rows that were read are rows of the request's time, and no row that *)
(* was there all the time is left out.                                     *)
TrueOf(read, P(_)) ==
  /\ read \subseteq {v \in seen.since : P(v)}
  /\ {v \in seen.steady : P(v)} \subseteq read

(* A count of a member's reviews is one between the first and the last. *)
CountIs(count, u) ==
  count \in Cardinality({v \in reviews : v.author = u /\ v.id <= seen.last}) .. UserReviewCount(u)

(* The numbers of a listing are those of the reviews that were read, its   *)
(* pages have the length they should, beyond the last one they are empty,  *)
(* and nobody is shown with fewer reviews than are listed of him, although *)
(* his reviews may be deleted between the reads; the reviews and counts of *)
(* a member, of the places nearby and the newest were true during the      *)
(* request.                                                                *)
ListingsAreTrue ==
  /\ Answered("list") =>
       LET l == req.answer.listing
           p == req.ask.page
           Places0(v) == req.ask.place \in {0, v.place}
       IN /\ TrueOf(l.read, Places0) /\ l.total = Cardinality(l.read)
          /\ ToSet(l.shown) \subseteq l.read /\ Cardinality(ToSet(l.shown)) = Len(l.shown)
          /\ Len(l.shown) = IF p.page < l.pages THEN p.limit
                            ELSE IF p.page = l.pages THEN l.total - (p.page - 1) * p.limit ELSE 0
          /\ RatioIs(l.ratio, Cardinality(Yes(l.read)), Cardinality(Opinions(l.read)))
          /\ \A i \in DOMAIN l.counts :
               /\ CountIs(l.counts[i].count, l.counts[i].of)
               /\ l.counts[i].count >= Cardinality({v \in l.read : v.author = l.counts[i].of})
  /\ Answered("nearby") =>
       LET IsNear(v) == v.place \in Near IN
       /\ {v \in seen.steady : IsNear(v)} \subseteq req.answer.read
       /\ \A v \in req.answer.read : \E g \in req.answer.groups : g.place = v.place
       /\ \A g \in req.answer.groups :
            LET rows == {v \in req.answer.read : v.place = g.place} IN
            /\ g.place \in Near /\ rows # {} /\ rows \subseteq seen.since /\ g.total = Cardinality(rows)
            /\ PriceIs(g.avg, PricesOf(rows))
  /\ Answered("reviewer") =>
       LET IsHis(v) == v.author = req.ask.user IN
       TrueOf(req.answer.read, IsHis) /\ CountIs(req.answer.count, req.ask.user)
  /\ Answered("recent") =>
       \A v \in seen.steady \ req.answer.read :
         Cardinality(req.answer.read) = RecentCount /\ \A w \in req.answer.read : w.id > v.id

(* With a recommended restaurant come the "latest reviews of the           *)
(* restaurant, empty when the restaurant has no reviews"                   *)
(* (restaurant.controller.ts).                                             *)
LatestFirst ==
  Answered("restaurant") =>
    \A v \in req.answer.listing.read \ ToSet(req.answer.listing.shown), w \in ToSet(req.answer.listing.shown) : v.id < w.id

(* The revisit ratio of a listing is a number                              *)
(* (restaurant.dto.ts: "revisit ratio example: 0.5 @type number").         *)
RatioIsANumber == Answered("list") => req.answer.listing.ratio # NaN

(* The reviews of a restaurant can be listed                               *)
(* (restaurant.controller.ts: get restaurant reviews by restaurant id).    *)
ListingIsServed == At("answered") /\ req.ask.kind = "list" => req.answer.kind # "refused"
=============================================================================
