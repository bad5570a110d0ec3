------------------------------ MODULE MCSearch ------------------------------
(* A small instance of Search: three restaurants of which two are near,    *)
(* two members, three texts, an imported restaurant.                       *)
EXTENDS Search

Text(category, keywords, prices, opinion) ==
  [category |-> category, keywords |-> keywords, prices |-> prices, opinion |-> opinion]
Korean == Text("korean", {"taste"}, {7500, 18000}, "Y")
Cafe == Text("cafe", {"taste", "kind"}, {14500}, None)
Bland == Text("korean", {}, {}, "N")
Draft(u, x, t) == [author |-> u, place |-> x, text |-> t]
MCDrafts == {Draft("u1", 1, Korean), Draft("u1", 1, Cafe), Draft("u2", 2, Cafe), Draft("u2", 3, Bland)}
MCShops == {[id |-> 9, category |-> "cafe"]}
Filter(categories, keywords, prices) == [categories |-> categories, keywords |-> keywords, prices |-> prices]
MCFilters == {Filter({"korean"}, {All}, {}), Filter({All, "cafe"}, {"kind"}, {}), Filter({}, {}, {18000})}
MCPages == {[page |-> 1, limit |-> 2], [page |-> 2, limit |-> 1]}
=============================================================================
