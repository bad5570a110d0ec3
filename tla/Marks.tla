------------------------------- MODULE Marks -------------------------------
(***************************************************************************)
(* What the preference routes promise a member: a set of bookmarked and a  *)
(* set of excluded restaurants, to which one restaurant at a time is added *)
(* or from which one is removed: StrictSpec.  MarksSpec promises this for  *)
(* the sets that no two requests were ever at work on together.            *)
(***************************************************************************)
CONSTANTS Users, Columns, Restaurants

VARIABLES
  marked,      \* marked[u][c]: the restaurants of user u in column c
  contended    \* the <<user, column>> that two requests were at work on together

MarksInit ==
  /\ marked = [u \in Users |-> [c \in Columns |-> {}]]
  /\ contended = {}

Mark(u, c, x) ==
  /\ x \notin marked[u][c]
  /\ marked' = [marked EXCEPT ![u][c] = @ \cup {x}]
  /\ UNCHANGED contended

Unmark(u, c, x) ==
  /\ x \in marked[u][c]
  /\ marked' = [marked EXCEPT ![u][c] = @ \ {x}]
  /\ UNCHANGED contended

Contend(u, c) == contended' = contended \cup {<<u, c>>} /\ UNCHANGED marked

Overwrite(u, c) ==
  /\ <<u, c>> \in contended
  /\ \E xs \in SUBSET Restaurants : marked' = [marked EXCEPT ![u][c] = xs]
  /\ UNCHANGED contended

MarkOrUnmark == \E u \in Users, c \in Columns, x \in Restaurants : Mark(u, c, x) \/ Unmark(u, c, x)
MarksNext == MarkOrUnmark \/ \E u \in Users, c \in Columns : Contend(u, c) \/ Overwrite(u, c)

MarksSpec == MarksInit /\ [][MarksNext]_<<marked, contended>>
StrictSpec == MarksInit /\ [][MarkOrUnmark]_marked
=============================================================================
