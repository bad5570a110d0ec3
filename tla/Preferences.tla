---------------------------- MODULE Preferences ----------------------------
(***************************************************************************)
(* Bookmarked and excluded restaurants of a member                         *)
(* (src/src/domain/user/service/user.service.ts, preference.repository).   *)
(*                                                                         *)
(* A member has at most one row of user_preferences with an array of       *)
(* restaurant ids per column.  Adding reads the row, then appends with an  *)
(* upsert; removing reads the row, filters the array and writes it back.   *)
(* This implements Marks as long as no two handlers are at work on one     *)
(* array of one member together.                                           *)
(***************************************************************************)
EXTENDS Naturals, Sequences, Functions

CONSTANTS
  Requests,     \* slots for handlers in flight
  Users,
  Columns,      \* bookmark, exclude
  Restaurants,
  MaxReceived   \* bound: requests ever received

PreferencesAssumption == MaxReceived \in Nat

VARIABLES
  rows,    \* users that have a row of user_preferences
  lists,   \* the arrays of the row
  req,     \* what each handler in flight holds
  contended,  \* observation: <<user, column>> that two handlers worked on together
  received    \* requests received so far

vars == <<rows, lists, req, contended, received>>

observed == <<contended, received>>

None == "none"
NoLists == [c \in Columns |-> << >>]
Lists == [Columns -> Seq(Restaurants)]
Idle == [pc |-> "idle", user |-> None, column |-> None, restaurant |-> None, row |-> NoLists]

FrameOK(f) ==
  IF f.pc = "idle" THEN f = Idle
  ELSE /\ f.pc \in {"readToAdd", "push", "readToDelete", "write"}
       /\ f.user \in Users /\ f.column \in Columns /\ f.restaurant \in Restaurants
       /\ f.row \in Lists

(* The row is created by the first addition and stays. *)
TypeOK ==
  /\ rows \subseteq Users
  /\ lists \in [Users -> Lists]
  /\ \A u \in Users \ rows : lists[u] = NoLists
  /\ DOMAIN req = Requests
  /\ \A r \in Requests : FrameOK(req[r])
  /\ contended \subseteq Users \X Columns
  /\ received \in 0..MaxReceived

Init ==
  /\ rows = {}
  /\ lists = [u \in Users |-> NoLists]
  /\ req = [r \in Requests |-> Idle]
  /\ contended = {} /\ received = 0

-----------------------------------------------------------------------------
At(r, step) == req[r].pc = step

(* Faulty variant: the frame keeps what the handler held. *)
RespondKeeping(r) == req' = [req EXCEPT ![r].pc = "idle"]
Respond(r) == req' = [req EXCEPT ![r] = Idle]

Receive(r, step, u, c, x) ==
  /\ req[r] = Idle
  /\ received < MaxReceived
  /\ received' = received + 1
  /\ req' = [req EXCEPT ![r] = [pc |-> step, user |-> u, column |-> c, restaurant |-> x, row |-> NoLists]]
  /\ contended' = IF \E s \in Requests : req[s].user = u /\ req[s].column = c
                  THEN contended \cup {<<u, c>>} ELSE contended
  /\ UNCHANGED <<rows, lists>>

Add(r, u, c, x) == Receive(r, "readToAdd", u, c, x)
Delete(r, u, c, x) == Receive(r, "readToDelete", u, c, x)

(* Faulty variant: the row is not looked at. *)
AddUnchecked(r) ==
  /\ At(r, "readToAdd")
  /\ req' = [req EXCEPT ![r].pc = "push"]
  /\ UNCHANGED <<rows, lists, observed>>

(* createPreferenceRestaurant refuses a restaurant the array has. *)
CheckAdd(r) ==
  /\ At(r, "readToAdd")
  /\ LET f == req[r] IN
       IF f.user \in rows /\ f.restaurant \in Range(lists[f.user][f.column])
       THEN Respond(r)
       ELSE req' = [req EXCEPT ![r].pc = "push"]
  /\ UNCHANGED <<rows, lists, observed>>

(* Faulty variant: the array is set, not appended to. *)
PushOnly(r) ==
  /\ At(r, "push")
  /\ lists' = [lists EXCEPT ![req[r].user][req[r].column] = <<req[r].restaurant>>]
  /\ rows' = rows \cup {req[r].user}
  /\ Respond(r)
  /\ UNCHANGED observed

(* savePreferenceRestaurant: the upsert appends to the array as it is now. *)
Push(r) ==
  /\ At(r, "push")
  /\ lists' = [lists EXCEPT ![req[r].user][req[r].column] = Append(@, req[r].restaurant)]
  /\ rows' = rows \cup {req[r].user}
  /\ Respond(r)
  /\ UNCHANGED observed

(* deleteUserPreferenceRestaurant reads the whole row. *)
ReadToDelete(r) ==
  /\ At(r, "readToDelete")
  /\ IF req[r].user \in rows
     THEN req' = [req EXCEPT ![r].pc = "write", ![r].row = lists[req[r].user]]
     ELSE Respond(r)
  /\ UNCHANGED <<rows, lists, observed>>

(* filter: goes through the array and keeps what is not x. *)
Without(list, x) ==
  LET kept[n \in 0..Len(list)] ==
        IF n = 0 THEN << >>
        ELSE IF list[n] = x THEN kept[n - 1] ELSE Append(kept[n - 1], list[n])
  IN  kept[Len(list)]

(* deletePreferenceRestaurant filters the array that was read and sets it. *)
Write(r) ==
  /\ At(r, "write")
  /\ lists' = [lists EXCEPT ![req[r].user][req[r].column] =
                 Without(req[r].row[req[r].column], req[r].restaurant)]
  /\ Respond(r)
  /\ UNCHANGED <<rows, observed>>

(* An awaited call throws, or the process dies. *)
Abort(r) ==
  /\ req[r] # Idle
  /\ Respond(r)
  /\ UNCHANGED <<rows, lists, observed>>

Next ==
  \E r \in Requests :
    \/ \E u \in Users, c \in Columns, x \in Restaurants : Add(r, u, c, x) \/ Delete(r, u, c, x)
    \/ CheckAdd(r) \/ Push(r) \/ ReadToDelete(r) \/ Write(r) \/ Abort(r)

Spec == Init /\ [][Next]_vars

-----------------------------------------------------------------------------
(* Properties                                                              *)

(* No array lists a restaurant twice: createPreferenceRestaurant answers   *)
(* a conflict for a restaurant that is there.  Only two handlers at work   *)
(* on one array together, such as two additions that both read the row     *)
(* before either appends, can make it so.                                  *)
NoDuplicates ==
  \A u \in Users, c \in Columns : <<u, c>> \notin contended =>
    \A i, j \in DOMAIN lists[u][c] : lists[u][c][i] = lists[u][c][j] => i = j

AsSets == INSTANCE Marks WITH
  marked <- [u \in Users |-> [c \in Columns |-> Range(lists[u][c])]]

(* Every step adds or removes one mark of one array at most, unless two    *)
(* handlers were at work on the array together.                            *)
OneMarkAtATime == AsSets!MarksSpec

(* Every addition and removal counts (user.service.spec.ts: removing one   *)
(* of two excluded restaurants leaves the other).  A removal that writes   *)
(* back an array read before another handler's write undoes that write.    *)
EveryMarkCounts == AsSets!StrictSpec
=============================================================================
