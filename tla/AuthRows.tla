------------------------------ MODULE AuthRows ------------------------------
(***************************************************************************)
(* The table authentications and the statements the code runs on it        *)
(* (src/src/domain/authentication/repository), and what the table promises *)
(* to the domains that rely on it: RowsSpec.  Verification implements that *)
(* promise with interleaved handlers; Membership builds on it.             *)
(***************************************************************************)
EXTENDS Naturals

CONSTANTS
  Identifications,  \* e-mail addresses
  Categories,       \* what a verification is for: account, password
  Users,            \* ids of users, positive; 0 stands for no user
  MaxRows           \* bound: rows of authentications ever created

ASSUME AuthRowsAssumption == Users \subseteq Nat \ {0} /\ MaxRows \in Nat

VARIABLES
  auths,      \* the table, unique on (identification, category)
  nextAuth,   \* its autoincrement: ids are never reused
  issued      \* observation: the (key, id) pairs finish has answered to clients

rowVars == <<auths, nextAuth, issued>>

(* The unique key of a row.  type is left out: only EMAIL is accepted. *)
Keys == Identifications \X Categories

NoUser == 0
NoId == 0
Rows == [id: Nat, done: BOOLEAN, user: Users \cup {NoUser}]
NoRow == [id |-> NoId, done |-> FALSE, user |-> NoUser]

RowsTypeOK ==
  /\ auths \in [Keys -> Rows]
  /\ nextAuth \in Nat \ {0}
  /\ issued \subseteq Keys \X Nat

RowsInit ==
  /\ auths = [k \in Keys |-> NoRow]
  /\ nextAuth = 1
  /\ issued = {}

-----------------------------------------------------------------------------
(* Statements                                                              *)

(* getAuthenticationByCondition finds nothing. *)
Absent(k) == auths[k].id = NoId

(* updateAuthentication: Prisma throws when no row has the id. *)
HasId(id) == id # NoId /\ \E k \in Keys : auths[k].id = id
SetDone(id) ==
  auths' = [k \in Keys |-> IF auths[k].id = id THEN [auths[k] EXCEPT !.done = TRUE] ELSE auths[k]]
SetUser(id, u) ==
  auths' = [k \in Keys |-> IF auths[k].id = id THEN [auths[k] EXCEPT !.user = u] ELSE auths[k]]

(* deleteAuthentications: deleteMany ignores an id that is gone. *)
DeleteById(id) ==
  auths' = [k \in Keys |-> IF auths[k].id = id THEN NoRow ELSE auths[k]]

(* deleteAuthenticationByUserId *)
DeleteByUser(u) ==
  auths' = [k \in Keys |-> IF auths[k].user = u THEN NoRow ELSE auths[k]]

(* Faulty variant: an upsert that takes the row over instead of inserting. *)
UpsertRow(k) ==
  /\ nextAuth <= MaxRows
  /\ auths' = [auths EXCEPT ![k] =
       IF Absent(k) THEN [id |-> nextAuth, done |-> FALSE, user |-> NoUser]
       ELSE [@ EXCEPT !.done = FALSE]]
  /\ nextAuth' = nextAuth + 1

(* saveAuthentication: violates the unique index when the key has a row. *)
InsertRow(k) ==
  /\ nextAuth <= MaxRows
  /\ Absent(k)
  /\ auths' = [auths EXCEPT ![k] = [id |-> nextAuth, done |-> FALSE, user |-> NoUser]]
  /\ nextAuth' = nextAuth + 1

-----------------------------------------------------------------------------
(* The promise: rows come with fresh ids, turn DONE and never back, are    *)
(* answered to a client only when DONE, and go.                            *)

Open(k) == InsertRow(k) /\ UNCHANGED issued

Verify(k) ==
  /\ ~Absent(k)
  /\ SetDone(auths[k].id)
  /\ issued' \in {issued, issued \cup {<<k, auths[k].id>>}}
  /\ UNCHANGED nextAuth

(* The signed in route and registration tie a row to a user. *)
Bind(k, u) ==
  /\ ~Absent(k)
  /\ SetUser(auths[k].id, u)
  /\ issued' \in {issued, IF auths[k].done THEN issued \cup {<<k, auths[k].id>>} ELSE issued}
  /\ UNCHANGED nextAuth

Drop(gone) ==
  /\ auths' = [k \in Keys |-> IF k \in gone THEN NoRow ELSE auths[k]]
  /\ UNCHANGED <<nextAuth, issued>>

RowsNext ==
  \/ \E k \in Keys : Open(k) \/ Verify(k) \/ \E u \in Users : Bind(k, u)
  \/ \E gone \in SUBSET Keys : Drop(gone)

RowsSpec == RowsInit /\ [][RowsNext]_rowVars
=============================================================================
