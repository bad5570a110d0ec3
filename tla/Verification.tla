---------------------------- MODULE Verification ----------------------------
(***************************************************************************)
(* The authentication domain (src/src/domain/authentication): e-mail       *)
(* verification by a six digit code.  A client begins a verification and   *)
(* is mailed a code, finishes it by sending the code back, and hands the   *)
(* id it gets to another operation (registration, password reset), which   *)
(* consumes the row.                                                       *)
(*                                                                         *)
(* The server opens no database transaction: every awaited Prisma call is  *)
(* one atomic step, and handlers interleave between their awaits.  A       *)
(* request slot of Requests is one handler in flight; a crash forgets what *)
(* the handlers hold and keeps the tables.                                 *)
(***************************************************************************)
EXTENDS AuthRows, Sequences

CONSTANTS
  Requests,         \* slots for handlers that may be in flight together
  Codes,            \* values a six digit code can take
  Lifetime,         \* ticks until a code expires (180 s in the code)
  MaxHistories,     \* bound: rows of authentication_histories
  MaxTime           \* bound: the clock

VerificationAssumption == Lifetime \in Nat /\ MaxHistories \in Nat /\ MaxTime \in Nat

VARIABLES
  histories,  \* table authentication_histories, its id is the position
  now,        \* the clock
  req         \* what each handler in flight holds

vars == <<auths, nextAuth, histories, now, req, issued>>

Histories == [key: Keys, code: Codes, expiredAt: Nat]

BeginSteps == {"mail", "find", "delete", "create", "history"}   \* beginAuthProgress
FinishSteps == {"lookup", "mark", "sync"}                       \* finishAuthProgress
ResetSteps == {"resetFind", "resetDelete"}                      \* resetNotRegisteredUserAuth
NoKey == <<"no identification", "no category">>
NoCode == "no code"
Frames == [pc: BeginSteps \cup FinishSteps \cup ResetSteps \cup {"idle"},
           key: Keys \cup {NoKey}, code: Codes \cup {NoCode}, auth: Nat, user: Users \cup {NoUser}]
Idle == [pc |-> "idle", key |-> NoKey, code |-> NoCode, auth |-> NoId, user |-> NoUser]

TablesOK ==
  /\ RowsTypeOK
  /\ histories \in Seq(Histories)
  /\ now \in Nat

(* A handler in flight works on a key; one that begins has drawn its code, *)
(* one that binds has a user.                                              *)
FrameOK(f) ==
  /\ f \in Frames
  /\ IF f.pc = "idle" THEN f = Idle ELSE f.key \in Keys
  /\ f.pc \in BeginSteps => f.code \in Codes
  /\ f.pc = "sync" => f.user \in Users

TypeOK ==
  /\ TablesOK
  /\ req \in [Requests -> Frames]
  /\ \A r \in Requests : FrameOK(req[r])

Init ==
  /\ RowsInit
  /\ histories = << >>
  /\ now = 0
  /\ req = [r \in Requests |-> Idle]

-----------------------------------------------------------------------------
(* Requests                                                                *)

At(r, step) == req[r].pc = step
Goto(r, step) == req' = [req EXCEPT ![r].pc = step]

(* Faulty variant: the frame keeps what the handler held. *)
RespondKeeping(r) == req' = [req EXCEPT ![r].pc = "idle"]
Respond(r) == req' = [req EXCEPT ![r] = Idle]

Tables == <<auths, nextAuth, histories>>

(* beginAuthProgress.  taken: the answer of findAccount, which is asked    *)
(* for the category ACCOUNT only; the domain that keeps accounts knows it. *)
Begin(r, k, c, taken) ==
  /\ req[r] = Idle
  /\ req' = [req EXCEPT ![r] =
       IF k[2] = "account" /\ taken THEN Idle
       ELSE [pc |-> "mail", key |-> k, code |-> c, auth |-> NoId, user |-> NoUser]]
  /\ UNCHANGED <<Tables, now, issued>>

(* The mail provider accepts the code or refuses it; when it refuses, the  *)
(* client is answered id 0 and no row is touched.                          *)
SendCode(r) ==
  /\ At(r, "mail")
  /\ Goto(r, "find") \/ Respond(r)
  /\ UNCHANGED <<Tables, now, issued>>

(* resetNotRegisteredUserAuth reads the row of the key ... *)
FindOld(r) ==
  /\ At(r, "find")
  /\ req' = [req EXCEPT ![r] = IF Absent(req[r].key) THEN [req[r] EXCEPT !.pc = "create"]
                               ELSE [req[r] EXCEPT !.pc = "delete", !.auth = auths[req[r].key].id]]
  /\ UNCHANGED <<Tables, now, issued>>

(* ... and deletes that row, if it is still there. *)
DeleteOld(r) ==
  /\ At(r, "delete")
  /\ DeleteById(req[r].auth)
  /\ Goto(r, "create")
  /\ UNCHANGED <<nextAuth, histories, now, issued>>

CreateRow(r) ==
  /\ At(r, "create")
  /\ InsertRow(req[r].key)
  /\ Goto(r, "history")
  /\ UNCHANGED <<histories, now, issued>>

(* Another begin of the key inserted first: the insert throws. *)
CreateRowFails(r) ==
  /\ At(r, "create")
  /\ ~Absent(req[r].key)
  /\ Respond(r)
  /\ UNCHANGED <<Tables, now, issued>>

(* The response carries the id of the history. *)
CreateHistory(r) ==
  /\ At(r, "history")
  /\ Len(histories) < MaxHistories
  /\ histories' = Append(histories, [key |-> req[r].key, code |-> req[r].code,
                                     expiredAt |-> now + Lifetime])
  /\ Respond(r)
  /\ UNCHANGED <<auths, nextAuth, now, issued>>

(* findValidAuth up to its second await.  0 is the id a begin answered     *)
(* whose mail was refused.  c: one of Codes, or NoCode for a code that none *)
(* is.  u # NoUser: the route for a signed in user.                        *)
Valid(h, c) ==
  /\ h \in DOMAIN histories
  /\ histories[h].code = c
  /\ histories[h].expiredAt > now

Finish(r, h, c, u) ==
  /\ req[r] = Idle
  /\ req' = [req EXCEPT ![r] =
       IF Valid(h, c)
       THEN [pc |-> "lookup", key |-> histories[h].key, code |-> NoCode, auth |-> NoId, user |-> u]
       ELSE Idle]
  /\ UNCHANGED <<Tables, now, issued>>

(* The row is read by the key of the history, whichever begin created it. *)
LookupRow(r) ==
  /\ At(r, "lookup")
  /\ req' = [req EXCEPT ![r] = IF Absent(req[r].key) THEN Idle
                               ELSE [req[r] EXCEPT !.pc = "mark", !.auth = auths[req[r].key].id]]
  /\ UNCHANGED <<Tables, now, issued>>

(* Faulty variant: update by key, whatever row is there by now. *)
MarkRowByKey(r) ==
  /\ At(r, "mark")
  /\ ~Absent(req[r].key)
  /\ auths' = [auths EXCEPT ![req[r].key].done = TRUE]
  /\ IF req[r].user = NoUser
     THEN Respond(r) /\ issued' = issued \cup {<<req[r].key, req[r].auth>>}
     ELSE Goto(r, "sync") /\ UNCHANGED issued
  /\ UNCHANGED <<nextAuth, histories, now>>

(* updateAuthentication by id; the public route answers the id. *)
MarkRow(r) ==
  /\ At(r, "mark")
  /\ HasId(req[r].auth)
  /\ SetDone(req[r].auth)
  /\ IF req[r].user = NoUser
     THEN Respond(r) /\ issued' = issued \cup {<<req[r].key, req[r].auth>>}
     ELSE Goto(r, "sync") /\ UNCHANGED issued
  /\ UNCHANGED <<nextAuth, histories, now>>

(* syncAuthentication *)
BindUser(r) ==
  /\ At(r, "sync")
  /\ HasId(req[r].auth)
  /\ SetUser(req[r].auth, req[r].user)
  /\ issued' = issued \cup {<<req[r].key, req[r].auth>>}
  /\ Respond(r)
  /\ UNCHANGED <<nextAuth, histories, now>>

(* The row was deleted since it was read: the update throws. *)
UpdateFails(r) ==
  /\ At(r, "mark") \/ At(r, "sync")
  /\ ~HasId(req[r].auth)
  /\ Respond(r)
  /\ UNCHANGED <<Tables, now, issued>>

-----------------------------------------------------------------------------
(* What the other domains do to the rows: resetNotRegisteredUserAuth at    *)
(* the end of a password reset, removeAllAuth at the end of a withdrawal.  *)

Reset(r, k) ==
  /\ req[r] = Idle
  /\ k[2] = "password"
  /\ req' = [req EXCEPT ![r] =
       [pc |-> "resetFind", key |-> k, code |-> NoCode, auth |-> NoId, user |-> NoUser]]
  /\ UNCHANGED <<Tables, now, issued>>

ResetFind(r) ==
  /\ At(r, "resetFind")
  /\ req' = [req EXCEPT ![r] = IF Absent(req[r].key) THEN Idle
                               ELSE [req[r] EXCEPT !.pc = "resetDelete", !.auth = auths[req[r].key].id]]
  /\ UNCHANGED <<Tables, now, issued>>

ResetDelete(r) ==
  /\ At(r, "resetDelete")
  /\ DeleteById(req[r].auth)
  /\ Respond(r)
  /\ UNCHANGED <<nextAuth, histories, now, issued>>

RemoveAll(u) ==
  /\ DeleteByUser(u)
  /\ UNCHANGED <<nextAuth, histories, now, req, issued>>

-----------------------------------------------------------------------------
(* An awaited call throws, or the process dies (Abort of every handler):   *)
(* nothing but the tables survives.                                        *)
Abort(r) ==
  /\ req[r] # Idle
  /\ Respond(r)
  /\ UNCHANGED <<Tables, now, issued>>

Tick ==
  /\ now < MaxTime
  /\ now' = now + 1
  /\ UNCHANGED <<Tables, req, issued>>

(* The awaited steps of a handler. *)
Work(r) ==
  \/ SendCode(r) \/ FindOld(r) \/ DeleteOld(r)
  \/ CreateRow(r) \/ CreateRowFails(r) \/ CreateHistory(r)
  \/ LookupRow(r) \/ MarkRow(r) \/ BindUser(r) \/ UpdateFails(r)
  \/ ResetFind(r) \/ ResetDelete(r)

Next ==
  \/ \E r \in Requests :
       \/ \E k \in Keys, c \in Codes, taken \in BOOLEAN : Begin(r, k, c, taken)
       \/ \E h \in 0..MaxHistories, c \in Codes \cup {NoCode}, u \in Users \cup {NoUser} : Finish(r, h, c, u)
       \/ \E k \in Keys : Reset(r, k)
       \/ Work(r)
       \/ Abort(r)
  \/ \E u \in Users : RemoveAll(u)
  \/ Tick

Spec == Init /\ [][Next]_vars

-----------------------------------------------------------------------------
(* Properties                                                              *)

(* An id that finish has answered is good for as long as its row exists:   *)
(* whatever begins, resets and crashes come in between, a row that has the *)
(* id belongs to the key that was verified and is DONE, so that a client   *)
(* who verified an address can use the id until the row goes, and its id   *)
(* never comes to stand for another address.                               *)
IssuedIsDone ==
  \A p \in issued, k \in Keys :
    auths[k].id = p[2] => k = p[1] /\ auths[k].done
=============================================================================
