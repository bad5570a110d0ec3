-------------------------- MODULE Membership_proofs --------------------------
(***************************************************************************)
(* What registrations, logins, renames and withdrawals keep true, for any  *)
(* number of handlers, members, addresses and nicknames.  The inductive    *)
(* invariant says what a handler in flight may rely on: what it read or    *)
(* wrote before its last await is still so.                                *)
(***************************************************************************)
EXTENDS Membership, TLAPS

(* Ids come from an autoincrement: those in the table are below its next   *)
(* value and belong to one row each.                                       *)
RowIds ==
  /\ \A k \in Keys : auths[k].id < nextAuth
  /\ \A j, k \in Keys : auths[j].id = auths[k].id /\ auths[k].id # NoId => j = k

(* An id that was answered was handed out for the key it was answered for. *)
IssuedIds ==
  \A p \in issued :
    /\ p[2] # NoId /\ p[2] < nextAuth
    /\ \A k \in Keys : auths[k].id = p[2] => k = p[1]

RowsInv == RowsTypeOK /\ RowIds /\ IssuedIds

(* Whoever is named anywhere was created, and nobody else has a record.    *)
UsersExist ==
  /\ \A u \in Users : Exists(u) <=> u < nextUser
  /\ \A r \in Requests : req[r].user < nextUser
  /\ \A e \in Identifications : accounts[e] < nextUser
  /\ \A u \in tokens \cup withdrawn : u < nextUser

(* A registration that was let in holds an id that was handed out, so that *)
(* no later row gets it.                                                   *)
HandedOut(r) == req[r].pc \in LetInSteps => req[r].auth # NoId /\ req[r].auth < nextAuth
OwnRows == HoldsItsOwnRow /\ \A r \in Requests : HandedOut(r)

(* A user whose account is not saved yet is known to its registration      *)
(* only.                                                                   *)
Unknown(r) ==
  /\ req[r].user \notin tokens \cup withdrawn
  /\ \A e \in Identifications : accounts[e] # req[r].user
  /\ \A s \in Requests \ {r} : req[s].user # req[r].user
NewUsers == \A r \in Requests : req[r].pc \in Unsaved => Unknown(r)

(* A user that a failed registration left behind is known to no handler:   *)
(* the registration is gone and no other request can come to hold it.      *)
Orphaned ==
  /\ OrphansAreUnregistered
  /\ \A u \in orphans, r \in Requests : req[r].user # u
  /\ \A r \in Requests : req[r].pc \in Unsaved => users[req[r].user].state = "ACTIVE"

(* A withdrawal past its first steps has left the opinion, the new state.  *)
Asked(r) ==
  /\ req[r].pc \in {"state", "accounts", "tokens", "auths"} => req[r].user \in opinions
  /\ req[r].pc \in {"accounts", "tokens", "auths"} => users[req[r].user].state = "WITHDRAWAL"
Withdrawing == \A r \in Requests : Asked(r)

(* A withdrawal past its opinion is the only one of its user, and is not   *)
(* answered yet; while nothing failed, every opinion in the table is of a  *)
(* withdrawal that is answered or still on its way.                        *)
AfterOpinion == {"state", "accounts", "tokens", "auths"}
Carries(r, u) == req[r].pc \in AfterOpinion /\ req[r].user = u
AnsweredOnce ==
  /\ withdrawn \subseteq opinions
  /\ \A r \in Requests : req[r].pc \in AfterOpinion => req[r].user \in opinions \ withdrawn
OneAtATime == \A r, s \in Requests : req[r].pc \in AfterOpinion /\ r # s => ~Carries(s, req[r].user)
NoneStranded == aborts = 0 => \A u \in opinions \ withdrawn : \E r \in Requests : Carries(r, u)
WithdrawsOnce == AnsweredOnce /\ OneAtATime /\ NoneStranded

(* A user whose withdrawal is past the removal of the accounts has none;   *)
(* past the removal of the tokens, it has neither tokens nor a login that  *)
(* is to save one.                                                         *)
Past(u, steps) == u \in withdrawn \/ \E r \in Requests : req[r].pc \in steps /\ req[r].user = u
NoAccount(u) == \A e \in Identifications : accounts[e] # u
NoLogin(u) == u \notin tokens /\ \A s \in Requests : At(s, "saveToken") => req[s].user # u
AccountsGone == \A u \in Users : Past(u, {"tokens", "auths"}) => u \in kept \/ NoAccount(u)
TokensGone == \A u \in Users : Past(u, {"auths"}) => u \in kept \cup late \/ NoLogin(u)

(* A handler that has found a nickname free holds one that is free still,  *)
(* unless another handler had found it free together with it.              *)
Holds(r, n) == req[r].pc \in {"validate", "user", "rename"} /\ req[r].nickname = n
FreeUnlessRivals ==
  \A n \in Nicknames, r \in Requests : Holds(r, n) /\ ~req[r].rival =>
    /\ \A s \in Requests \ {r} : ~Holds(s, n)
    /\ ~NicknameTaken(n)

IInv ==
  /\ TypeOK /\ RowIds /\ IssuedIds
  /\ UsersExist
  /\ OwnRows
  /\ OneAccountPerUser /\ NewUsers /\ Orphaned
  /\ Withdrawing /\ WithdrawsOnce /\ AccountsGone /\ TokensGone
  /\ FreeUnlessRivals /\ NicknamesDiffer

-----------------------------------------------------------------------------
(* The table of verifications                                              *)

LEMMA RowsInit_RowsInv == RowsInit => RowsInv
BY AuthRowsAssumption DEF RowsInit, RowsInv, RowsTypeOK, RowIds, IssuedIds, Rows, NoRow, NoId, NoUser

(* Whatever a table does that keeps the promise of RowsSpec, ids stay fresh *)
(* and stay with their keys.                                               *)
LEMMA RowsStep == RowsInv /\ [RowsNext]_rowVars => RowsInv'
<1> SUFFICES ASSUME RowsInv, [RowsNext]_rowVars PROVE RowsInv'
  OBVIOUS
<1> USE AuthRowsAssumption DEF RowsInv, RowsTypeOK, RowIds, IssuedIds, Rows, NoRow, NoId, NoUser
<1>1. ASSUME NEW k \in Keys, Open(k) PROVE RowsInv'
  BY <1>1 DEF Open, InsertRow, Absent
<1>2. ASSUME NEW k \in Keys, Verify(k) PROVE RowsInv'
  <2>1. auths' \in [Keys -> Rows] /\ \A j \in Keys : auths'[j].id = auths[j].id
    <3>1. \A j \in Keys : auths[j] \in Rows
      OBVIOUS
    <3>2. \A row \in Rows : [row EXCEPT !.done = TRUE] \in Rows /\ [row EXCEPT !.done = TRUE].id = row.id
      OBVIOUS
    <3>3. QED
      BY <1>2, <3>1, <3>2 DEF Verify, SetDone
  <2>2. issued' \subseteq issued \cup {<<k, auths[k].id>>} /\ auths[k].id # NoId /\ nextAuth' = nextAuth
    BY <1>2 DEF Verify, Absent
  <2>3. RowsTypeOK' /\ RowIds'
    BY <2>1, <2>2
  <2>4. IssuedIds'
    BY <2>1, <2>2
  <2>5. QED
    BY <2>3, <2>4
<1>3. ASSUME NEW k \in Keys, NEW u \in Users, Bind(k, u) PROVE RowsInv'
  BY <1>3 DEF Bind, SetUser, Absent
<1>4. ASSUME NEW gone \in SUBSET Keys, Drop(gone) PROVE RowsInv'
  BY <1>4 DEF Drop
<1>5. CASE UNCHANGED rowVars
  BY <1>5 DEF rowVars
<1>6. QED
  BY <1>1, <1>2, <1>3, <1>4, <1>5 DEF RowsNext

(* Registrations and withdrawals use the table as RowsSpec promises.       *)
LEMMA StepOfRows == TypeOK /\ [Next]_vars => [RowsNext]_rowVars
<1> SUFFICES ASSUME TypeOK, [Next]_vars PROVE [RowsNext]_rowVars
  OBVIOUS
<1>1. ASSUME NEW r \in Requests, SyncRow(r) PROVE [RowsNext]_rowVars
  <2>1. CASE ~HasId(req[r].auth)
    BY <1>1, <2>1 DEF SyncRow, rowVars
  <2>2. CASE HasId(req[r].auth)
    <3>1. PICK k \in Keys : auths[k].id = req[r].auth /\ ~Absent(k)
      BY <2>2 DEF HasId, Absent
    <3>2. req[r].user \in Users
      BY <1>1 DEF SyncRow, At, TypeOK, FrameOK
    <3>3. Bind(k, req[r].user)
      BY <1>1, <2>2, <3>1 DEF SyncRow, Bind
    <3>4. QED
      BY <3>2, <3>3 DEF RowsNext
  <2>3. QED
    BY <2>1, <2>2
<1>2. ASSUME NEW r \in Requests, RemoveAuths(r) PROVE [RowsNext]_rowVars
  <2>1. CASE UNCHANGED auths
    BY <1>2, <2>1 DEF RemoveAuths, rowVars
  <2>2. CASE DeleteByUser(req[r].user)
    <3>1. Drop({k \in Keys : auths[k].user = req[r].user})
      BY <1>2, <2>2 DEF RemoveAuths, DeleteByUser, Drop
    <3>2. QED
      BY <3>1 DEF RowsNext
  <2>3. QED
    BY <1>2, <2>1, <2>2 DEF RemoveAuths
<1>3. CASE Verification
  <2>1. PICK k \in Keys : Open(k) \/ Verify(k) \/ Drop({k}) \/ \E u \in tokens : Bind(k, u)
    BY <1>3 DEF Verification, Finish
  <2>2. tokens \subseteq Users /\ {k} \in SUBSET Keys
    BY DEF TypeOK
  <2>3. QED
    BY <2>1, <2>2 DEF RowsNext
<1>4. ASSUME NEW r \in Requests,
             \/ Register(r)
             \/ \E e \in Identifications : Login(r, e)
             \/ \E u \in Users : Logout(r, u) \/ UpdateProfile(r, u) \/ Withdraw(r, u)
             \/ CheckNickname(r) \/ Validate(r) \/ GenerateNickname(r) \/ CreateUser(r) \/ CreateProfile(r)
             \/ CheckAccount(r) \/ SaveAccount(r) \/ SaveToken(r) \/ RemoveTokens(r)
             \/ CheckNewNickname(r) \/ Rename(r)
             \/ SaveOpinion(r) \/ ChangeState(r) \/ RemoveAccounts(r) \/ RemoveAllTokens(r) \/ Abort(r)
      PROVE  UNCHANGED rowVars
  BY <1>4 DEF Register, Login, Logout, UpdateProfile, Withdraw, Guarded, CheckNickname, Validate,
              GenerateNickname, CreateUser, CreateProfile, CheckAccount, SaveAccount, SaveToken,
              RemoveTokens, CheckNewNickname, Rename, SaveOpinion, ChangeState, RemoveAccounts,
              RemoveAllTokens, Abort
<1>5. CASE UNCHANGED vars
  BY <1>5 DEF vars, rowVars
<1>6. QED
  BY <1>1, <1>2, <1>3, <1>4, <1>5 DEF Next, Work

-----------------------------------------------------------------------------
(* Types                                                                   *)

LEMMA IdleOK == FrameOK(Idle)
BY DEF FrameOK, Frames, Idle, NoId, NoUser, NoIdent, NoNick, RegisterSteps, LetInSteps, WithdrawSteps, OtherSteps

(* A step of one handler keeps the types of req when its new frame is fine. *)
FramesOK == req \in [Requests -> Frames] /\ \A r \in Requests : FrameOK(req[r])

LEMMA FrameChange ==
  ASSUME TypeOK, NEW r \in Requests, NEW f, FrameOK(f), req' = [req EXCEPT ![r] = f]
  PROVE  FramesOK'
BY DEF TypeOK, FramesOK, FrameOK

LEMMA Responded ==
  ASSUME TypeOK, NEW r \in Requests, Respond(r)
  PROVE  FramesOK'
BY FrameChange, IdleOK DEF Respond

(* A step forward keeps what the handler holds; later steps need a user.   *)
LEMMA WentOn ==
  ASSUME TypeOK, NEW r \in Requests, NEW step, Goto(r, step),
         \/ step \in {"nickname", "validate"}
         \/ step \in {"find", "account", "sync"} /\ req[r].pc \in LetInSteps /\ req[r].user \in Users
         \/ step \in WithdrawSteps /\ req[r].user \in Users
  PROVE  FramesOK'
<1> DEFINE f == [req[r] EXCEPT !.pc = step]
<1>1. FrameOK(req[r])
  BY DEF TypeOK
<1>2. FrameOK(f)
  BY <1>1 DEF FrameOK, Frames, RegisterSteps, LetInSteps, WithdrawSteps, OtherSteps
<1>3. req' = [req EXCEPT ![r] = f]
  BY DEF Goto
<1>4. QED
  BY <1>2, <1>3, FrameChange

LEMMA NicknameFound ==
  ASSUME TypeOK, NEW r \in Requests, NEW n \in Nicknames, NEW step \in {"validate", "user", "rename"},
         FoundFree(r, n, step),
         step = "user" => req[r].pc \in LetInSteps,
         step = "rename" => req[r].user \in Users
  PROVE  FramesOK'
<1>1. \A s \in Requests : FrameOK(req[s])
  BY DEF TypeOK
<1>2. req'[r] = [req[r] EXCEPT !.pc = step, !.nickname = n, !.rival = Rivals(r, n) # {}]
  BY DEF FoundFree
<1>3. FrameOK(req'[r])
  BY <1>1, <1>2 DEF FrameOK, Frames, RegisterSteps, LetInSteps, WithdrawSteps, OtherSteps
<1>4. ASSUME NEW s \in Requests, s # r PROVE FrameOK(req'[s])
  <2>1. CASE s \in Rivals(r, n)
    <3>1. req'[s] = [req[s] EXCEPT !.rival = TRUE] /\ req[s].pc # "idle"
      BY <1>4, <2>1 DEF FoundFree, Rivals
    <3>2. QED
      BY <1>1, <3>1 DEF FrameOK, Frames
  <2>2. CASE s \notin Rivals(r, n)
    BY <1>1, <1>4, <2>2 DEF FoundFree
  <2>3. QED
    BY <2>1, <2>2
<1>5. DOMAIN req' = Requests /\ req' = [s \in Requests |-> req'[s]]
  BY DEF FoundFree
<1>6. QED
  BY <1>3, <1>4, <1>5 DEF FramesOK, FrameOK

(* A registration that is let in takes up the address and the id.          *)
LEMMA LetInOK ==
  ASSUME TypeOK, NEW r \in Requests, At(r, "validate"),
         NEW e \in Identifications, NEW id \in 1..MaxRows, LetIn(r, e, id)
  PROVE  FramesOK'
<1> DEFINE f == [req[r] EXCEPT !.pc = IF req[r].nickname = NoNick THEN "generate" ELSE "user",
                               !.ident = e, !.auth = id]
<1>1. FrameOK(req[r]) /\ req[r].pc = "validate"
  BY DEF TypeOK, At
<1>2. id \in Nat
  BY AuthRowsAssumption
<1>3. f \in Frames
  BY <1>1, <1>2 DEF FrameOK, Frames, RegisterSteps
<1>4. FrameOK(f)
  BY <1>1, <1>3 DEF FrameOK, Frames, RegisterSteps, LetInSteps, WithdrawSteps, OtherSteps
<1>5. req' = [req EXCEPT ![r] = f]
  BY DEF LetIn
<1>6. QED
  BY <1>4, <1>5, FrameChange

(* The tables and what is observed of them.                                *)
TablesOK ==
  /\ users \in [Users -> UserRecords] /\ nextUser \in Nat \ {0}
  /\ accounts \in [Identifications -> Users \cup {NoUser}]
  /\ tokens \subseteq Users /\ opinions \subseteq Users
  /\ withdrawn \subseteq Users /\ kept \subseteq Users /\ late \subseteq Users /\ met \subseteq Nicknames
  /\ orphans \subseteq Users
  /\ aborts \in Nat

LEMMA TypeParts == TypeOK <=> RowsTypeOK /\ TablesOK /\ FramesOK
BY DEF TypeOK, TablesOK, FramesOK

LEMMA TypeStep == TypeOK /\ RowsInv /\ [Next]_vars => TypeOK' /\ RowsInv'
<1> SUFFICES ASSUME TypeOK, RowsInv, [Next]_vars PROVE TypeOK' /\ RowsInv'
  OBVIOUS
<1>0. RowsInv'
  BY StepOfRows, RowsStep
<1> DEFINE Typed == TablesOK' /\ FramesOK'
<1> USE MembershipAssumption, AuthRowsAssumption
<1>1. ASSUME NEW r \in Requests, Register(r) PROVE Typed
  BY <1>1, WentOn DEF Register, memberVars, seen, TypeOK, TablesOK
<1>3. ASSUME NEW r \in Requests, NEW u \in Users,
             NEW step \in {"saveToken", "logout", "renameCheck", "opinion"},
             req' = [req EXCEPT ![r] = [Idle EXCEPT !.pc = step, !.user = u]]
      PROVE FramesOK'
  <2> DEFINE f == [Idle EXCEPT !.pc = step, !.user = u]
  <2>1. Idle \in Frames
    BY IdleOK DEF FrameOK
  <2>2. FrameOK(f)
    BY <2>1 DEF FrameOK, Frames, RegisterSteps, LetInSteps, WithdrawSteps, OtherSteps
  <2>3. QED
    BY <1>3, <2>2, FrameChange
<1>4. ASSUME NEW r \in Requests, NEW e \in Identifications, Login(r, e) PROVE Typed
  <2>1. accounts[e] \in Users
    BY <1>4 DEF Login, TypeOK
  <2>2. FramesOK'
    BY <1>3, <1>4, <2>1 DEF Login
  <2>3. QED
    BY <1>4, <2>2 DEF Login, memberVars, seen, TypeOK, TablesOK
<1>5. ASSUME NEW r \in Requests, NEW u \in Users, Logout(r, u) \/ UpdateProfile(r, u) \/ Withdraw(r, u)
      PROVE Typed
  <2>1. FramesOK'
    BY <1>3, <1>5 DEF Logout, UpdateProfile, Withdraw, Guarded
  <2>2. QED
    BY <1>5, <2>1 DEF Logout, UpdateProfile, Withdraw, Guarded, memberVars, seen, TypeOK, TablesOK
<1>7. ASSUME NEW r \in Requests, CheckNickname(r) PROVE Typed
  <2>1. FramesOK'
    BY <1>7, Responded, NicknameFound DEF CheckNickname
  <2>2. QED
    BY <1>7, <2>1 DEF CheckNickname, memberVars, seen, TypeOK, TablesOK
<1>8. ASSUME NEW r \in Requests, Validate(r) PROVE Typed
  <2>1. FramesOK'
    BY <1>8, Responded, LetInOK DEF Validate
  <2>2. QED
    BY <1>8, <2>1 DEF Validate, memberVars, seen, TypeOK, TablesOK
<1>9. ASSUME NEW r \in Requests, GenerateNickname(r) PROVE Typed
  <2>1. PICK n \in Nicknames : FoundFree(r, n, "user")
    BY <1>9 DEF GenerateNickname
  <2>2. req[r].pc \in LetInSteps
    BY <1>9 DEF GenerateNickname, At, LetInSteps
  <2>3. FramesOK'
    BY <2>1, <2>2, NicknameFound
  <2>4. QED
    BY <1>9, <2>3 DEF GenerateNickname, memberVars, seen, TypeOK, TablesOK
<1>10. ASSUME NEW r \in Requests, CreateUser(r) PROVE Typed
  <2> DEFINE f == [req[r] EXCEPT !.pc = "profile", !.user = nextUser, !.nickname = NoNick, !.rival = FALSE]
  <2>1. FrameOK(req[r]) /\ req[r].pc = "user" /\ nextUser \in Users
    BY <1>10 DEF CreateUser, At, TypeOK
  <2>2. FrameOK(f)
    BY <2>1 DEF FrameOK, Frames, RegisterSteps, LetInSteps, WithdrawSteps, OtherSteps
  <2>3. req' = [req EXCEPT ![r] = f]
    BY <1>10 DEF CreateUser
  <2>4. FramesOK'
    BY <2>2, <2>3, FrameChange
  <2>5. users' \in [Users -> UserRecords]
    BY <1>10, <2>1 DEF CreateUser, TypeOK, UserRecords, FrameOK, Frames, RegisterSteps
  <2>6. met' \subseteq Nicknames
    BY <1>10 DEF CreateUser, Observe, Shared
  <2>7. QED
    BY <1>10, <2>4, <2>5, <2>6 DEF CreateUser, TypeOK, TablesOK
<1>11. ASSUME NEW r \in Requests, CreateProfile(r) PROVE Typed
  <2>1. req[r].pc \in LetInSteps /\ req[r].user \in Users
    BY <1>11 DEF CreateProfile, At, TypeOK, FrameOK, LetInSteps
  <2>2. FramesOK'
    BY <1>11, <2>1, WentOn DEF CreateProfile
  <2>3. QED
    BY <1>11, <2>2 DEF CreateProfile, memberVars, seen, TypeOK, TablesOK
<1>12. ASSUME NEW r \in Requests, CheckAccount(r) PROVE Typed
  <2>1. req[r].pc \in LetInSteps /\ req[r].user \in Users
    BY <1>12 DEF CheckAccount, At, TypeOK, FrameOK, LetInSteps
  <2>2. FramesOK'
    BY <1>12, <2>1, Responded, WentOn DEF CheckAccount
  <2>3. QED
    BY <1>12, <2>1, <2>2 DEF CheckAccount, Orphan, memberVars, TypeOK, TablesOK
<1>13. ASSUME NEW r \in Requests, SaveAccount(r) PROVE Typed
  <2>1. req[r].pc \in LetInSteps /\ req[r].user \in Users
    BY <1>13 DEF SaveAccount, At, TypeOK, FrameOK, LetInSteps
  <2>2. FramesOK'
    BY <1>13, <2>1, Responded, WentOn DEF SaveAccount
  <2>3. QED
    BY <1>13, <2>1, <2>2 DEF SaveAccount, Orphan, TypeOK, TablesOK
<1>14. ASSUME NEW r \in Requests, SyncRow(r) PROVE Typed
  BY <1>14, Responded DEF SyncRow, memberVars, seen, TypeOK, TablesOK
<1>15. ASSUME NEW r \in Requests, SaveToken(r) PROVE Typed
  <2>1. req[r].user \in Users
    BY <1>15 DEF SaveToken, At, TypeOK, FrameOK, OtherSteps
  <2>2. QED
    BY <1>15, <2>1, Responded DEF SaveToken, seen, TypeOK, TablesOK
<1>16. ASSUME NEW r \in Requests, RemoveTokens(r) PROVE Typed
  BY <1>16, Responded DEF RemoveTokens, seen, TypeOK, TablesOK
<1>17. ASSUME NEW r \in Requests, CheckNewNickname(r) PROVE Typed
  <2>1. req[r].user \in Users
    BY <1>17 DEF CheckNewNickname, At, TypeOK, FrameOK, OtherSteps
  <2>2. FramesOK'
    BY <1>17, <2>1, Responded, NicknameFound DEF CheckNewNickname
  <2>3. QED
    BY <1>17, <2>2 DEF CheckNewNickname, memberVars, seen, TypeOK, TablesOK
<1>18. ASSUME NEW r \in Requests, Rename(r) PROVE Typed
  <2>1. req[r].user \in Users /\ req[r].nickname \in Nicknames
    BY <1>18 DEF Rename, At, TypeOK, FrameOK, OtherSteps
  <2>2. users' \in [Users -> UserRecords]
    BY <1>18, <2>1 DEF Rename, TypeOK, UserRecords
  <2>3. met' \subseteq Nicknames
    BY <1>18 DEF Rename, Observe, Shared
  <2>4. QED
    BY <1>18, <2>2, <2>3, Responded DEF Rename, TypeOK, TablesOK
<1>19. ASSUME NEW r \in Requests, SaveOpinion(r) PROVE Typed
  <2>1. req[r].user \in Users
    BY <1>19 DEF SaveOpinion, At, TypeOK, FrameOK, WithdrawSteps
  <2>2. FramesOK'
    BY <1>19, <2>1, Responded, WentOn DEF SaveOpinion, WithdrawSteps
  <2>3. QED
    BY <1>19, <2>1, <2>2 DEF SaveOpinion, seen, TypeOK, TablesOK
<1>20. ASSUME NEW r \in Requests, ChangeState(r) PROVE Typed
  <2>1. req[r].user \in Users
    BY <1>20 DEF ChangeState, At, TypeOK, FrameOK, WithdrawSteps
  <2>2. FramesOK'
    BY <1>20, <2>1, WentOn DEF ChangeState, WithdrawSteps
  <2>3. users' \in [Users -> UserRecords]
    BY <1>20, <2>1 DEF ChangeState, TypeOK, UserRecords
  <2>4. QED
    BY <1>20, <2>2, <2>3 DEF ChangeState, seen, TypeOK, TablesOK
<1>21. ASSUME NEW r \in Requests, RemoveAccounts(r) PROVE Typed
  <2>1. req[r].user \in Users
    BY <1>21 DEF RemoveAccounts, At, TypeOK, FrameOK, WithdrawSteps
  <2>2. FramesOK'
    BY <1>21, <2>1, WentOn DEF RemoveAccounts, WithdrawSteps
  <2>3. accounts' \in [Identifications -> Users \cup {NoUser}]
    BY <1>21 DEF RemoveAccounts, TypeOK
  <2>4. kept' \subseteq Users /\ aborts' \in Nat
    <3>1. aborts' \in {aborts, aborts + 1} /\ kept' \in {kept, kept \cup {req[r].user}}
      BY <1>21 DEF RemoveAccounts, Fail
    <3>2. QED
      BY <2>1, <3>1 DEF TypeOK
  <2>5. QED
    BY <1>21, <2>2, <2>3, <2>4 DEF RemoveAccounts, TypeOK, TablesOK
<1>22. ASSUME NEW r \in Requests, RemoveAllTokens(r) PROVE Typed
  <2>1. req[r].user \in Users
    BY <1>22 DEF RemoveAllTokens, At, TypeOK, FrameOK, WithdrawSteps
  <2>2. FramesOK'
    BY <1>22, <2>1, WentOn DEF RemoveAllTokens, WithdrawSteps
  <2>3. QED
    BY <1>22, <2>1, <2>2 DEF RemoveAllTokens, TypeOK, TablesOK
<1>23. ASSUME NEW r \in Requests, RemoveAuths(r) PROVE Typed
  <2>1. req[r].user \in Users
    BY <1>23 DEF RemoveAuths, At, TypeOK, FrameOK, WithdrawSteps
  <2>2. aborts' \in {aborts, aborts + 1}
    BY <1>23 DEF RemoveAuths, Fail
  <2>3. QED
    <3>1. withdrawn' \subseteq Users /\ UNCHANGED <<memberVars, kept, late, met, orphans>>
      BY <1>23, <2>1 DEF RemoveAuths, TypeOK
    <3>2. FramesOK'
      BY <1>23, Responded DEF RemoveAuths
    <3>3. QED
      BY <2>2, <3>1, <3>2 DEF memberVars, TypeOK, TablesOK
<1>24. ASSUME NEW r \in Requests, Abort(r) PROVE Typed
  <2>1. req[r].pc \in Unsaved => req[r].user \in Users
    BY DEF TypeOK, FrameOK, Unsaved
  <2>2. FramesOK'
    BY <1>24, Responded DEF Abort
  <2>3. orphans' \subseteq Users /\ aborts' \in Nat
    <3>1. orphans \subseteq Users /\ aborts \in Nat
      BY DEF TypeOK
    <3>2. orphans' \in {orphans, orphans \cup {req[r].user}} /\ (req[r].pc \notin Unsaved => orphans' = orphans)
      BY <1>24 DEF Abort, Orphan
    <3>3. aborts' = aborts + 1
      BY <1>24 DEF Abort, Fail
    <3>4. QED
      BY <2>1, <3>1, <3>2, <3>3
  <2>4. UNCHANGED <<memberVars, withdrawn, kept, late, met>>
    BY <1>24 DEF Abort
  <2>5. QED
    BY <2>2, <2>3, <2>4 DEF memberVars, TypeOK, TablesOK
<1>25. ASSUME Verification \/ UNCHANGED vars PROVE Typed
  <2>1. /\ UNCHANGED <<users, nextUser, accounts, tokens, opinions, req>>
        /\ UNCHANGED <<withdrawn, kept, late, met, orphans, aborts>>
    BY <1>25 DEF Verification, vars, memberVars, seen
  <2>2. QED
    <3>1. FramesOK'
      BY <2>1 DEF TypeOK, FramesOK
    <3>2. TablesOK'
      BY <2>1 DEF TypeOK, TablesOK
    <3>3. QED
      BY <3>1, <3>2
<1>26. Typed
  <2>1. ASSUME NEW r \in Requests, Work(r) PROVE Typed
    BY <2>1, <1>7, <1>8, <1>9, <1>10, <1>11, <1>12, <1>13, <1>14, <1>15, <1>16, <1>17, <1>18,
       <1>19, <1>20, <1>21, <1>22, <1>23 DEF Work
  <2>2. QED
    BY <2>1, <1>1, <1>4, <1>5, <1>24, <1>25 DEF Next
<1>27. TypeOK'
  BY <1>0, <1>26 DEF TypeOK, TablesOK, FramesOK, RowsInv
<1>28. QED
  BY <1>0, <1>27

-----------------------------------------------------------------------------
(* What a step does to the frames: one changes, the others hold what they  *)
(* held.                                                                   *)

Others(r) ==
  \A s \in Requests \ {r} :
    /\ req'[s].pc = req[s].pc /\ req'[s].ident = req[s].ident /\ req'[s].auth = req[s].auth
    /\ req'[s].user = req[s].user /\ req'[s].nickname = req[s].nickname
GoesOn(r, step) ==
  /\ req'[r].pc = step /\ req'[r].ident = req[r].ident /\ req'[r].auth = req[r].auth
  /\ req'[r].user = req[r].user
Ends(r) == req'[r] = Idle

LEMMA GotoMoves ==
  ASSUME TypeOK, NEW r \in Requests, NEW step, Goto(r, step)
  PROVE  /\ Others(r) /\ GoesOn(r, step) /\ req'[r].nickname = req[r].nickname /\ req'[r].rival = req[r].rival
         /\ \A s \in Requests \ {r} : req'[s] = req[s]
BY DEF TypeOK, Frames, Goto, Others, GoesOn

LEMMA RespondMoves ==
  ASSUME TypeOK, NEW r \in Requests, Respond(r)
  PROVE  Others(r) /\ Ends(r) /\ \A s \in Requests \ {r} : req'[s] = req[s]
BY DEF TypeOK, Respond, Others, Ends

(* A request that begins holds what it was sent with.                      *)
LEMMA LoginMoves ==
  ASSUME TypeOK, NEW r \in Requests, NEW e \in Identifications, Login(r, e)
  PROVE  /\ Others(r) /\ req'[r].pc = "saveToken" /\ req'[r].user = accounts[e]
         /\ \A s \in Requests \ {r} : req'[s] = req[s]
<1>1. /\ req'[r] = [Idle EXCEPT !.pc = "saveToken", !.user = accounts[e]]
      /\ \A s \in Requests \ {r} : req'[s] = req[s]
  BY DEF Login, TypeOK
<1>2. req'[r].pc = "saveToken" /\ req'[r].user = accounts[e]
  BY <1>1 DEF Idle
<1>3. QED
  BY <1>1, <1>2 DEF Others

LEMMA GuardedMoves ==
  ASSUME TypeOK, NEW r \in Requests, NEW u, Logout(r, u) \/ UpdateProfile(r, u) \/ Withdraw(r, u)
  PROVE  /\ Others(r) /\ req'[r].pc \in {"logout", "renameCheck", "opinion"}
         /\ req'[r].user = u /\ u \in tokens
         /\ \A s \in Requests \ {r} : req'[s] = req[s]
<1>1. PICK step \in {"logout", "renameCheck", "opinion"} : Guarded(r, u, step)
  BY DEF Logout, UpdateProfile, Withdraw
<1>2. req'[r] = [Idle EXCEPT !.pc = step, !.user = u] /\ \A s \in Requests \ {r} : req'[s] = req[s]
  BY <1>1 DEF Guarded, TypeOK
<1>3. req'[r].pc = step /\ req'[r].user = u
  BY <1>2 DEF Idle
<1>4. QED
  BY <1>1, <1>2, <1>3 DEF Guarded, Others

LEMMA RegisterMoves ==
  ASSUME TypeOK, NEW r \in Requests, Register(r)
  PROVE  /\ Others(r) /\ req[r] = Idle /\ req'[r].pc \in {"nickname", "validate"}
         /\ req'[r].user = NoUser /\ req'[r].nickname = NoNick
         /\ \A s \in Requests \ {r} : req'[s] = req[s]
BY GotoMoves DEF Register, GoesOn, Idle

(* A registration that is let in goes on with what it was sent.            *)
LEMMA LetInMoves ==
  ASSUME TypeOK, NEW r \in Requests, NEW e, NEW id, LetIn(r, e, id)
  PROVE  /\ Others(r) /\ req'[r].pc \in {"generate", "user"}
         /\ req'[r].ident = e /\ req'[r].auth = id
         /\ req'[r].user = req[r].user /\ req'[r].nickname = req[r].nickname /\ req'[r].rival = req[r].rival
         /\ \A s \in Requests \ {r} : req'[s] = req[s]
<1>1. req[r] \in Frames
  BY DEF TypeOK
<1>2. /\ req'[r] = [req[r] EXCEPT !.pc = IF req[r].nickname = NoNick THEN "generate" ELSE "user",
                                  !.ident = e, !.auth = id]
      /\ \A s \in Requests \ {r} : req'[s] = req[s]
  BY DEF LetIn, TypeOK
<1>3. QED
  BY <1>1, <1>2 DEF Frames, Others

LEMMA ValidateMoves ==
  ASSUME TypeOK, NEW r \in Requests, Validate(r)
  PROVE  /\ Others(r) /\ req[r].pc = "validate"
         /\ \/ Ends(r)
            \/ /\ req'[r].pc \in {"generate", "user"} /\ req'[r].user = req[r].user
               /\ req'[r].nickname = req[r].nickname /\ req'[r].rival = req[r].rival
         /\ \A s \in Requests \ {r} : req'[s] = req[s]
BY RespondMoves, LetInMoves DEF Validate, At

LEMMA FoundFreeMoves ==
  ASSUME TypeOK, NEW r \in Requests, NEW n, NEW step, FoundFree(r, n, step)
  PROVE  /\ Others(r) /\ GoesOn(r, step) /\ req'[r].nickname = n
         /\ req'[r].rival = (Rivals(r, n) # {})
         /\ \A s \in Requests \ {r} : req'[s].rival = (req[s].rival \/ s \in Rivals(r, n))
<1>1. req'[r] = [req[r] EXCEPT !.pc = step, !.nickname = n, !.rival = Rivals(r, n) # {}]
  BY DEF FoundFree
<1>2. \A s \in Requests \ {r} :
        req'[s] = IF s \in Rivals(r, n) THEN [req[s] EXCEPT !.rival = TRUE] ELSE req[s]
  BY DEF FoundFree
<1>3. \A s \in Requests : req[s] \in Frames
  BY DEF TypeOK
<1>4. GoesOn(r, step) /\ req'[r].nickname = n /\ req'[r].rival = (Rivals(r, n) # {})
  BY <1>1, <1>3 DEF GoesOn, Frames
<1>5. ASSUME NEW s \in Requests, s # r
      PROVE  /\ req'[s].pc = req[s].pc /\ req'[s].ident = req[s].ident /\ req'[s].auth = req[s].auth
             /\ req'[s].user = req[s].user /\ req'[s].nickname = req[s].nickname
             /\ req'[s].rival = (req[s].rival \/ s \in Rivals(r, n))
  <2>1. CASE s \in Rivals(r, n)
    BY <1>2, <1>3, <1>5, <2>1 DEF Frames
  <2>2. CASE s \notin Rivals(r, n)
    BY <1>2, <1>3, <1>5, <2>2 DEF Frames
  <2>3. QED
    BY <2>1, <2>2
<1>6. QED
  BY <1>4, <1>5 DEF Others

-----------------------------------------------------------------------------
(* Who is named exists.                                                    *)

LEMMA UsersStep == TypeOK /\ UsersExist /\ [Next]_vars => UsersExist'
<1> SUFFICES ASSUME TypeOK, UsersExist, [Next]_vars PROVE UsersExist'
  OBVIOUS
<1> DEFINE Tables == UNCHANGED <<users, nextUser, accounts>> /\ tokens' \cup withdrawn' \subseteq tokens \cup withdrawn
<1>0. NoUser < nextUser /\ Idle.user = NoUser /\ nextUser \in Nat /\ Users \subseteq Nat
  BY AuthRowsAssumption DEF TypeOK, NoUser, Idle
<1>1. ASSUME Tables, \A r \in Requests : req'[r].user < nextUser PROVE UsersExist'
  BY <1>1 DEF UsersExist, Exists
<1>2. ASSUME NEW r \in Requests, Register(r) PROVE UsersExist'
  <2>1. req'[r].user = NoUser /\ \A s \in Requests \ {r} : req'[s] = req[s]
    BY <1>2, RegisterMoves
  <2>2. QED
    BY <1>0, <1>1, <1>2, <2>1 DEF Register, memberVars, seen, UsersExist
<1>3. ASSUME NEW r \in Requests, NEW e \in Identifications, Login(r, e) PROVE UsersExist'
  <2>1. req'[r].user = accounts[e] /\ \A s \in Requests \ {r} : req'[s] = req[s]
    BY <1>3 DEF Login, TypeOK, Idle
  <2>2. QED
    BY <1>1, <1>3, <2>1 DEF Login, memberVars, seen, UsersExist
<1>4. ASSUME NEW r \in Requests, NEW u \in Users,
             Logout(r, u) \/ UpdateProfile(r, u) \/ Withdraw(r, u)
      PROVE UsersExist'
  <2>1. u \in tokens /\ req'[r].user = u /\ \A s \in Requests \ {r} : req'[s] = req[s]
    BY <1>4 DEF Logout, UpdateProfile, Withdraw, Guarded, TypeOK, Idle
  <2>2. QED
    BY <1>1, <1>4, <2>1 DEF Logout, UpdateProfile, Withdraw, Guarded, memberVars, seen, UsersExist
<1>5. ASSUME NEW r \in Requests, Others(r), req'[r].user \in {req[r].user, NoUser}
      PROVE \A s \in Requests : req'[s].user < nextUser
  BY <1>0, <1>5 DEF Others, UsersExist
<1>6. ASSUME NEW r \in Requests,
             \/ CheckNickname(r) \/ Validate(r) \/ GenerateNickname(r) \/ CreateProfile(r) \/ CheckAccount(r)
             \/ SyncRow(r) \/ RemoveTokens(r) \/ CheckNewNickname(r) \/ SaveOpinion(r) \/ Abort(r)
      PROVE UsersExist'
  <2>1. Others(r) /\ req'[r].user \in {req[r].user, NoUser}
    BY <1>0, <1>6, GotoMoves, RespondMoves, FoundFreeMoves, ValidateMoves
       DEF CheckNickname, GenerateNickname, CreateProfile, CheckAccount,
           SyncRow, RemoveTokens, CheckNewNickname, SaveOpinion, Abort, GoesOn, Ends
  <2>2. Tables
    BY <1>6 DEF CheckNickname, Validate, GenerateNickname, CreateProfile, CheckAccount,
           SyncRow, RemoveTokens, CheckNewNickname, SaveOpinion, Abort, memberVars, seen
  <2>3. QED
    BY <1>1, <1>5, <2>1, <2>2
<1>7. ASSUME NEW r \in Requests, CreateUser(r) PROVE UsersExist'
  <2>1. nextUser \in Users /\ nextUser' = nextUser + 1 /\ UNCHANGED <<accounts, tokens, withdrawn>>
    BY <1>7 DEF CreateUser
  <2>2. \A u \in Users : Exists(u)' <=> u < nextUser'
    <3>1. \A u \in Users : Exists(u)' <=> u = nextUser \/ Exists(u)
      BY <1>7, <2>1 DEF CreateUser, Exists, TypeOK
    <3>2. \A u \in Users : u < nextUser' <=> u = nextUser \/ u < nextUser
      BY <1>0, <2>1
    <3>3. QED
      BY <3>1, <3>2 DEF UsersExist
  <2>3. req'[r].user = nextUser /\ \A s \in Requests \ {r} : req'[s] = req[s]
    BY <1>7 DEF CreateUser, TypeOK, Frames
  <2>4. \A u \in Users \cup {NoUser} : u < nextUser => u < nextUser'
    BY <1>0, <2>1 DEF NoUser
  <2>5. \A s \in Requests : req[s].user \in Users \cup {NoUser}
    BY DEF TypeOK, Frames
  <2>6. \A s \in Requests : req'[s].user < nextUser'
    BY <1>0, <2>1, <2>3, <2>4, <2>5 DEF UsersExist
  <2>7. \A e \in Identifications : accounts'[e] < nextUser'
    BY <2>1, <2>4 DEF UsersExist, TypeOK
  <2>8. \A u \in tokens' \cup withdrawn' : u < nextUser'
    BY <2>1, <2>4 DEF UsersExist, TypeOK
  <2>9. QED
    BY <2>2, <2>6, <2>7, <2>8 DEF UsersExist
<1>8. ASSUME NEW r \in Requests, SaveAccount(r) PROVE UsersExist'
  <2>1. \A s \in Requests : req'[s].user < nextUser
    BY <1>0, <1>5, <1>8, GotoMoves, RespondMoves DEF SaveAccount, GoesOn, Ends
  <2>2. \A e \in Identifications : accounts'[e] < nextUser
    BY <1>8 DEF SaveAccount, UsersExist, TypeOK
  <2>3. QED
    BY <1>8, <2>1, <2>2 DEF SaveAccount, seen, UsersExist, Exists
<1>9. ASSUME NEW r \in Requests, SaveToken(r) PROVE UsersExist'
  <2>1. \A s \in Requests : req'[s].user < nextUser
    BY <1>0, <1>5, <1>9, RespondMoves DEF SaveToken, Ends
  <2>2. QED
    BY <1>9, <2>1 DEF SaveToken, seen, UsersExist, Exists
<1>10. ASSUME NEW r \in Requests, Rename(r) \/ ChangeState(r) PROVE UsersExist'
  <2>1. \A s \in Requests : req'[s].user < nextUser
    BY <1>0, <1>5, <1>10, GotoMoves, RespondMoves DEF Rename, ChangeState, GoesOn, Ends
  <2>2. \A u \in Users : Exists(u)' <=> Exists(u)
    <3>1. req[r].user \in Users /\ Exists(req[r].user)
      BY <1>10 DEF Rename, ChangeState, At, TypeOK, FrameOK, WithdrawSteps, OtherSteps, UsersExist
    <3>2. QED
      BY <1>10, <3>1 DEF Rename, ChangeState, Exists, TypeOK, UserRecords
  <2>3. UNCHANGED <<nextUser, accounts, tokens, withdrawn>>
    BY <1>10 DEF Rename, ChangeState, seen
  <2>4. QED
    BY <2>1, <2>2, <2>3 DEF UsersExist
<1>11. ASSUME NEW r \in Requests, RemoveAccounts(r) PROVE UsersExist'
  <2>1. \A s \in Requests : req'[s].user < nextUser
    BY <1>0, <1>5, <1>11, GotoMoves DEF RemoveAccounts, GoesOn
  <2>2. \A e \in Identifications : accounts'[e] \in {accounts[e], NoUser}
    BY <1>11 DEF RemoveAccounts, TypeOK
  <2>3. UNCHANGED <<users, nextUser, tokens, withdrawn>>
    BY <1>11 DEF RemoveAccounts
  <2>4. QED
    BY <1>0, <2>1, <2>2, <2>3 DEF UsersExist, Exists
<1>12. ASSUME NEW r \in Requests, RemoveAllTokens(r) PROVE UsersExist'
  <2>1. \A s \in Requests : req'[s].user < nextUser
    BY <1>0, <1>5, <1>12, GotoMoves DEF RemoveAllTokens, GoesOn
  <2>2. QED
    BY <1>1, <1>12, <2>1 DEF RemoveAllTokens
<1>13. ASSUME NEW r \in Requests, RemoveAuths(r) PROVE UsersExist'
  <2>1. \A s \in Requests : req'[s].user < nextUser
    BY <1>0, <1>5, <1>13, RespondMoves DEF RemoveAuths, Ends
  <2>2. QED
    BY <1>13, <2>1 DEF RemoveAuths, memberVars, UsersExist, Exists
<1>14. ASSUME Verification \/ UNCHANGED vars PROVE UsersExist'
  <2>1. UNCHANGED <<users, nextUser, accounts, tokens, withdrawn, req>>
    BY <1>14 DEF Verification, vars, memberVars, seen
  <2>2. QED
    BY <2>1 DEF UsersExist, Exists
<1>15. ASSUME NEW r \in Requests, Work(r) PROVE UsersExist'
  BY <1>15, <1>6, <1>7, <1>8, <1>9, <1>10, <1>11, <1>12, <1>13 DEF Work
<1>16. QED
  BY <1>2, <1>3, <1>4, <1>6, <1>14, <1>15 DEF Next

-----------------------------------------------------------------------------
(* A registration that was let in keeps to the row of its own address.     *)

LEMMA OwnRowsStep == TypeOK /\ RowsInv /\ OwnRows /\ [Next]_vars => OwnRows'
<1> SUFFICES ASSUME TypeOK, RowsInv, OwnRows, [Next]_vars PROVE OwnRows'
  OBVIOUS
<1> DEFINE Own(r) == req[r].pc \in LetInSteps =>
                       \A k \in Keys : auths[k].id = req[r].auth => k = <<req[r].ident, "account">>
           Stays(r) == req'[r].pc \in LetInSteps =>
                         /\ req[r].pc \in LetInSteps
                         /\ req'[r].ident = req[r].ident /\ req'[r].auth = req[r].auth
           FreshIds == /\ nextAuth' \in {nextAuth, nextAuth + 1}
                       /\ \A k \in Keys : auths'[k].id \in {auths[k].id, NoId, nextAuth}
<1>0. FreshIds
  <2> USE AuthRowsAssumption DEF RowsInv, RowsTypeOK, Rows, NoRow, NoId, NoUser
  <2>1. ASSUME NEW k \in Keys, Open(k) PROVE FreshIds
    BY <2>1 DEF Open, InsertRow, Absent
  <2>2. ASSUME NEW k \in Keys, Verify(k) PROVE FreshIds
    BY <2>2 DEF Verify, SetDone
  <2>3. ASSUME NEW k \in Keys, NEW u \in Users, Bind(k, u) PROVE FreshIds
    BY <2>3 DEF Bind, SetUser
  <2>4. ASSUME NEW gone \in SUBSET Keys, Drop(gone) PROVE FreshIds
    BY <2>4 DEF Drop
  <2>5. CASE UNCHANGED rowVars
    BY <2>5 DEF rowVars
  <2>6. QED
    BY StepOfRows, <2>1, <2>2, <2>3, <2>4, <2>5 DEF RowsNext
<1>1. ASSUME NEW s \in Requests, Stays(s) PROVE HandedOut(s)' /\ Own(s)'
  <2>1. nextAuth \in Nat /\ HandedOut(s) /\ Own(s)
    BY DEF OwnRows, HoldsItsOwnRow, RowsInv, RowsTypeOK
  <2>2. ASSUME req'[s].pc \in LetInSteps
        PROVE  req[s].auth # NoId /\ req[s].auth < nextAuth /\ req'[s].auth = req[s].auth
    BY <1>1, <2>1, <2>2 DEF HandedOut
  <2>3. req[s].auth \in Nat
    BY DEF TypeOK, Frames
  <2>4. HandedOut(s)'
    BY <1>0, <2>1, <2>2, <2>3 DEF HandedOut
  <2>5. ASSUME req'[s].pc \in LetInSteps, NEW k \in Keys, auths'[k].id = req'[s].auth
        PROVE  k = <<req'[s].ident, "account">>
    <3>1. auths[k].id = req[s].auth
      BY <1>0, <2>1, <2>2, <2>3, <2>5
    <3>2. QED
      BY <1>1, <2>1, <2>5, <3>1
  <2>6. QED
    BY <2>4, <2>5
<1>2. ASSUME NEW r \in Requests, Others(r), HandedOut(r)' /\ Own(r)' PROVE OwnRows'
  <2>1. \A s \in Requests : HandedOut(s)' /\ Own(s)'
    BY <1>1, <1>2 DEF Others
  <2>2. QED
    BY <2>1 DEF OwnRows, HoldsItsOwnRow
<1>3. ASSUME NEW r \in Requests, Others(r), Stays(r) PROVE OwnRows'
  BY <1>1, <1>2, <1>3
<1>4. ASSUME NEW r \in Requests,
             \/ Register(r)
             \/ \E e \in Identifications : Login(r, e)
             \/ \E u \in Users : Logout(r, u) \/ UpdateProfile(r, u) \/ Withdraw(r, u)
      PROVE OwnRows'
  <2>1. /\ Others(r)
        /\ req'[r].pc \in {"nickname", "validate", "saveToken", "logout", "renameCheck", "opinion"}
    BY <1>4, RegisterMoves, LoginMoves, GuardedMoves
  <2>2. QED
    BY <1>3, <2>1 DEF LetInSteps
<1>5. ASSUME NEW r \in Requests, Validate(r) PROVE OwnRows'
  <2>1. PICK e \in Identifications, id \in 1..MaxRows :
          IF OwnRow(e, id) THEN LetIn(r, e, id) ELSE Respond(r)
    BY <1>5 DEF Validate
  <2>2. CASE ~OwnRow(e, id)
    <3>1. Others(r) /\ Stays(r)
      BY <2>1, <2>2, RespondMoves DEF Ends, Idle, LetInSteps
    <3>2. QED
      BY <1>3, <3>1
  <2>3. CASE OwnRow(e, id)
    <3> DEFINE k == <<e, "account">>
    <3>1. k \in Keys /\ id \in Nat /\ id # NoId /\ auths[k].id = id
      BY <2>3, MembershipAssumption, AuthRowsAssumption DEF OwnRow, Keys, NoId
    <3>2. id < nextAuth /\ \A j \in Keys : auths[j].id = id => j = k
      BY <3>1 DEF RowsInv, RowIds
    <3>3. Others(r) /\ req'[r].ident = e /\ req'[r].auth = id
      BY <2>1, <2>3, LetInMoves
    <3>4. UNCHANGED <<auths, nextAuth>>
      BY <1>5 DEF Validate, rowVars
    <3>5. HandedOut(r)' /\ Own(r)'
      BY <3>1, <3>2, <3>3, <3>4 DEF HandedOut
    <3>6. QED
      BY <1>2, <3>3, <3>5
  <2>4. QED
    BY <2>2, <2>3
<1>6. ASSUME NEW r \in Requests, CreateUser(r) PROVE OwnRows'
  <2>1. Others(r) /\ req'[r].ident = req[r].ident /\ req'[r].auth = req[r].auth /\ req[r].pc = "user"
    BY <1>6 DEF CreateUser, TypeOK, Frames, Others, At
  <2>2. QED
    BY <1>3, <2>1 DEF LetInSteps
<1>7. ASSUME NEW r \in Requests,
             \/ CheckNickname(r) \/ GenerateNickname(r) \/ CreateProfile(r) \/ CheckAccount(r) \/ SaveAccount(r)
             \/ SyncRow(r) \/ SaveToken(r) \/ RemoveTokens(r) \/ CheckNewNickname(r) \/ Rename(r)
             \/ SaveOpinion(r) \/ ChangeState(r) \/ RemoveAccounts(r) \/ RemoveAllTokens(r) \/ RemoveAuths(r)
             \/ Abort(r)
      PROVE OwnRows'
  <2>1. /\ Others(r)
        /\ \/ Ends(r)
           \/ \E step \in {"validate", "rename", "state", "accounts", "tokens", "auths"} : GoesOn(r, step)
           \/ req[r].pc \in LetInSteps /\ \E step \in LetInSteps : GoesOn(r, step)
    BY <1>7, GotoMoves, RespondMoves, FoundFreeMoves
       DEF CheckNickname, GenerateNickname, CreateProfile, CheckAccount, SaveAccount, SyncRow, SaveToken,
           RemoveTokens, CheckNewNickname, Rename, SaveOpinion, ChangeState, RemoveAccounts, RemoveAllTokens,
           RemoveAuths, Abort, At, LetInSteps
  <2>2. Stays(r)
    BY <2>1 DEF Ends, Idle, GoesOn, LetInSteps
  <2>3. QED
    BY <1>3, <2>1, <2>2
<1>8. ASSUME Verification \/ UNCHANGED vars PROVE OwnRows'
  <2>1. UNCHANGED req
    BY <1>8 DEF Verification, vars
  <2>2. \A s \in Requests : HandedOut(s)' /\ Own(s)'
    BY <1>1, <2>1
  <2>3. QED
    BY <2>2 DEF OwnRows, HoldsItsOwnRow
<1>9. ASSUME NEW r \in Requests, Work(r) PROVE OwnRows'
  BY <1>9, <1>5, <1>6, <1>7 DEF Work
<1>10. QED
  BY <1>4, <1>7, <1>8, <1>9 DEF Next

-----------------------------------------------------------------------------
(* A new user is its registration's own, so that no two accounts share it. *)

LEMMA NewUsersStep ==
  TypeOK /\ UsersExist /\ OneAccountPerUser /\ NewUsers /\ [Next]_vars => OneAccountPerUser' /\ NewUsers'
<1> SUFFICES ASSUME TypeOK, UsersExist, OneAccountPerUser, NewUsers, [Next]_vars
             PROVE  OneAccountPerUser' /\ NewUsers'
  OBVIOUS
<1> DEFINE Kept == OneAccountPerUser' /\ NewUsers'
           Own(r) == IF req'[r].pc \in Unsaved THEN {} ELSE {req[r].user}
<1>0. \A r \in Requests : req[r].pc \in Unsaved => req[r].user \in Users /\ req[r].user # NoUser
  BY AuthRowsAssumption DEF TypeOK, FrameOK, Unsaved, NoUser
<1>1. ASSUME NEW r \in Requests, Others(r),
             \/ req'[r].user \in {req[r].user, NoUser} \cup tokens
             \/ \E e \in Identifications : req'[r].user = accounts[e],
             req'[r].pc \in Unsaved => req[r].pc \in Unsaved /\ req'[r].user = req[r].user,
             tokens' \cup withdrawn' \subseteq tokens \cup withdrawn \cup Own(r),
             \A e \in Identifications : accounts'[e] \in {accounts[e], NoUser} \cup Own(r)
      PROVE  NewUsers'
  <2>1. ASSUME NEW s \in Requests, s # r, req'[s].pc \in Unsaved PROVE Unknown(s)'
    <3>1. req[s].pc \in Unsaved /\ req'[s].user = req[s].user /\ req[s].user # NoUser
      BY <1>0, <1>1, <2>1 DEF Others
    <3>2. Unknown(s)
      BY <3>1 DEF NewUsers
    <3>3. req[s].user # req[r].user /\ req'[s].user # req'[r].user
      BY <1>1, <2>1, <3>1, <3>2 DEF Unknown
    <3>4. \A q \in Requests \ {s} : req'[q].user # req'[s].user
      BY <1>1, <3>1, <3>2, <3>3 DEF Unknown, Others
    <3>5. req[s].user \notin Own(r)
      BY <3>3
    <3>6. QED
      BY <1>1, <3>1, <3>2, <3>4, <3>5 DEF Unknown
  <2>2. ASSUME req'[r].pc \in Unsaved PROVE Unknown(r)'
    <3>1. Unknown(r) /\ req'[r].user = req[r].user /\ req[r].user # NoUser /\ Own(r) = {}
      BY <1>0, <1>1, <2>2 DEF NewUsers
    <3>2. QED
      BY <1>1, <3>1 DEF Unknown, Others
  <2>3. QED
    BY <2>1, <2>2 DEF NewUsers
<1>2. ASSUME \A e \in Identifications : accounts'[e] \in {accounts[e], NoUser} PROVE OneAccountPerUser'
  BY <1>2 DEF OneAccountPerUser
<1>3. ASSUME NEW r \in Requests, Others(r), UNCHANGED accounts,
             req'[r].user \in {req[r].user, NoUser} \cup tokens,
             req'[r].pc \in Unsaved => req[r].pc \in Unsaved /\ req'[r].user = req[r].user,
             tokens' \cup withdrawn' \subseteq tokens \cup withdrawn \cup Own(r)
      PROVE  Kept
  BY <1>1, <1>2, <1>3
<1>4. ASSUME NEW r \in Requests, Register(r) PROVE Kept
  <2>1. Others(r) /\ req'[r].user = NoUser /\ req'[r].pc \notin Unsaved
    BY <1>4, RegisterMoves DEF Unsaved
  <2>2. QED
    BY <1>3, <1>4, <2>1 DEF Register, memberVars, seen
<1>5. ASSUME NEW r \in Requests, NEW e \in Identifications, Login(r, e) PROVE Kept
  <2>1. Others(r) /\ req'[r].user = accounts[e] /\ req'[r].pc \notin Unsaved
    BY <1>5, LoginMoves DEF Unsaved
  <2>2. UNCHANGED <<accounts, tokens, withdrawn>>
    BY <1>5 DEF Login, memberVars, seen
  <2>3. QED
    BY <1>1, <1>2, <2>1, <2>2
<1>6. ASSUME NEW r \in Requests, NEW u \in Users,
             Logout(r, u) \/ UpdateProfile(r, u) \/ Withdraw(r, u)
      PROVE Kept
  <2>1. Others(r) /\ req'[r].user \in tokens /\ req'[r].pc \notin Unsaved
    BY <1>6, GuardedMoves DEF Unsaved
  <2>2. QED
    BY <1>3, <1>6, <2>1 DEF Logout, UpdateProfile, Withdraw, Guarded, memberVars, seen
<1>7. ASSUME NEW r \in Requests,
             \/ CheckNickname(r) \/ Validate(r) \/ GenerateNickname(r) \/ SyncRow(r) \/ SaveToken(r)
             \/ RemoveTokens(r) \/ CheckNewNickname(r) \/ Rename(r)
             \/ SaveOpinion(r) \/ ChangeState(r) \/ RemoveAllTokens(r) \/ RemoveAuths(r) \/ Abort(r)
      PROVE Kept
  <2>1. /\ Others(r) /\ req'[r].user \in {req[r].user, NoUser}
        /\ req'[r].pc \in {"validate", "generate", "user", "rename", "state", "accounts", "auths", "idle"}
    BY <1>7, GotoMoves, RespondMoves, FoundFreeMoves, ValidateMoves
       DEF CheckNickname, GenerateNickname, SyncRow, SaveToken, RemoveTokens, CheckNewNickname,
           Rename, SaveOpinion, ChangeState, RemoveAllTokens, RemoveAuths, Abort, GoesOn, Ends, Idle
  <2>2. req'[r].pc \notin Unsaved /\ Own(r) = {req[r].user}
    BY <2>1 DEF Unsaved
  <2>3. /\ UNCHANGED accounts
        /\ tokens' \cup withdrawn' \subseteq tokens \cup withdrawn \cup {req[r].user}
    BY <1>7 DEF CheckNickname, Validate, GenerateNickname, SyncRow, SaveToken, RemoveTokens, CheckNewNickname,
                Rename, SaveOpinion, ChangeState, RemoveAllTokens, RemoveAuths, Abort, memberVars, seen
  <2>4. QED
    BY <1>3, <2>1, <2>2, <2>3
<1>8. ASSUME NEW r \in Requests, CreateProfile(r) \/ CheckAccount(r) PROVE Kept
  <2>1. Others(r) /\ (req'[r].user = req[r].user \/ Ends(r))
    BY <1>8, GotoMoves, RespondMoves DEF CreateProfile, CheckAccount, GoesOn
  <2>2. req[r].pc \in Unsaved
    BY <1>8 DEF CreateProfile, CheckAccount, At, Unsaved
  <2>3. Ends(r) => req'[r].user = NoUser /\ req'[r].pc \notin Unsaved
    BY DEF Ends, Idle, Unsaved
  <2>4. UNCHANGED <<accounts, tokens, withdrawn>>
    BY <1>8 DEF CreateProfile, CheckAccount, memberVars, seen
  <2>5. QED
    BY <1>3, <2>1, <2>2, <2>3, <2>4
<1>9. ASSUME NEW r \in Requests, CreateUser(r) PROVE Kept
  <2>1. Others(r) /\ req'[r].user = nextUser /\ UNCHANGED <<accounts, tokens, withdrawn>>
    BY <1>9 DEF CreateUser, TypeOK, Frames, Others
  <2>2. /\ nextUser \notin tokens \cup withdrawn
        /\ \A e \in Identifications : accounts[e] # nextUser
        /\ \A s \in Requests : req[s].user # nextUser
    BY DEF UsersExist, TypeOK
  <2>3. ASSUME NEW s \in Requests, s # r, req'[s].pc \in Unsaved PROVE Unknown(s)'
    <3>1. Unknown(s) /\ req'[s].user = req[s].user /\ req[s].user # nextUser
      BY <2>1, <2>2, <2>3 DEF Others, NewUsers
    <3>2. QED
      BY <2>1, <3>1 DEF Unknown, Others
  <2>4. Unknown(r)'
    BY <2>1, <2>2 DEF Unknown, Others
  <2>5. QED
    BY <1>2, <2>1, <2>3, <2>4 DEF NewUsers
<1>10. ASSUME NEW r \in Requests, SaveAccount(r) PROVE Kept
  <2>1. Unknown(r) /\ UNCHANGED <<tokens, withdrawn>>
    BY <1>10 DEF SaveAccount, At, NewUsers, Unsaved, seen
  <2>2. Others(r) /\ req'[r].user \in {req[r].user, NoUser} /\ req'[r].pc \notin Unsaved
    BY <1>10, GotoMoves, RespondMoves DEF SaveAccount, GoesOn, Ends, Idle, Unsaved
  <2>3. \A e \in Identifications : accounts'[e] = accounts[e] \/ (e = req[r].ident /\ accounts'[e] = req[r].user)
    BY <1>10 DEF SaveAccount, TypeOK
  <2>4. OneAccountPerUser'
    BY <2>1, <2>3 DEF OneAccountPerUser, Unknown
  <2>5. NewUsers'
    BY <1>1, <2>1, <2>2, <2>3
  <2>6. QED
    BY <2>4, <2>5
<1>11. ASSUME NEW r \in Requests, RemoveAccounts(r) PROVE Kept
  <2>1. \A e \in Identifications : accounts'[e] \in {accounts[e], NoUser}
    BY <1>11 DEF RemoveAccounts, TypeOK
  <2>2. /\ Others(r) /\ req'[r].user = req[r].user /\ req'[r].pc \notin Unsaved
        /\ UNCHANGED <<tokens, withdrawn>>
    BY <1>11, GotoMoves DEF RemoveAccounts, GoesOn, Unsaved
  <2>3. QED
    BY <1>1, <1>2, <2>1, <2>2
<1>12. ASSUME Verification \/ UNCHANGED vars PROVE Kept
  <2>1. UNCHANGED <<accounts, tokens, withdrawn, req>>
    BY <1>12 DEF Verification, vars, memberVars, seen
  <2>2. QED
    BY <2>1 DEF OneAccountPerUser, NewUsers, Unknown
<1>13. ASSUME NEW r \in Requests, Work(r) PROVE Kept
  BY <1>13, <1>7, <1>8, <1>9, <1>10, <1>11 DEF Work
<1>14. QED
  BY <1>4, <1>5, <1>6, <1>7, <1>12, <1>13 DEF Next

-----------------------------------------------------------------------------
(* How often a withdrawal runs.  A step other than the three below leaves  *)
(* the withdrawals past their opinion where they are, and fails nothing.   *)
Quiet ==
  /\ \A s \in Requests :
       /\ req'[s].pc \in AfterOpinion <=> req[s].pc \in AfterOpinion
       /\ req'[s].pc \in AfterOpinion => req'[s].user = req[s].user
  /\ UNCHANGED <<opinions, withdrawn>>
  /\ aborts' = 0 => aborts = 0
Enters(r) == SaveOpinion(r) /\ req[r].user \notin opinions

LEMMA QuietSteps ==
  ASSUME TypeOK, [Next]_vars, \A r \in Requests : ~Enters(r) /\ ~RemoveAuths(r) /\ ~Abort(r)
  PROVE  Quiet
<1>1. ASSUME NEW r \in Requests, Others(r), UNCHANGED <<opinions, withdrawn>>, aborts' = 0 => aborts = 0,
             \/ req[r].pc \notin AfterOpinion /\ req'[r].pc \notin AfterOpinion
             \/ req[r].pc \in AfterOpinion /\ req'[r].pc \in AfterOpinion /\ req'[r].user = req[r].user
      PROVE  Quiet
  BY <1>1 DEF Others, Quiet
<1>2. aborts \in Nat
  BY DEF TypeOK
<1>4. ASSUME NEW r \in Requests, Register(r) PROVE Quiet
  <2>1. Others(r) /\ req[r].pc \notin AfterOpinion /\ req'[r].pc \notin AfterOpinion
    BY <1>4, RegisterMoves DEF Idle, AfterOpinion
  <2>2. QED
    BY <1>1, <1>4, <2>1 DEF Register, memberVars, seen
<1>5. ASSUME NEW r \in Requests,
             \/ \E e \in Identifications : Login(r, e)
             \/ \E u \in Users : Logout(r, u) \/ UpdateProfile(r, u) \/ Withdraw(r, u)
      PROVE Quiet
  <2>1. Others(r) /\ req[r].pc \notin AfterOpinion /\ req'[r].pc \notin AfterOpinion
    <3>1. CASE \E e \in Identifications : Login(r, e)
      BY <3>1 DEF Login, TypeOK, Idle, Others, AfterOpinion
    <3>2. ASSUME NEW u \in Users, Logout(r, u) \/ UpdateProfile(r, u) \/ Withdraw(r, u)
          PROVE  Others(r) /\ req[r].pc \notin AfterOpinion /\ req'[r].pc \notin AfterOpinion
      <4>1. req[r] = Idle /\ \E step \in {"logout", "renameCheck", "opinion"} :
              req' = [req EXCEPT ![r] = [Idle EXCEPT !.pc = step, !.user = u]]
        BY <3>2 DEF Logout, UpdateProfile, Withdraw, Guarded
      <4>2. QED
        BY <4>1 DEF TypeOK, Idle, Others, AfterOpinion
    <3>3. QED
      BY <1>5, <3>1, <3>2
  <2>2. UNCHANGED <<opinions, withdrawn, aborts>>
    BY <1>5 DEF Login, Logout, UpdateProfile, Withdraw, Guarded, memberVars, seen
  <2>3. QED
    BY <1>1, <2>1, <2>2
<1>6. ASSUME NEW r \in Requests,
             \/ CheckNickname(r) \/ Validate(r) \/ GenerateNickname(r) \/ CreateProfile(r) \/ CheckAccount(r)
             \/ SaveAccount(r) \/ SyncRow(r) \/ SaveToken(r) \/ RemoveTokens(r) \/ CheckNewNickname(r) \/ Rename(r)
      PROVE Quiet
  <2>1. /\ Others(r) /\ req[r].pc \notin AfterOpinion
        /\ req'[r].pc \in {"validate", "generate", "user", "find", "account", "sync", "rename", "idle"}
    BY <1>6, GotoMoves, RespondMoves, FoundFreeMoves, ValidateMoves
       DEF CheckNickname, GenerateNickname, CreateProfile, CheckAccount, SaveAccount, SyncRow,
           SaveToken, RemoveTokens, CheckNewNickname, Rename, At, GoesOn, Ends, Idle, AfterOpinion
  <2>2. UNCHANGED <<opinions, withdrawn, aborts>>
    BY <1>6 DEF CheckNickname, Validate, GenerateNickname, CreateProfile, CheckAccount, SaveAccount, SyncRow,
                SaveToken, RemoveTokens, CheckNewNickname, Rename, memberVars, seen
  <2>3. QED
    BY <1>1, <2>1, <2>2 DEF AfterOpinion
<1>7. ASSUME NEW r \in Requests, CreateUser(r) PROVE Quiet
  <2>1. Others(r) /\ req[r].pc = "user" /\ req'[r].pc = "profile"
    BY <1>7 DEF CreateUser, TypeOK, Frames, Others, At
  <2>2. QED
    BY <1>1, <1>7, <2>1 DEF CreateUser, AfterOpinion
<1>8. ASSUME NEW r \in Requests, ChangeState(r) \/ RemoveAccounts(r) \/ RemoveAllTokens(r) PROVE Quiet
  <2>1. /\ Others(r) /\ req[r].pc \in AfterOpinion /\ req'[r].user = req[r].user
        /\ req'[r].pc \in {"accounts", "tokens", "auths"}
    BY <1>8, GotoMoves DEF ChangeState, RemoveAccounts, RemoveAllTokens, At, GoesOn, AfterOpinion
  <2>2. UNCHANGED <<opinions, withdrawn>> /\ (aborts' = 0 => aborts = 0)
    BY <1>2, <1>8 DEF ChangeState, RemoveAccounts, RemoveAllTokens, seen, Fail
  <2>3. QED
    BY <1>1, <2>1, <2>2 DEF AfterOpinion
<1>9. ASSUME NEW r \in Requests, SaveOpinion(r) PROVE Quiet
  <2>1. req[r].user \in opinions
    BY <1>9 DEF Enters
  <2>2. Others(r) /\ req[r].pc \notin AfterOpinion /\ req'[r].pc \notin AfterOpinion
    BY <1>9, <2>1, RespondMoves DEF SaveOpinion, At, Ends, Idle, AfterOpinion
  <2>3. UNCHANGED <<opinions, withdrawn, aborts>>
    BY <1>9, <2>1 DEF SaveOpinion, seen
  <2>4. QED
    BY <1>1, <2>2, <2>3
<1>10. ASSUME Verification \/ UNCHANGED vars PROVE Quiet
  <2>1. UNCHANGED <<opinions, withdrawn, aborts, req>>
    BY <1>10 DEF Verification, vars, memberVars, seen
  <2>2. QED
    BY <2>1 DEF Quiet
<1>11. ASSUME NEW r \in Requests, Work(r) PROVE Quiet
  BY <1>11, <1>6, <1>7, <1>8, <1>9 DEF Work
<1>12. QED
  BY <1>4, <1>5, <1>10, <1>11 DEF Next

LEMMA Entered ==
  ASSUME TypeOK, NEW r \in Requests, Enters(r)
  PROVE  /\ Others(r) /\ req[r].pc \notin AfterOpinion /\ req[r].user \notin opinions
         /\ req'[r].pc = "state" /\ req'[r].user = req[r].user
         /\ opinions' = opinions \cup {req[r].user} /\ UNCHANGED <<withdrawn, aborts>>
<1>1. Others(r) /\ GoesOn(r, "state")
  BY GotoMoves DEF Enters, SaveOpinion
<1>2. QED
  BY <1>1 DEF Enters, SaveOpinion, At, GoesOn, AfterOpinion, seen

LEMMA Answered ==
  ASSUME TypeOK, NEW r \in Requests, RemoveAuths(r)
  PROVE  /\ Others(r) /\ req[r].pc = "auths" /\ req'[r].pc = "idle"
         /\ withdrawn' = withdrawn \cup {req[r].user} /\ UNCHANGED opinions
         /\ aborts' = 0 => aborts = 0
<1>1. Others(r) /\ req[r].pc = "auths" /\ req'[r].pc = "idle"
  BY RespondMoves DEF RemoveAuths, At, Ends, Idle
<1>2. aborts \in Nat
  BY DEF TypeOK
<1>3. QED
  BY <1>1, <1>2 DEF RemoveAuths, memberVars, Fail

LEMMA Died ==
  ASSUME TypeOK, NEW r \in Requests, Abort(r)
  PROVE  Others(r) /\ req'[r].pc = "idle" /\ UNCHANGED <<opinions, withdrawn>> /\ aborts' # 0
<1>1. Others(r) /\ req'[r].pc = "idle"
  BY RespondMoves DEF Abort, Ends, Idle
<1>2. aborts \in Nat
  BY DEF TypeOK
<1>3. QED
  BY <1>1, <1>2 DEF Abort, memberVars, Fail

LEMMA WithdrawsOnceStep == TypeOK /\ WithdrawsOnce /\ [Next]_vars => WithdrawsOnce'
<1> SUFFICES ASSUME TypeOK, WithdrawsOnce, [Next]_vars PROVE WithdrawsOnce'
  OBVIOUS
<1>1. CASE Quiet
  <2>1. AnsweredOnce' /\ OneAtATime'
    BY <1>1 DEF Quiet, WithdrawsOnce, AnsweredOnce, OneAtATime, Carries
  <2>2. NoneStranded'
    BY <1>1 DEF Quiet, WithdrawsOnce, NoneStranded, Carries
  <2>3. QED
    BY <2>1, <2>2 DEF WithdrawsOnce
<1>2. ASSUME NEW r \in Requests, Enters(r) PROVE WithdrawsOnce'
  <2>1. /\ Others(r) /\ req[r].pc \notin AfterOpinion /\ req[r].user \notin opinions
        /\ req'[r].pc = "state" /\ req'[r].user = req[r].user
    BY <1>2, Entered
  <2>2. opinions' = opinions \cup {req[r].user} /\ UNCHANGED <<withdrawn, aborts>>
    BY <1>2, Entered
  <2>3. AnsweredOnce'
    BY <2>1, <2>2 DEF WithdrawsOnce, AnsweredOnce, Others
  <2>4. OneAtATime'
    <3>1. \A s \in Requests : s # r => ~Carries(s, req[r].user)'
      BY <2>1 DEF WithdrawsOnce, AnsweredOnce, Carries, Others
    <3>2. QED
      BY <2>1, <3>1 DEF WithdrawsOnce, OneAtATime, Carries, Others
  <2>5. NoneStranded'
    <3>1. \A u : u = req[r].user => Carries(r, u)'
      BY <2>1 DEF Carries, AfterOpinion
    <3>2. \A u, s : s \in Requests /\ Carries(s, u) => Carries(s, u)'
      BY <2>1 DEF Carries, Others
    <3>3. ASSUME aborts = 0, NEW u \in opinions \ withdrawn PROVE \E s \in Requests : Carries(s, u)'
      BY <3>2, <3>3 DEF WithdrawsOnce, NoneStranded
    <3>4. QED
      BY <2>2, <3>1, <3>3 DEF NoneStranded
  <2>6. QED
    BY <2>3, <2>4, <2>5 DEF WithdrawsOnce
<1>3. ASSUME NEW r \in Requests, RemoveAuths(r) PROVE WithdrawsOnce'
  <2>1. /\ Others(r) /\ req[r].pc = "auths" /\ req'[r].pc = "idle"
    BY <1>3, Answered
  <2>2. /\ withdrawn' = withdrawn \cup {req[r].user} /\ UNCHANGED opinions
        /\ (aborts' = 0 => aborts = 0)
    BY <1>3, Answered
  <2>3. AnsweredOnce'
    <3>1. \A s \in Requests : s # r => ~Carries(s, req[r].user)
      BY <2>1 DEF WithdrawsOnce, OneAtATime, AfterOpinion
    <3>2. req[r].user \in opinions
      BY <2>1 DEF WithdrawsOnce, AnsweredOnce, AfterOpinion
    <3>3. QED
      BY <2>1, <2>2, <3>1, <3>2 DEF WithdrawsOnce, AnsweredOnce, Carries, Others, AfterOpinion
  <2>4. OneAtATime'
    BY <2>1 DEF WithdrawsOnce, OneAtATime, Carries, Others, AfterOpinion
  <2>5. NoneStranded'
    <3>1. \A u, s : s \in Requests /\ Carries(s, u) /\ u # req[r].user => Carries(s, u)'
      BY <2>1 DEF Carries, Others
    <3>2. QED
      BY <2>2, <3>1 DEF WithdrawsOnce, NoneStranded
  <2>6. QED
    BY <2>3, <2>4, <2>5 DEF WithdrawsOnce
<1>4. ASSUME NEW r \in Requests, Abort(r) PROVE WithdrawsOnce'
  BY <1>4, Died DEF WithdrawsOnce, AnsweredOnce, OneAtATime, NoneStranded, Carries, Others, AfterOpinion
<1>5. QED
  BY <1>1, <1>2, <1>3, <1>4, QuietSteps

(* Whoever is stranded stays so.                                           *)
Stranded(u) == u \in opinions \ withdrawn /\ \A r \in Requests : ~Carries(r, u)

LEMMA StrandedStep == TypeOK /\ [Next]_vars => \A u \in Users : Stranded(u) => Stranded(u)'
<1> SUFFICES ASSUME TypeOK, [Next]_vars, NEW u \in Users, Stranded(u) PROVE Stranded(u)'
  OBVIOUS
<1>1. CASE Quiet
  BY <1>1 DEF Quiet, Stranded, Carries
<1>2. ASSUME NEW r \in Requests, Enters(r) PROVE Stranded(u)'
  <2>1. \A s \in Requests : ~Carries(s, u)'
    BY <1>2, Entered DEF Stranded, Carries, Others
  <2>2. QED
    BY <1>2, <2>1, Entered DEF Stranded
<1>3. ASSUME NEW r \in Requests, RemoveAuths(r) PROVE Stranded(u)'
  <2>1. req[r].user # u
    BY <1>3, Answered DEF Stranded, Carries, AfterOpinion
  <2>2. QED
    BY <1>3, <2>1, Answered DEF Stranded, Carries, Others, AfterOpinion
<1>4. ASSUME NEW r \in Requests, Abort(r) PROVE Stranded(u)'
  BY <1>4, Died DEF Stranded, Carries, Others, AfterOpinion
<1>5. QED
  BY <1>1, <1>2, <1>3, <1>4, QuietSteps

-----------------------------------------------------------------------------
(* What a withdrawal has done stays done.                                  *)

LEMMA WithdrawingStep == TypeOK /\ UsersExist /\ Withdrawing /\ [Next]_vars => Withdrawing'
<1> SUFFICES ASSUME TypeOK, UsersExist, Withdrawing, [Next]_vars PROVE Withdrawing'
  OBVIOUS
<1> DEFINE LaterSteps == {"state", "accounts", "tokens", "auths"}
           Stays == /\ opinions \subseteq opinions'
                    /\ \A u \in Users : u < nextUser /\ users[u].state = "WITHDRAWAL" => users'[u].state = "WITHDRAWAL"
<1>0. \A r \in Requests : req[r].pc \in LaterSteps => req[r].user \in Users /\ req[r].user < nextUser
  BY DEF TypeOK, FrameOK, WithdrawSteps, UsersExist
<1>1. ASSUME NEW r \in Requests, Others(r), Stays, Asked(r)' PROVE Withdrawing'
  BY <1>0, <1>1 DEF Others, Withdrawing, Asked
<1>2. ASSUME NEW r \in Requests, Others(r), Stays, req'[r].pc \notin LaterSteps PROVE Withdrawing'
  BY <1>1, <1>2 DEF Asked
<1>3. ASSUME UNCHANGED <<users, opinions>> PROVE Stays
  BY <1>3
<1>4. ASSUME NEW r \in Requests, Register(r) PROVE Withdrawing'
  <2>1. Others(r) /\ req'[r].pc \notin LaterSteps
    BY <1>4, RegisterMoves
  <2>2. QED
    BY <1>2, <1>3, <1>4, <2>1 DEF Register, memberVars
<1>5. ASSUME NEW r \in Requests, NEW e \in Identifications, Login(r, e) PROVE Withdrawing'
  <2>1. Others(r) /\ req'[r].pc \notin LaterSteps
    BY <1>5, LoginMoves
  <2>2. QED
    BY <1>2, <1>3, <1>5, <2>1 DEF Login, memberVars
<1>16. ASSUME NEW r \in Requests, NEW u \in Users, Logout(r, u) \/ UpdateProfile(r, u) \/ Withdraw(r, u)
      PROVE Withdrawing'
  <2>1. Others(r) /\ req'[r].pc \notin LaterSteps
    BY <1>16, GuardedMoves
  <2>2. QED
    BY <1>2, <1>3, <1>16, <2>1 DEF Logout, UpdateProfile, Withdraw, Guarded, memberVars
<1>7. ASSUME NEW r \in Requests,
             \/ CheckNickname(r) \/ Validate(r) \/ GenerateNickname(r) \/ CreateProfile(r) \/ CheckAccount(r)
             \/ SaveAccount(r) \/ SyncRow(r) \/ SaveToken(r) \/ RemoveTokens(r) \/ CheckNewNickname(r)
             \/ RemoveAuths(r) \/ Abort(r)
      PROVE Withdrawing'
  <2>1. /\ Others(r)
        /\ req'[r].pc \in {"validate", "generate", "user", "find", "account", "sync", "rename", "idle"}
    BY <1>7, GotoMoves, RespondMoves, FoundFreeMoves, ValidateMoves
       DEF CheckNickname, GenerateNickname, CreateProfile, CheckAccount, SaveAccount, SyncRow,
           SaveToken, RemoveTokens, CheckNewNickname, RemoveAuths, Abort, GoesOn, Ends, Idle
  <2>2. UNCHANGED <<users, opinions>>
    BY <1>7 DEF CheckNickname, Validate, GenerateNickname, CreateProfile, CheckAccount, SaveAccount, SyncRow,
                SaveToken, RemoveTokens, CheckNewNickname, RemoveAuths, Abort, memberVars
  <2>3. QED
    BY <1>2, <1>3, <2>1, <2>2
<1>8. ASSUME NEW r \in Requests, CreateUser(r) PROVE Withdrawing'
  <2>1. Others(r) /\ req'[r].pc = "profile"
    BY <1>8 DEF CreateUser, TypeOK, Frames, Others
  <2>2. Stays
    BY <1>8 DEF CreateUser, TypeOK
  <2>3. QED
    BY <1>2, <2>1, <2>2
<1>9. ASSUME NEW r \in Requests, Rename(r) PROVE Withdrawing'
  <2>1. Others(r) /\ req'[r].pc = "idle"
    BY <1>9, RespondMoves DEF Rename, Ends, Idle
  <2>2. Stays
    BY <1>9 DEF Rename, TypeOK, UserRecords
  <2>3. QED
    BY <1>2, <2>1, <2>2
<1>10. ASSUME NEW r \in Requests, SaveOpinion(r) PROVE Withdrawing'
  <2>1. Others(r) /\ (Ends(r) \/ GoesOn(r, "state"))
    BY <1>10, GotoMoves, RespondMoves DEF SaveOpinion
  <2>2. Stays /\ req[r].user \in opinions'
    BY <1>10 DEF SaveOpinion
  <2>3. Asked(r)'
    BY <2>1, <2>2 DEF Ends, Idle, GoesOn, Asked
  <2>4. QED
    BY <1>1, <2>1, <2>2, <2>3
<1>11. ASSUME NEW r \in Requests, ChangeState(r) PROVE Withdrawing'
  <2>1. Others(r) /\ GoesOn(r, "accounts")
    BY <1>11, GotoMoves DEF ChangeState
  <2>2. req[r].user \in Users /\ req[r].user \in opinions /\ users \in [Users -> UserRecords]
    BY <1>0, <1>11 DEF ChangeState, At, Withdrawing, Asked, TypeOK
  <2>3. Stays /\ users'[req[r].user].state = "WITHDRAWAL"
    BY <1>11, <2>2 DEF ChangeState, UserRecords
  <2>4. Asked(r)'
    BY <2>1, <2>2, <2>3 DEF GoesOn, Asked
  <2>5. QED
    BY <1>1, <2>1, <2>3, <2>4
<1>12. ASSUME NEW r \in Requests, RemoveAccounts(r) \/ RemoveAllTokens(r) PROVE Withdrawing'
  <2>1. Others(r) /\ (GoesOn(r, "tokens") \/ GoesOn(r, "auths")) /\ UNCHANGED <<users, opinions>>
    BY <1>12, GotoMoves DEF RemoveAccounts, RemoveAllTokens
  <2>2. req[r].user \in opinions /\ users[req[r].user].state = "WITHDRAWAL"
    BY <1>12 DEF RemoveAccounts, RemoveAllTokens, At, Withdrawing, Asked
  <2>3. Asked(r)'
    BY <2>1, <2>2 DEF GoesOn, Asked
  <2>4. QED
    BY <1>1, <1>3, <2>1, <2>3
<1>13. ASSUME Verification \/ UNCHANGED vars PROVE Withdrawing'
  <2>1. UNCHANGED <<users, opinions, req>>
    BY <1>13 DEF Verification, vars, memberVars
  <2>2. QED
    BY <2>1 DEF Withdrawing, Asked
<1>14. ASSUME NEW r \in Requests, Work(r) PROVE Withdrawing'
  BY <1>14, <1>7, <1>8, <1>9, <1>10, <1>11, <1>12 DEF Work
<1>15. QED
  BY <1>4, <1>5, <1>16, <1>7, <1>13, <1>14 DEF Next

(* Registrations alone leave active users without accounts behind.         *)

LEMMA OrphansStep ==
  TypeOK /\ UsersExist /\ NewUsers /\ Withdrawing /\ Orphaned /\ [Next]_vars => Orphaned'
<1> SUFFICES ASSUME TypeOK, UsersExist, NewUsers, Withdrawing, Orphaned, [Next]_vars PROVE Orphaned'
  OBVIOUS
<1> DEFINE Known(u) == \/ u \in orphans
                       \/ \E e \in Identifications : accounts[e] = u
                       \/ \E r \in Requests : req[r].pc \in Unsaved /\ req[r].user = u
           Lost(u) == /\ users[u].state = "ACTIVE" /\ u \notin tokens /\ NoAccount(u)
                      /\ \A r \in Requests : req[r].user # u
           New(r) == req[r].pc \in Unsaved => users[req[r].user].state = "ACTIVE"
           SameStates == \A u \in Users : users'[u].state = users[u].state
<1>0. /\ NoUser \notin Users /\ orphans \subseteq Users
      /\ \A r \in Requests : req[r].pc \in Unsaved \cup WithdrawSteps => req[r].user \in Users
  BY AuthRowsAssumption DEF NoUser, TypeOK, FrameOK, Unsaved
<1>1. /\ \A u \in Users : users[u].state = "ACTIVE" => Known(u)
      /\ \A u \in orphans : Lost(u)
      /\ \A r \in Requests : New(r)
  BY DEF Orphaned, OrphansAreUnregistered, NoAccount
<1>2. ASSUME \A u \in Users : users'[u].state = "ACTIVE" => Known(u)',
             \A u \in orphans' : Lost(u)', \A r \in Requests : New(r)'
      PROVE  Orphaned'
  BY <1>2 DEF Orphaned, OrphansAreUnregistered, NoAccount
(* A step of a handler that no new user depends on.                        *)
<1>3. ASSUME NEW r \in Requests, Others(r), SameStates, UNCHANGED <<accounts, orphans>>,
             req[r].pc \in Unsaved <=> req'[r].pc \in Unsaved,
             req[r].pc \in Unsaved => req'[r].user = req[r].user,
             \/ req'[r].user \in {req[r].user, NoUser} \cup tokens
             \/ \E e \in Identifications : req'[r].user = accounts[e],
             tokens' \subseteq tokens \cup {req[r].user}
      PROVE  Orphaned'
  <2>1. \A u \in Users : Known(u) => Known(u)'
    BY <1>3 DEF Others
  <2>2. ASSUME NEW u \in orphans PROVE Lost(u)'
    <3>1. Lost(u) /\ u \in Users /\ u # NoUser
      BY <1>0, <1>1
    <3>2. \A s \in Requests : req'[s].user # u
      BY <1>3, <3>1 DEF Others, NoAccount
    <3>3. QED
      BY <1>3, <3>1, <3>2 DEF NoAccount
  <2>3. \A s \in Requests : New(s)'
    BY <1>0, <1>1, <1>3 DEF Others
  <2>4. QED
    BY <1>1, <1>2, <1>3, <2>1, <2>2, <2>3
(* A handler that gives up, from wherever it is.                           *)
<1>4. ASSUME NEW r \in Requests, Others(r), Ends(r), Orphan(r), UNCHANGED <<users, accounts, tokens>>
      PROVE  Orphaned'
  <2>1. /\ req'[r].pc = "idle" /\ req'[r].user = NoUser /\ "idle" \notin Unsaved
        /\ orphans' = IF req[r].pc \in Unsaved THEN orphans \cup {req[r].user} ELSE orphans
    BY <1>4 DEF Ends, Idle, Orphan, Unsaved
  <2>2. \A u \in Users : Known(u) => Known(u)'
    BY <1>4, <2>1 DEF Others
  <2>3. ASSUME NEW u \in orphans' PROVE Lost(u)'
    <3>1. CASE u \in orphans
      BY <1>0, <1>1, <1>4, <2>1, <3>1 DEF Others, NoAccount
    <3>2. CASE u \notin orphans
      <4>1. u = req[r].user /\ req[r].pc \in Unsaved
        BY <2>1, <2>3, <3>2
      <4>2. Unknown(r) /\ users[u].state = "ACTIVE" /\ u # NoUser
        BY <1>0, <1>1, <4>1 DEF NewUsers
      <4>3. QED
        BY <1>4, <2>1, <4>1, <4>2 DEF Unknown, Others, NoAccount
    <3>3. QED
      BY <3>1, <3>2
  <2>4. \A s \in Requests : New(s)'
    BY <1>1, <1>4, <2>1 DEF Others
  <2>5. QED
    BY <1>1, <1>2, <1>4, <2>2, <2>3, <2>4
<1>5. ASSUME NEW r \in Requests,
             \/ Register(r)
             \/ \E e \in Identifications : Login(r, e)
             \/ \E u \in Users : Logout(r, u) \/ UpdateProfile(r, u) \/ Withdraw(r, u)
      PROVE Orphaned'
  <2>1. /\ Others(r)
        /\ \/ req'[r].user \in {NoUser} \cup tokens
           \/ \E e \in Identifications : req'[r].user = accounts[e]
        /\ req'[r].pc \in {"nickname", "validate", "saveToken", "logout", "renameCheck", "opinion"}
    BY <1>5, RegisterMoves, LoginMoves, GuardedMoves
  <2>2. UNCHANGED <<users, accounts, tokens, orphans>>
    BY <1>5 DEF Register, Login, Logout, UpdateProfile, Withdraw, Guarded, memberVars, seen
  <2>3. req[r].pc \notin Unsaved /\ req'[r].pc \notin Unsaved
    <3>1. req[r] = Idle
      BY <1>5 DEF Register, Login, Logout, UpdateProfile, Withdraw, Guarded
    <3>2. QED
      BY <2>1, <3>1 DEF Idle, Unsaved
  <2>4. QED
    BY <1>3, <2>1, <2>2, <2>3
<1>6. ASSUME NEW r \in Requests,
             \/ CheckNickname(r) \/ Validate(r) \/ GenerateNickname(r) \/ SyncRow(r) \/ SaveToken(r)
             \/ RemoveTokens(r) \/ CheckNewNickname(r) \/ Rename(r)
             \/ SaveOpinion(r) \/ RemoveAllTokens(r) \/ RemoveAuths(r)
      PROVE Orphaned'
  <2>1. /\ Others(r) /\ req'[r].user \in {req[r].user, NoUser}
        /\ req[r].pc \notin Unsaved
        /\ req'[r].pc \in {"validate", "generate", "user", "rename", "state", "auths", "idle"}
    BY <1>6, GotoMoves, RespondMoves, FoundFreeMoves, ValidateMoves
       DEF CheckNickname, GenerateNickname, SyncRow, SaveToken, RemoveTokens, CheckNewNickname,
           Rename, SaveOpinion, RemoveAllTokens, RemoveAuths, At, GoesOn, Ends, Idle, Unsaved
  <2>2. UNCHANGED <<accounts, orphans>> /\ tokens' \subseteq tokens \cup {req[r].user}
    BY <1>6 DEF CheckNickname, Validate, GenerateNickname, SyncRow, SaveToken, RemoveTokens, CheckNewNickname,
                Rename, SaveOpinion, RemoveAllTokens, RemoveAuths, memberVars, seen
  <2>3. SameStates
    <3>1. CASE Rename(r)
      BY <3>1 DEF Rename, TypeOK, UserRecords
    <3>2. CASE ~Rename(r)
      BY <1>6, <3>2 DEF CheckNickname, Validate, GenerateNickname, SyncRow, SaveToken, RemoveTokens,
                CheckNewNickname, SaveOpinion, RemoveAllTokens, RemoveAuths, memberVars
    <3>3. QED
      BY <3>1, <3>2
  <2>4. req'[r].pc \notin Unsaved
    BY <2>1 DEF Unsaved
  <2>5. QED
    BY <1>3, <2>1, <2>2, <2>3, <2>4
<1>7. ASSUME NEW r \in Requests, CreateUser(r) PROVE Orphaned'
  <2>0. PICK v \in Users : v = nextUser
    BY <1>7 DEF CreateUser
  <2>1. /\ v \in Users /\ req[r].pc \notin Unsaved /\ req'[r].pc \in Unsaved /\ req'[r].user = v
        /\ Others(r)
    BY <1>7, <2>0 DEF CreateUser, TypeOK, Frames, Others, At, Unsaved
  <2>2. /\ users'[v].state = "ACTIVE" /\ \A u \in Users \ {v} : users'[u].state = users[u].state
        /\ UNCHANGED <<accounts, tokens, orphans>>
    BY <1>7, <2>0 DEF CreateUser, TypeOK
  <2>3. \A u \in Users : users'[u].state = "ACTIVE" => Known(u)'
    <3>1. \A u \in Users : Known(u) => Known(u)'
      BY <2>1, <2>2 DEF Others
    <3>2. Known(v)'
      BY <2>1
    <3>3. QED
      BY <1>1, <2>2, <3>1, <3>2
  <2>4. v \notin orphans
    <3>1. ~Exists(v)
      BY <2>0 DEF UsersExist, TypeOK
    <3>2. QED
      BY <1>1, <3>1 DEF Exists
  <2>5. \A u \in orphans' : Lost(u)'
    BY <1>0, <1>1, <2>1, <2>2, <2>4 DEF Others, NoAccount
  <2>6. \A s \in Requests : New(s)'
    BY <1>0, <1>1, <2>1, <2>2 DEF Others
  <2>7. QED
    BY <1>2, <2>3, <2>5, <2>6
<1>8. ASSUME NEW r \in Requests, CreateProfile(r) \/ CheckAccount(r) PROVE Orphaned'
  <2>1. CASE Respond(r)
    <3>1. Others(r) /\ Ends(r) /\ UNCHANGED <<users, accounts, tokens>>
      BY <1>8, <2>1, RespondMoves DEF CreateProfile, CheckAccount, memberVars
    <3>2. \A step : Goto(r, step) => step = "idle"
      BY <3>1, GotoMoves DEF Ends, Idle, GoesOn
    <3>3. Orphan(r)
      BY <1>8, <3>2 DEF CreateProfile, CheckAccount
    <3>4. QED
      BY <1>4, <3>1, <3>3
  <2>2. CASE ~Respond(r)
    <3>1. /\ Others(r) /\ req'[r].user = req[r].user /\ req[r].pc \in Unsaved /\ req'[r].pc \in Unsaved
      BY <1>8, <2>2, GotoMoves DEF CreateProfile, CheckAccount, At, GoesOn, Unsaved
    <3>2. UNCHANGED <<users, accounts, tokens, orphans>>
      BY <1>8, <2>2 DEF CreateProfile, CheckAccount, memberVars, seen
    <3>3. QED
      BY <1>3, <3>1, <3>2
  <2>3. QED
    BY <2>1, <2>2
<1>9. ASSUME NEW r \in Requests, SaveAccount(r) PROVE Orphaned'
  <2>1. CASE accounts[req[r].ident] # NoUser
    BY <1>4, <1>9, <2>1, RespondMoves DEF SaveAccount
  <2>2. CASE accounts[req[r].ident] = NoUser
    <3>0. PICK v, e : v = req[r].user /\ e = req[r].ident
      OBVIOUS
    <3>1. /\ req[r].pc \in Unsaved /\ v \in Users /\ e \in Identifications /\ Unknown(r)
      BY <1>0, <1>9, <3>0 DEF SaveAccount, At, Unsaved, NewUsers, TypeOK, FrameOK, LetInSteps
    <3>2. /\ Others(r) /\ req'[r].user = v /\ req'[r].pc \notin Unsaved
          /\ UNCHANGED <<users, tokens, orphans>>
      BY <1>9, <2>2, <3>0, GotoMoves DEF SaveAccount, GoesOn, Unsaved
    <3>3. accounts'[e] = v /\ \A f \in Identifications \ {e} : accounts'[f] = accounts[f]
      BY <1>9, <2>2, <3>0, <3>1 DEF SaveAccount, TypeOK
    <3>4. \A u \in Users : users'[u].state = "ACTIVE" => Known(u)'
      <4>1. ASSUME NEW u \in Users, u # v, Known(u) PROVE Known(u)'
        BY <1>0, <2>2, <3>0, <3>2, <3>3, <4>1 DEF Others
      <4>2. Known(v)'
        BY <3>1, <3>3
      <4>3. QED
        BY <1>1, <3>2, <4>1, <4>2
    <3>5. \A u \in orphans' : Lost(u)'
      <4>1. ASSUME NEW u \in orphans PROVE u # v
        BY <1>1, <3>0
      <4>2. QED
        BY <1>1, <3>2, <3>3, <4>1 DEF Others, NoAccount
    <3>6. \A s \in Requests : New(s)'
      BY <1>1, <3>2 DEF Others
    <3>7. QED
      BY <1>2, <3>4, <3>5, <3>6
  <2>3. QED
    BY <2>1, <2>2
<1>10. ASSUME NEW r \in Requests, ChangeState(r) PROVE Orphaned'
  <2> DEFINE v == req[r].user
  <2>1. /\ v \in Users /\ req[r].pc \notin Unsaved /\ req'[r].pc \notin Unsaved
        /\ Others(r) /\ req'[r].user = v
    BY <1>0, <1>10, GotoMoves DEF ChangeState, At, GoesOn, WithdrawSteps, Unsaved
  <2>2. /\ users'[v].state = "WITHDRAWAL" /\ \A u \in Users \ {v} : users'[u].state = users[u].state
        /\ UNCHANGED <<accounts, tokens, orphans>>
    BY <1>10, <2>1 DEF ChangeState, TypeOK, UserRecords, seen
  <2>3. \A u \in Users : Known(u) => Known(u)'
    BY <2>1, <2>2 DEF Others
  <2>4. \A u \in orphans' : Lost(u)'
    <3>1. v \notin orphans
      BY <1>1
    <3>2. QED
      BY <1>0, <1>1, <2>1, <2>2, <3>1 DEF Others, NoAccount
  <2>5. ASSUME NEW s \in Requests, req'[s].pc \in Unsaved PROVE users'[req'[s].user].state = "ACTIVE"
    <3>1. s # r /\ req[s].pc \in Unsaved /\ req'[s].user = req[s].user /\ Unknown(s)
      BY <2>1, <2>5 DEF Others, NewUsers
    <3>2. req[s].user # v /\ req[s].user \in Users /\ users[req[s].user].state = "ACTIVE"
      BY <1>0, <1>1, <3>1 DEF Unknown
    <3>3. QED
      BY <2>2, <3>1, <3>2
  <2>6. QED
    BY <1>1, <1>2, <2>2, <2>3, <2>4, <2>5
<1>11. ASSUME NEW r \in Requests, RemoveAccounts(r) PROVE Orphaned'
  <2> DEFINE v == req[r].user
  <2>1. /\ Others(r) /\ req'[r].user = v /\ req[r].pc \notin Unsaved /\ req'[r].pc \notin Unsaved
        /\ UNCHANGED <<users, tokens, orphans>>
    BY <1>11, GotoMoves DEF RemoveAccounts, At, GoesOn, Unsaved
  <2>2. \A e \in Identifications : accounts'[e] \in {accounts[e], NoUser} /\ (accounts[e] # v => accounts'[e] = accounts[e])
    BY <1>11 DEF RemoveAccounts, TypeOK
  <2>3. users[v].state = "WITHDRAWAL"
    BY <1>11 DEF RemoveAccounts, At, Withdrawing, Asked
  <2>4. ASSUME NEW u \in Users, users[u].state = "ACTIVE" PROVE Known(u)'
    <3>1. u # v /\ Known(u)
      BY <1>1, <2>3, <2>4
    <3>2. QED
      BY <2>1, <2>2, <3>1 DEF Others
  <2>5. \A u \in orphans' : Lost(u)'
    BY <1>0, <1>1, <2>1, <2>2 DEF Others, NoAccount
  <2>6. \A s \in Requests : New(s)'
    BY <1>1, <2>1 DEF Others
  <2>7. QED
    BY <1>2, <2>1, <2>4, <2>5, <2>6
<1>12. ASSUME NEW r \in Requests, Abort(r) PROVE Orphaned'
  BY <1>4, <1>12, RespondMoves DEF Abort, memberVars
<1>13. ASSUME Verification \/ UNCHANGED vars PROVE Orphaned'
  <2>1. UNCHANGED <<users, accounts, tokens, orphans, req>>
    BY <1>13 DEF Verification, vars, memberVars, seen
  <2>2. QED
    BY <1>1, <1>2, <2>1 DEF NoAccount
<1>14. ASSUME NEW r \in Requests, Work(r) PROVE Orphaned'
  BY <1>14, <1>6, <1>7, <1>8, <1>9, <1>10, <1>11 DEF Work
<1>15. QED
  BY <1>5, <1>12, <1>13, <1>14 DEF Next

LEMMA AccountsGoneStep == TypeOK /\ NewUsers /\ AccountsGone /\ [Next]_vars => AccountsGone'
<1> SUFFICES ASSUME TypeOK, NewUsers, AccountsGone, [Next]_vars PROVE AccountsGone'
  OBVIOUS
<1> DEFINE Steps == {"tokens", "auths"}
           Fewer == kept \subseteq kept' /\ \A e \in Identifications : accounts'[e] \in {accounts[e], NoUser}
<1>0. NoUser \notin Users
  BY AuthRowsAssumption DEF NoUser
<1>1. ASSUME Fewer, \A u \in Users : Past(u, Steps)' => Past(u, Steps) PROVE AccountsGone'
  BY <1>0, <1>1 DEF AccountsGone, NoAccount
<1>2. ASSUME NEW r \in Requests, Others(r),
             req'[r].pc \in Steps => req[r].pc \in Steps /\ req'[r].user = req[r].user,
             withdrawn' \subseteq withdrawn \cup {u \in Users : req[r].pc \in Steps /\ req[r].user = u}
      PROVE  \A u \in Users : Past(u, Steps)' => Past(u, Steps)
  BY <1>2 DEF Past, Others
<1>3. ASSUME NEW r \in Requests, Others(r), req'[r].pc \notin Steps, UNCHANGED <<accounts, withdrawn, kept>>
      PROVE  AccountsGone'
  BY <1>1, <1>2, <1>3
<1>4. ASSUME NEW r \in Requests, Register(r) PROVE AccountsGone'
  <2>1. Others(r) /\ req'[r].pc \notin Steps
    BY <1>4, RegisterMoves
  <2>2. QED
    BY <1>3, <1>4, <2>1 DEF Register, memberVars, seen
<1>5. ASSUME NEW r \in Requests, NEW e \in Identifications, Login(r, e) PROVE AccountsGone'
  <2>1. Others(r) /\ req'[r].pc \notin Steps
    BY <1>5, LoginMoves
  <2>2. QED
    BY <1>3, <1>5, <2>1 DEF Login, memberVars, seen
<1>6. ASSUME NEW r \in Requests, NEW u \in Users, Logout(r, u) \/ UpdateProfile(r, u) \/ Withdraw(r, u)
      PROVE AccountsGone'
  <2>1. Others(r) /\ req'[r].pc \notin Steps
    BY <1>6, GuardedMoves
  <2>2. QED
    BY <1>3, <1>6, <2>1 DEF Logout, UpdateProfile, Withdraw, Guarded, memberVars, seen
<1>8. ASSUME NEW r \in Requests,
             \/ CheckNickname(r) \/ Validate(r) \/ GenerateNickname(r) \/ CreateProfile(r) \/ CheckAccount(r)
             \/ SyncRow(r) \/ SaveToken(r) \/ RemoveTokens(r) \/ CheckNewNickname(r) \/ Rename(r)
             \/ SaveOpinion(r) \/ ChangeState(r) \/ Abort(r)
      PROVE AccountsGone'
  <2>1. /\ Others(r)
        /\ req'[r].pc \in {"validate", "generate", "user", "find", "account", "rename", "state", "accounts", "idle"}
    BY <1>8, GotoMoves, RespondMoves, FoundFreeMoves, ValidateMoves
       DEF CheckNickname, GenerateNickname, CreateProfile, CheckAccount, SyncRow, SaveToken,
           RemoveTokens, CheckNewNickname, Rename, SaveOpinion, ChangeState, Abort, GoesOn, Ends, Idle
  <2>2. UNCHANGED <<accounts, withdrawn, kept>>
    BY <1>8 DEF CheckNickname, Validate, GenerateNickname, CreateProfile, CheckAccount, SyncRow, SaveToken,
                RemoveTokens, CheckNewNickname, Rename, SaveOpinion, ChangeState, Abort, memberVars, seen
  <2>3. QED
    BY <1>3, <2>1, <2>2
<1>9. ASSUME NEW r \in Requests, CreateUser(r) PROVE AccountsGone'
  <2>1. Others(r) /\ req'[r].pc = "profile"
    BY <1>9 DEF CreateUser, TypeOK, Frames, Others
  <2>2. QED
    BY <1>3, <1>9, <2>1 DEF CreateUser
<1>10. ASSUME NEW r \in Requests, SaveAccount(r) PROVE AccountsGone'
  <2>1. Unknown(r) /\ req[r].pc = "account"
    BY <1>10 DEF SaveAccount, At, NewUsers, Unsaved
  <2>2. Others(r) /\ req'[r].pc \notin Steps
    BY <1>10, GotoMoves, RespondMoves DEF SaveAccount, GoesOn, Ends, Idle
  <2>3. UNCHANGED <<withdrawn, kept>>
    BY <1>10 DEF SaveAccount, seen
  <2>4. \A u \in Users : Past(u, Steps)' => Past(u, Steps)
    BY <1>2, <2>2, <2>3
  <2>5. ~Past(req[r].user, Steps)
    BY <2>1 DEF Past, Unknown
  <2>6. \A e \in Identifications : accounts'[e] \in {accounts[e], req[r].user}
    BY <1>10 DEF SaveAccount, TypeOK
  <2>7. QED
    BY <2>3, <2>4, <2>5, <2>6 DEF AccountsGone, NoAccount
<1>11. ASSUME NEW r \in Requests, RemoveAccounts(r) PROVE AccountsGone'
  <2>1. Others(r) /\ GoesOn(r, "tokens") /\ UNCHANGED withdrawn
    BY <1>11, GotoMoves DEF RemoveAccounts
  <2>2. \A u \in Users : Past(u, Steps)' => Past(u, Steps) \/ u = req[r].user
    BY <2>1 DEF Past, Others, GoesOn
  <2>3. Fewer
    BY <1>11 DEF RemoveAccounts, TypeOK
  <2>4. req[r].user \in kept' \/ NoAccount(req[r].user)'
    <3>1. CASE req[r].user \in kept'
      BY <3>1
    <3>2. CASE req[r].user \notin kept'
      <4>1. req[r].user \in Users
        BY <1>11 DEF RemoveAccounts, At, TypeOK, FrameOK, WithdrawSteps
      <4>2. accounts' = [e \in Identifications |-> IF accounts[e] = req[r].user THEN NoUser ELSE accounts[e]]
        BY <1>11, <3>2 DEF RemoveAccounts
      <4>3. QED
        BY <1>0, <2>1, <4>1, <4>2 DEF GoesOn, NoAccount
    <3>3. QED
      BY <3>1, <3>2
  <2>5. QED
    BY <1>0, <2>1, <2>2, <2>3, <2>4 DEF GoesOn, AccountsGone, NoAccount
<1>12. ASSUME NEW r \in Requests, RemoveAllTokens(r) \/ RemoveAuths(r) PROVE AccountsGone'
  <2>1. /\ Others(r) /\ req[r].pc \in Steps
        /\ Ends(r) \/ GoesOn(r, "auths")
    BY <1>12, GotoMoves, RespondMoves DEF RemoveAllTokens, RemoveAuths, At
  <2>2. /\ UNCHANGED <<accounts, kept>> /\ withdrawn' \subseteq withdrawn \cup {req[r].user}
        /\ req[r].user \in Users
    BY <1>12 DEF RemoveAllTokens, RemoveAuths, memberVars, At, TypeOK, FrameOK, WithdrawSteps
  <2>3. \A u \in Users : Past(u, Steps)' => Past(u, Steps)
    BY <1>2, <2>1, <2>2 DEF Ends, GoesOn, Idle
  <2>4. QED
    BY <1>1, <2>2, <2>3
<1>13. ASSUME Verification \/ UNCHANGED vars PROVE AccountsGone'
  <2>1. UNCHANGED <<accounts, withdrawn, kept, req>>
    BY <1>13 DEF Verification, vars, memberVars, seen
  <2>2. QED
    BY <1>1, <2>1 DEF Past
<1>14. ASSUME NEW r \in Requests, Work(r) PROVE AccountsGone'
  BY <1>14, <1>8, <1>9, <1>10, <1>11, <1>12 DEF Work
<1>15. QED
  BY <1>4, <1>5, <1>6, <1>8, <1>13, <1>14 DEF Next

LEMMA TokensGoneStep == TypeOK /\ NewUsers /\ AccountsGone /\ TokensGone /\ [Next]_vars => TokensGone'
<1> SUFFICES ASSUME TypeOK, NewUsers, AccountsGone, TokensGone, [Next]_vars PROVE TokensGone'
  OBVIOUS
<1> DEFINE Fewer == kept \subseteq kept' /\ late \subseteq late' /\ tokens' \subseteq tokens
<1>1. ASSUME NEW r \in Requests, Others(r),
             req'[r].pc = "auths" => req[r].pc = "auths" /\ req'[r].user = req[r].user,
             withdrawn' \subseteq withdrawn \cup {u \in Users : req[r].pc = "auths" /\ req[r].user = u}
      PROVE  \A u \in Users : Past(u, {"auths"})' => Past(u, {"auths"})
  BY <1>1 DEF Past, Others
<1>2. ASSUME NEW r \in Requests, Others(r), req'[r].pc # "saveToken", tokens' \subseteq tokens
      PROVE  \A u \in Users : NoLogin(u) => NoLogin(u)'
  BY <1>2 DEF NoLogin, Others, At
<1>3. ASSUME NEW r \in Requests, Others(r), req'[r].pc \notin {"auths", "saveToken"}, Fewer,
             withdrawn' \subseteq withdrawn \cup {u \in Users : req[r].pc = "auths" /\ req[r].user = u}
      PROVE  TokensGone'
  BY <1>1, <1>2, <1>3 DEF TokensGone
<1>4. ASSUME NEW r \in Requests, Register(r) PROVE TokensGone'
  <2>1. Others(r) /\ req'[r].pc \notin {"auths", "saveToken"}
    BY <1>4, RegisterMoves
  <2>2. QED
    BY <1>3, <1>4, <2>1 DEF Register, memberVars, seen
<1>5. ASSUME NEW r \in Requests, NEW e \in Identifications, Login(r, e) PROVE TokensGone'
  <2>1. Others(r) /\ req'[r].pc = "saveToken" /\ req'[r].user = accounts[e]
    BY <1>5, LoginMoves
  <2>2. UNCHANGED <<tokens, withdrawn, kept, late>>
    BY <1>5 DEF Login, memberVars, seen
  <2>3. \A u \in Users : Past(u, {"auths"})' => Past(u, {"auths"}) /\ Past(u, {"tokens", "auths"})
    BY <1>1, <2>1, <2>2 DEF Past
  <2>4. \A u \in Users : NoLogin(u) /\ accounts[e] # u => NoLogin(u)'
    BY <2>1, <2>2 DEF NoLogin, Others, At
  <2>5. QED
    BY <2>2, <2>3, <2>4 DEF TokensGone, AccountsGone, NoAccount
<1>6. ASSUME NEW r \in Requests, NEW u \in Users, Logout(r, u) \/ UpdateProfile(r, u) \/ Withdraw(r, u)
      PROVE TokensGone'
  <2>1. Others(r) /\ req'[r].pc \notin {"auths", "saveToken"}
    BY <1>6, GuardedMoves
  <2>2. QED
    BY <1>3, <1>6, <2>1 DEF Logout, UpdateProfile, Withdraw, Guarded, memberVars, seen
<1>8. ASSUME NEW r \in Requests,
             \/ CheckNickname(r) \/ Validate(r) \/ GenerateNickname(r) \/ CreateProfile(r) \/ CheckAccount(r)
             \/ SaveAccount(r) \/ SyncRow(r) \/ RemoveTokens(r) \/ CheckNewNickname(r) \/ Rename(r)
             \/ SaveOpinion(r) \/ ChangeState(r) \/ RemoveAccounts(r) \/ RemoveAuths(r) \/ Abort(r)
      PROVE TokensGone'
  <2>1. /\ Others(r)
        /\ req'[r].pc \in {"validate", "generate", "user", "find", "account", "sync", "rename",
                            "state", "accounts", "tokens", "idle"}
    <3>1. CASE \/ CheckNickname(r) \/ Validate(r) \/ GenerateNickname(r) \/ CreateProfile(r)
               \/ CheckAccount(r) \/ SaveAccount(r) \/ SyncRow(r) \/ RemoveTokens(r)
      BY <3>1, GotoMoves, RespondMoves, FoundFreeMoves, ValidateMoves
         DEF CheckNickname, GenerateNickname, CreateProfile, CheckAccount, SaveAccount, SyncRow,
             RemoveTokens, GoesOn, Ends, Idle
    <3>2. CASE \/ CheckNewNickname(r) \/ Rename(r) \/ SaveOpinion(r) \/ ChangeState(r)
               \/ RemoveAccounts(r) \/ RemoveAuths(r) \/ Abort(r)
      BY <3>2, GotoMoves, RespondMoves, FoundFreeMoves
         DEF CheckNewNickname, Rename, SaveOpinion, ChangeState, RemoveAccounts, RemoveAuths,
             Abort, GoesOn, Ends, Idle
    <3>3. QED
      BY <1>8, <3>1, <3>2
  <2>2. Fewer
    BY <1>8 DEF CheckNickname, Validate, GenerateNickname, CreateProfile, CheckAccount, SaveAccount, SyncRow,
                RemoveTokens, CheckNewNickname, Rename, SaveOpinion, ChangeState, RemoveAccounts, RemoveAuths,
                Abort, memberVars, seen
  <2>3. withdrawn' \subseteq withdrawn \cup {u \in Users : req[r].pc = "auths" /\ req[r].user = u}
    <3>1. CASE RemoveAuths(r)
      BY <3>1 DEF RemoveAuths, At, TypeOK, FrameOK, WithdrawSteps
    <3>2. CASE ~RemoveAuths(r)
      BY <1>8, <3>2 DEF CheckNickname, Validate, GenerateNickname, CreateProfile, CheckAccount, SaveAccount,
                SyncRow, RemoveTokens, CheckNewNickname, Rename, SaveOpinion, ChangeState, RemoveAccounts,
                Abort, seen
    <3>3. QED
      BY <3>1, <3>2
  <2>4. QED
    BY <1>3, <2>1, <2>2, <2>3
<1>9. ASSUME NEW r \in Requests, CreateUser(r) PROVE TokensGone'
  <2>1. Others(r) /\ req'[r].pc = "profile"
    BY <1>9 DEF CreateUser, TypeOK, Frames, Others
  <2>2. QED
    BY <1>3, <1>9, <2>1 DEF CreateUser
<1>10. ASSUME NEW r \in Requests, SaveToken(r) PROVE TokensGone'
  <2>1. Others(r) /\ Ends(r) /\ UNCHANGED <<withdrawn, kept, late>>
    BY <1>10, RespondMoves DEF SaveToken, seen
  <2>2. \A u \in Users : Past(u, {"auths"})' => Past(u, {"auths"})
    BY <1>1, <2>1 DEF Ends, Idle
  <2>3. \A u \in Users : NoLogin(u) => NoLogin(u)'
    BY <1>10, <2>1 DEF SaveToken, NoLogin, Others, Ends, Idle, At
  <2>4. QED
    BY <2>1, <2>2, <2>3 DEF TokensGone
<1>11. ASSUME NEW r \in Requests, RemoveAllTokens(r) PROVE TokensGone'
  <2>1. Others(r) /\ GoesOn(r, "auths") /\ UNCHANGED <<withdrawn, kept>> /\ late \subseteq late'
    BY <1>11, GotoMoves DEF RemoveAllTokens
  <2>2. \A u \in Users : Past(u, {"auths"})' => Past(u, {"auths"}) \/ u = req[r].user
    BY <2>1 DEF Past, Others, GoesOn
  <2>3. \A u \in Users : NoLogin(u) => NoLogin(u)'
    BY <1>2, <1>11, <2>1 DEF RemoveAllTokens, GoesOn
  <2>4. req[r].user \in late' \/ NoLogin(req[r].user)'
    <3>1. CASE \E s \in Requests : At(s, "saveToken") /\ req[s].user = req[r].user
      BY <1>11, <3>1 DEF RemoveAllTokens
    <3>2. CASE ~\E s \in Requests : At(s, "saveToken") /\ req[s].user = req[r].user
      BY <1>11, <2>1, <3>2 DEF RemoveAllTokens, NoLogin, Others, GoesOn, At
    <3>3. QED
      BY <3>1, <3>2
  <2>5. QED
    BY <2>1, <2>2, <2>3, <2>4 DEF GoesOn, TokensGone
<1>12. ASSUME Verification \/ UNCHANGED vars PROVE TokensGone'
  <2>1. UNCHANGED <<tokens, withdrawn, kept, late, req>>
    BY <1>12 DEF Verification, vars, memberVars, seen
  <2>2. QED
    BY <2>1 DEF TokensGone, Past, NoLogin, At
<1>13. ASSUME NEW r \in Requests, Work(r) PROVE TokensGone'
  BY <1>13, <1>8, <1>9, <1>10, <1>11 DEF Work
<1>14. QED
  BY <1>4, <1>5, <1>6, <1>8, <1>12, <1>13 DEF Next

-----------------------------------------------------------------------------
(* A nickname found free is free when it is written, unless two handlers   *)
(* had found it free together.                                             *)

LEMMA NicknamesStep ==
  TypeOK /\ UsersExist /\ FreeUnlessRivals /\ NicknamesDiffer /\ [Next]_vars
    => FreeUnlessRivals' /\ NicknamesDiffer'
<1> SUFFICES ASSUME TypeOK, UsersExist, FreeUnlessRivals, NicknamesDiffer, [Next]_vars
             PROVE  FreeUnlessRivals' /\ NicknamesDiffer'
  OBVIOUS
<1> DEFINE Kept == FreeUnlessRivals' /\ NicknamesDiffer'
           Same(u) == (Exists(u)' <=> Exists(u)) /\ users'[u].nickname = users[u].nickname
           Steps == {"validate", "user", "rename"}
<1>1. ASSUME \A u \in Users : Same(u), UNCHANGED met
      PROVE  NicknamesDiffer' /\ \A n \in Nicknames : NicknameTaken(n)' <=> NicknameTaken(n)
  BY <1>1 DEF NicknamesDiffer, Shared, NicknameTaken
<1>2. ASSUME NEW r \in Requests, \A u \in Users : Same(u), UNCHANGED met,
             \A s \in Requests \ {r} : req'[s] = req[s],
             \/ req'[r].pc \notin Steps
             \/ req[r].pc \in Steps /\ req'[r].nickname = req[r].nickname /\ req'[r].rival = req[r].rival
      PROVE  Kept
  <2>1. \A n \in Nicknames, s \in Requests :
          Holds(s, n)' => Holds(s, n) /\ req'[s].rival = req[s].rival
    BY <1>2 DEF Holds
  <2>2. QED
    BY <1>1, <1>2, <2>1 DEF FreeUnlessRivals
<1>3. ASSUME NEW r \in Requests, NEW n \in Nicknames, NEW step \in Steps,
             FoundFree(r, n, step), ~NicknameTaken(n), UNCHANGED <<users, met>>
      PROVE  Kept
  <2>1. /\ \A s \in Requests \ {r}, m \in Nicknames : Holds(s, m)' <=> Holds(s, m)
        /\ \A m \in Nicknames : Holds(r, m)' => m = n
        /\ req'[r].rival = (Rivals(r, n) # {})
        /\ \A s \in Requests \ {r} : req'[s].rival = (req[s].rival \/ s \in Rivals(r, n))
    BY <1>3, FoundFreeMoves DEF Others, GoesOn, Holds
  <2>2. \A s \in Requests \ {r} : Holds(s, n) <=> s \in Rivals(r, n)
    BY DEF Holds, Rivals
  <2>3. \A m \in Nicknames : NicknameTaken(m)' <=> NicknameTaken(m)
    BY <1>1, <1>3 DEF Exists
  <2>4. FreeUnlessRivals'
    <3> SUFFICES ASSUME NEW m \in Nicknames, NEW s \in Requests, Holds(s, m)', ~req'[s].rival
                 PROVE  (\A q \in Requests \ {s} : ~Holds(q, m)') /\ ~NicknameTaken(m)'
      BY DEF FreeUnlessRivals
    <3>1. CASE s = r
      BY <1>3, <2>1, <2>2, <2>3, <3>1
    <3>2. CASE s # r
      <4>1. Holds(s, m) /\ ~req[s].rival /\ m # n
        BY <2>1, <2>2, <3>2
      <4>2. (\A q \in Requests \ {s} : ~Holds(q, m)) /\ ~NicknameTaken(m)
        BY <4>1 DEF FreeUnlessRivals
      <4>3. QED
        BY <2>1, <2>3, <4>1, <4>2
    <3>3. QED
      BY <3>1, <3>2
  <2>5. QED
    BY <1>1, <1>3, <2>4 DEF Exists
<1>4. ASSUME NEW r \in Requests, NEW v \in Users,
             Holds(r, req[r].nickname), req[r].nickname \in Nicknames, Observe(r),
             \A u \in Users \ {v} : Same(u),
             Exists(v)', users'[v].nickname = req[r].nickname,
             req'[r].pc \notin Steps, \A s \in Requests \ {r} : req'[s] = req[s]
      PROVE  Kept
  <2> DEFINE n == req[r].nickname
  <2>1. \A m \in Nicknames : NicknameTaken(m)' => m = n \/ NicknameTaken(m)
    BY <1>4 DEF NicknameTaken
  <2>2. FreeUnlessRivals'
    <3> SUFFICES ASSUME NEW m \in Nicknames, NEW s \in Requests, Holds(s, m)', ~req'[s].rival
                 PROVE  (\A q \in Requests \ {s} : ~Holds(q, m)') /\ ~NicknameTaken(m)'
      BY DEF FreeUnlessRivals
    <3>1. s # r /\ Holds(s, m) /\ ~req[s].rival
      BY <1>4 DEF Holds
    <3>2. (\A q \in Requests \ {s} : ~Holds(q, m)) /\ ~NicknameTaken(m)
      BY <3>1 DEF FreeUnlessRivals
    <3>3. m # n
      BY <1>4, <3>1, <3>2
    <3>4. \A q \in Requests \ {s} : ~Holds(q, m)'
      BY <1>4, <3>2 DEF Holds
    <3>5. QED
      BY <2>1, <3>2, <3>3, <3>4
  <2>3. NicknamesDiffer'
    <3> SUFFICES ASSUME NEW m \in Nicknames, m \in Shared' PROVE m \in met'
      BY DEF NicknamesDiffer, Shared
    <3>1. CASE m # n
      <4>1. m \in Shared
        BY <1>4, <3>1 DEF Shared
      <4>2. QED
        BY <1>4, <4>1 DEF NicknamesDiffer, Observe
    <3>2. CASE m = n
      <4>1. NicknameTaken(n)
        <5>1. PICK u, w \in Users : u # w /\ \A q \in {u, w} : Exists(q)' /\ users'[q].nickname = n
          BY <3>2 DEF Shared
        <5>2. QED
          BY <1>4, <5>1 DEF NicknameTaken
      <4>2. req[r].rival
        BY <1>4, <4>1 DEF FreeUnlessRivals
      <4>3. QED
        BY <1>4, <3>2, <4>2 DEF Observe
    <3>3. QED
      BY <3>1, <3>2
  <2>4. QED
    BY <2>2, <2>3
<1>5. ASSUME NEW r \in Requests,
             \/ Register(r)
             \/ \E e \in Identifications : Login(r, e)
             \/ \E u \in Users : Logout(r, u) \/ UpdateProfile(r, u) \/ Withdraw(r, u)
      PROVE Kept
  <2>1. UNCHANGED <<users, met>> /\ \A s \in Requests \ {r} : req'[s] = req[s]
    BY <1>5 DEF Register, Goto, Login, Logout, UpdateProfile, Withdraw, Guarded, memberVars, seen, TypeOK
  <2>2. CASE Register(r)
    <3>1. \A n \in Nicknames : ~Holds(r, n)'
      BY <2>2, RegisterMoves, MembershipAssumption DEF Holds
    <3>2. QED
      BY <1>1, <2>1, <3>1 DEF FreeUnlessRivals, Holds, Exists
  <2>3. CASE ~Register(r)
    <3>1. req'[r].pc \in {"saveToken", "logout", "renameCheck", "opinion"}
      BY <1>5, <2>3, LoginMoves, GuardedMoves
    <3>2. QED
      BY <1>2, <2>1, <3>1 DEF Exists
  <2>4. QED
    BY <2>2, <2>3
<1>6. ASSUME NEW r \in Requests, CheckNickname(r) \/ CheckNewNickname(r) \/ GenerateNickname(r) PROVE Kept
  <2>1. UNCHANGED <<users, met>>
    BY <1>6 DEF CheckNickname, CheckNewNickname, GenerateNickname, memberVars, seen
  <2>2. CASE Respond(r)
    <3>1. req'[r].pc \notin Steps /\ \A s \in Requests \ {r} : req'[s] = req[s]
      BY <2>2, RespondMoves DEF Ends, Idle
    <3>2. QED
      BY <1>2, <2>1, <3>1 DEF Exists
  <2>3. CASE ~Respond(r)
    <3>1. \E n \in Nicknames, step \in Steps : FoundFree(r, n, step) /\ ~NicknameTaken(n)
      BY <1>6, <2>3 DEF CheckNickname, CheckNewNickname, GenerateNickname
    <3>2. QED
      BY <1>3, <2>1, <3>1
  <2>4. QED
    BY <2>2, <2>3
<1>7. ASSUME NEW r \in Requests, Validate(r) PROVE Kept
  <2>1. UNCHANGED <<users, met>> /\ \A s \in Requests \ {r} : req'[s] = req[s]
    BY <1>7, ValidateMoves DEF Validate, memberVars, seen
  <2>2. \/ req'[r].pc \notin Steps
        \/ req[r].pc \in Steps /\ req'[r].nickname = req[r].nickname /\ req'[r].rival = req[r].rival
    BY <1>7, ValidateMoves DEF Ends, Idle
  <2>3. QED
    BY <1>2, <2>1, <2>2 DEF Exists
<1>8. ASSUME NEW r \in Requests, CreateUser(r) PROVE Kept
  <2>1. PICK v \in Users : v = nextUser
    BY <1>8 DEF CreateUser
  <2>2. Holds(r, req[r].nickname) /\ req[r].nickname \in Nicknames
    BY <1>8 DEF CreateUser, At, Holds, TypeOK, FrameOK
  <2>3. /\ \A u \in Users \ {v} : Same(u)
        /\ users'[v] = [state |-> "ACTIVE", nickname |-> req[r].nickname]
    BY <1>8, <2>1 DEF CreateUser, Exists, TypeOK
  <2>4. Exists(v)' /\ users'[v].nickname = req[r].nickname
    BY <2>3 DEF Exists
  <2>5. req'[r].pc \notin Steps /\ \A s \in Requests \ {r} : req'[s] = req[s]
    BY <1>8 DEF CreateUser, TypeOK, Frames
  <2>6. QED
    BY <1>4, <1>8, <2>2, <2>3, <2>4, <2>5 DEF CreateUser
<1>9. ASSUME NEW r \in Requests, Rename(r) PROVE Kept
  <2>1. /\ Holds(r, req[r].nickname) /\ req[r].nickname \in Nicknames
        /\ req[r].user \in Users /\ Exists(req[r].user)
    BY <1>9 DEF Rename, At, Holds, TypeOK, FrameOK, OtherSteps, UsersExist
  <2> DEFINE v == req[r].user
  <2>2. \A u \in Users \ {v} : Same(u)
    BY <1>9 DEF Rename, Exists, TypeOK
  <2>3. users'[v].state = users[v].state /\ users'[v].nickname = req[r].nickname
    BY <1>9, <2>1 DEF Rename, TypeOK, UserRecords
  <2>4. req'[r].pc \notin Steps /\ \A s \in Requests \ {r} : req'[s] = req[s]
    BY <1>9, RespondMoves DEF Rename, Ends, Idle
  <2>5. \E w \in Users : /\ \A u \in Users \ {w} : Same(u)
                         /\ users'[w].state # "none" /\ users'[w].nickname = req[r].nickname
    BY <2>1, <2>2, <2>3 DEF Exists
  <2>6. QED
    BY <1>4, <1>9, <2>1, <2>4, <2>5 DEF Rename, Exists
<1>10. ASSUME NEW r \in Requests, ChangeState(r) PROVE Kept
  <2>1. req[r].user \in Users /\ Exists(req[r].user)
    BY <1>10 DEF ChangeState, At, TypeOK, FrameOK, WithdrawSteps, UsersExist
  <2>2. \A u \in Users : Same(u)
    BY <1>10, <2>1 DEF ChangeState, Exists, TypeOK, UserRecords
  <2>3. req'[r].pc \notin Steps /\ UNCHANGED met /\ \A s \in Requests \ {r} : req'[s] = req[s]
    BY <1>10, GotoMoves DEF ChangeState, GoesOn, seen
  <2>4. QED
    BY <1>2, <2>2, <2>3
<1>11. ASSUME NEW r \in Requests,
              \/ CreateProfile(r) \/ CheckAccount(r) \/ SaveAccount(r) \/ SyncRow(r) \/ SaveToken(r)
              \/ RemoveTokens(r) \/ SaveOpinion(r) \/ RemoveAccounts(r) \/ RemoveAllTokens(r)
              \/ RemoveAuths(r) \/ Abort(r)
       PROVE Kept
  <2>1. UNCHANGED <<users, met>>
    BY <1>11 DEF CreateProfile, CheckAccount, SaveAccount, SyncRow, SaveToken, RemoveTokens, SaveOpinion,
                 RemoveAccounts, RemoveAllTokens, RemoveAuths, Abort, memberVars, seen
  <2>2. req'[r].pc \notin Steps /\ \A s \in Requests \ {r} : req'[s] = req[s]
    BY <1>11, GotoMoves, RespondMoves
       DEF CreateProfile, CheckAccount, SaveAccount, SyncRow, SaveToken, RemoveTokens, SaveOpinion,
           RemoveAccounts, RemoveAllTokens, RemoveAuths, Abort, GoesOn, Ends, Idle
  <2>3. QED
    BY <1>2, <2>1, <2>2 DEF Exists
<1>12. ASSUME Verification \/ UNCHANGED vars PROVE Kept
  <2>1. UNCHANGED <<users, met, req>>
    BY <1>12 DEF Verification, vars, memberVars, seen
  <2>2. QED
    BY <1>1, <2>1 DEF FreeUnlessRivals, Holds, Exists
<1>13. ASSUME NEW r \in Requests, Work(r) PROVE Kept
  BY <1>13, <1>6, <1>7, <1>8, <1>9, <1>10, <1>11 DEF Work
<1>14. QED
  BY <1>5, <1>11, <1>12, <1>13 DEF Next

-----------------------------------------------------------------------------
(* The inductive invariant                                                 *)

LEMMA InitIInv == Init => IInv
<1> SUFFICES ASSUME Init PROVE IInv
  OBVIOUS
<1>0. /\ \A r \in Requests : req[r] = Idle
      /\ Idle.pc = "idle" /\ Idle.user = NoUser
      /\ NoUser \notin Users /\ NoUser = 0 /\ Users \subseteq Nat
  BY AuthRowsAssumption DEF Init, Idle, NoUser
<1>1. RowsInv
  BY RowsInit_RowsInv DEF Init
<1>2. TypeOK
  <2>1. FramesOK
    BY IdleOK DEF Init, FramesOK, FrameOK
  <2>2. TablesOK
    BY DEF Init, TablesOK, UserRecords, NoRecord
  <2>3. QED
    BY <1>1, <2>1, <2>2, TypeParts DEF RowsInv
<1>3. UsersExist
  BY <1>0 DEF Init, UsersExist, Exists, NoRecord
<1>4. OwnRows /\ OneAccountPerUser /\ Orphaned
  BY <1>0 DEF Init, OwnRows, HoldsItsOwnRow, HandedOut, OneAccountPerUser, LetInSteps,
              Orphaned, OrphansAreUnregistered, Unsaved, NoRecord
<1>5. NewUsers /\ Withdrawing
  BY <1>0 DEF NewUsers, Unsaved, Withdrawing, Asked
<1>6. WithdrawsOnce
  BY <1>0 DEF Init, WithdrawsOnce, AnsweredOnce, OneAtATime, NoneStranded, AfterOpinion
<1>7. AccountsGone /\ TokensGone
  BY <1>0 DEF Init, AccountsGone, TokensGone, Past
<1>8. FreeUnlessRivals /\ NicknamesDiffer
  BY <1>0 DEF Init, FreeUnlessRivals, Holds, NicknamesDiffer, Shared, Exists, NoRecord
<1>9. QED
  BY <1>1, <1>2, <1>3, <1>4, <1>5, <1>6, <1>7, <1>8 DEF RowsInv, IInv

LEMMA NextIInv == IInv /\ [Next]_vars => IInv'
BY TypeStep, UsersStep, OwnRowsStep, NewUsersStep, OrphansStep, WithdrawingStep, WithdrawsOnceStep, AccountsGoneStep, TokensGoneStep,
   NicknamesStep DEF IInv, RowsInv, TypeOK

(* What every handler in flight may rely on.                               *)
THEOREM InductiveInvariant == Spec => []IInv
BY InitIInv, NextIInv, PTL DEF Spec
-----------------------------------------------------------------------------
(* Results                                                                 *)

(* Every table and every handler keeps its type.                           *)
THEOREM TypeCorrect == Spec => []TypeOK
<1>1. IInv => TypeOK
  BY DEF IInv
<1>2. QED
  BY InductiveInvariant, <1>1, PTL

(* However many registrations overlap and whatever ids they send: one that *)
(* is let in, and binds a row by its id in the end, holds no other         *)
(* address's row.                                                          *)
THEOREM HoldsItsOwnRowHolds == Spec => []HoldsItsOwnRow
<1>1. IInv => HoldsItsOwnRow
  BY DEF IInv, OwnRows
<1>2. QED
  BY InductiveInvariant, <1>1, PTL

(* Wherever a registration fails, it leaves an active user without account *)
(* that nobody can ever sign in as; nothing else makes such a user.        *)
THEOREM OrphansAreUnregisteredHolds == Spec => []OrphansAreUnregistered
<1>1. IInv => OrphansAreUnregistered
  BY DEF IInv, Orphaned
<1>2. QED
  BY InductiveInvariant, <1>1, PTL

(* The account a login or a search takes for a user is the user's only one.*)
THEOREM OneAccountPerUserHolds == Spec => []OneAccountPerUser
<1>1. IInv => OneAccountPerUser
  BY DEF IInv
<1>2. QED
  BY InductiveInvariant, <1>1, PTL

(* Whatever is in flight when a withdrawal is answered, no account and no  *)
(* token of the user is left or comes back, the ignored error and the late *)
(* login apart.                                                            *)
THEOREM WithdrawnIsGoneHolds == Spec => []WithdrawnIsGone
<1>1. IInv => WithdrawnIsGone
  <2> SUFFICES ASSUME IInv PROVE WithdrawnIsGone
    OBVIOUS
  <2>1. withdrawn \subseteq Users
    BY DEF IInv, TypeOK
  <2>2. \A u \in withdrawn : u \in kept \/ NoAccount(u)
    BY <2>1 DEF IInv, AccountsGone, Past
  <2>3. \A u \in withdrawn : u \in kept \cup late \/ u \notin tokens
    BY <2>1 DEF IInv, TokensGone, Past, NoLogin
  <2>4. QED
    BY <2>2, <2>3 DEF WithdrawnIsGone, NoAccount
<1>2. QED
  BY InductiveInvariant, <1>1, PTL

(* Two withdrawals of one user never run at once past the opinion, and     *)
(* none runs again after it was answered, however often the client sends   *)
(* it; and every opinion in the table is of a withdrawal that was answered *)
(* or is on its way, unless a call failed or a handler died.               *)
THEOREM WithdrawsOnceHolds == Spec => []WithdrawsOnce
<1>1. IInv => WithdrawsOnce
  BY DEF IInv
<1>2. QED
  BY InductiveInvariant, <1>1, PTL

(* A withdrawal that was lost after its opinion is lost for good: no step  *)
(* of any handler takes it up again or answers it.                         *)
THEOREM StrandedForGood == Spec => [][\A u \in Users : Stranded(u) => Stranded(u)']_vars
<1>1. IInv => TypeOK
  BY DEF IInv
<1>2. QED
  BY InductiveInvariant, StrandedStep, <1>1, PTL DEF Spec

(* For any number of handlers and nicknames: a nickname is shared only     *)
(* after two handlers had found it free at once.                           *)
THEOREM NicknamesDifferHolds == Spec => []NicknamesDiffer
<1>1. IInv => NicknamesDiffer
  BY DEF IInv
<1>2. QED
  BY InductiveInvariant, <1>1, PTL

(* No registration takes an account over: it leaves its user only with the *)
(* withdrawal of that user.                                                *)
THEOREM AccountsLeaveByWithdrawalHolds == Spec => AccountsLeaveByWithdrawal
<1> DEFINE Leaves == \A e \in Identifications :
             accounts[e] # NoUser /\ accounts'[e] # accounts[e] =>
               /\ accounts'[e] = NoUser
               /\ users[accounts[e]].state = "WITHDRAWAL" /\ accounts[e] \in opinions
<1>1. IInv /\ [Next]_vars => [Leaves]_vars
  <2> SUFFICES ASSUME IInv, [Next]_vars PROVE Leaves
    OBVIOUS
  <2>0. TypeOK /\ Withdrawing
    BY DEF IInv
  <2>1. ASSUME NEW r \in Requests, RemoveAccounts(r) PROVE Leaves
    <3>1. users[req[r].user].state = "WITHDRAWAL" /\ req[r].user \in opinions
      BY <2>0, <2>1 DEF RemoveAccounts, At, Withdrawing, Asked
    <3>2. \A e \in Identifications : accounts'[e] # accounts[e] => accounts[e] = req[r].user /\ accounts'[e] = NoUser
      BY <2>1 DEF RemoveAccounts
    <3>3. QED
      BY <3>1, <3>2
  <2>2. ASSUME NEW r \in Requests, SaveAccount(r) PROVE Leaves
    BY <2>0, <2>2 DEF SaveAccount, TypeOK
  <2>3. ASSUME NEW r \in Requests,
               \/ Register(r)
               \/ \E e \in Identifications : Login(r, e)
               \/ \E u \in Users : Logout(r, u) \/ UpdateProfile(r, u) \/ Withdraw(r, u)
               \/ CheckNickname(r) \/ Validate(r) \/ GenerateNickname(r) \/ CreateUser(r) \/ CreateProfile(r)
               \/ CheckAccount(r) \/ SyncRow(r) \/ SaveToken(r) \/ RemoveTokens(r)
               \/ CheckNewNickname(r) \/ Rename(r)
               \/ SaveOpinion(r) \/ ChangeState(r) \/ RemoveAllTokens(r) \/ RemoveAuths(r) \/ Abort(r)
        PROVE  UNCHANGED accounts
    BY <2>3 DEF Register, Login, Logout, UpdateProfile, Withdraw, Guarded, CheckNickname, Validate,
                GenerateNickname, CreateUser, CreateProfile, CheckAccount, SyncRow, SaveToken, RemoveTokens,
                CheckNewNickname, Rename, SaveOpinion, ChangeState, RemoveAllTokens, RemoveAuths, Abort, memberVars
  <2>4. ASSUME Verification \/ UNCHANGED vars PROVE UNCHANGED accounts
    BY <2>4 DEF Verification, vars, memberVars
  <2>5. QED
    BY <2>1, <2>2, <2>3, <2>4 DEF Next, Work
<1>2. QED
  BY InductiveInvariant, <1>1, PTL DEF Spec, AccountsLeaveByWithdrawal

(* Registrations and withdrawals change the table of verifications only as *)
(* it promises, so that what Verification proves of the table holds beside *)
(* them.                                                                   *)
THEOREM KeepsRowsPromise == Spec => RowsSpec
<1>1. Init => RowsInit
  BY DEF Init
<1>2. IInv => TypeOK
  BY DEF IInv
<1>3. QED
  BY InductiveInvariant, StepOfRows, <1>1, <1>2, PTL DEF Spec, RowsSpec
=============================================================================
