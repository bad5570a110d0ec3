----------------------------- MODULE Membership -----------------------------
(***************************************************************************)
(* The life of a member: registration, login, logout, a new nickname,      *)
(* withdrawal (src/src/domain/user, src/src/domain/account), on top of the *)
(* verification rows of AuthRows, which come and go as RowsSpec promises.  *)
(*                                                                         *)
(* A registration writes five tables and a withdrawal five, one await      *)
(* after the other and without a transaction; a handler that fails or dies *)
(* half way leaves what it wrote.  Passwords are left to Passwords, social *)
(* accounts to SocialLogin.                                                *)
(***************************************************************************)
EXTENDS AuthRows, FiniteSets

CONSTANTS
  Requests,    \* slots for handlers in flight
  Nicknames,
  MaxAborts    \* bound: awaited calls that fail and handlers that die

NoNick == "generated"

ASSUME MembershipAssumption ==
  MaxAborts \in Nat /\ "account" \in Categories /\ NoNick \notin Nicknames

VARIABLES
  users,       \* table users; nickname is not unique
  nextUser,    \* its autoincrement
  accounts,    \* table accounts, unique on (category EMAIL, identification): its user
  tokens,      \* table user_tokens: the users that have rows
  opinions,    \* table user_opinions, unique on (user, category withdrawal)
  req,         \* what each handler in flight holds
  withdrawn,   \* observation: users that were answered success on withdrawal
  kept,        \* observation: users whose accounts an ignored error left behind
  late,        \* observation: users with a login in flight as their tokens were deleted
  met,         \* observation: nicknames users share that were written by handlers with a rival
  orphans,     \* observation: users whose registration failed before it saved their account
  aborts       \* failures so far

memberVars == <<users, nextUser, accounts, tokens, opinions>>
seen == <<withdrawn, kept, late, met, orphans, aborts>>
vars == <<rowVars, memberVars, req, seen>>

NoIdent == "nobody"
NoRecord == [state |-> "none", nickname |-> NoNick]
UserRecords == [state: {"none", "ACTIVE", "WITHDRAWAL"}, nickname: Nicknames \cup {NoNick}]

RegisterSteps == {"nickname", "validate", "generate", "user", "profile", "find", "account", "sync"}
LetInSteps == {"generate", "user", "profile", "find", "account", "sync"}   \* once validated
Unsaved == {"profile", "find", "account"}      \* a user, but no account yet
WithdrawSteps == {"opinion", "state", "accounts", "tokens", "auths"}
OtherSteps == {"saveToken", "logout", "renameCheck", "rename"}
Frames == [pc: RegisterSteps \cup WithdrawSteps \cup OtherSteps \cup {"idle"},
           ident: Identifications \cup {NoIdent}, auth: Nat,
           user: Users \cup {NoUser}, nickname: Nicknames \cup {NoNick},
           rival: BOOLEAN]  \* observation: two handlers had found the nickname free at once
Idle == [pc |-> "idle", ident |-> NoIdent, auth |-> NoId, user |-> NoUser, nickname |-> NoNick,
         rival |-> FALSE]

(* A handler past the creation of its user, a handler of a signed in user  *)
(* and a login have a user; one that is about to write a nickname has one. *)
FrameOK(f) ==
  /\ f \in Frames
  /\ f.pc = "idle" => f = Idle
  /\ f.pc \in LetInSteps => f.ident \in Identifications
  /\ f.pc \in {"profile", "find", "account", "sync"} \cup WithdrawSteps \cup OtherSteps => f.user \in Users
  /\ f.pc \in {"user", "rename"} => f.nickname \in Nicknames

TypeOK ==
  /\ RowsTypeOK
  /\ users \in [Users -> UserRecords]
  /\ nextUser \in Nat \ {0}
  /\ accounts \in [Identifications -> Users \cup {NoUser}]
  /\ tokens \subseteq Users
  /\ opinions \subseteq Users
  /\ req \in [Requests -> Frames]
  /\ \A r \in Requests : FrameOK(req[r])
  /\ withdrawn \subseteq Users /\ kept \subseteq Users /\ late \subseteq Users /\ met \subseteq Nicknames
  /\ orphans \subseteq Users
  /\ aborts \in Nat

Init ==
  /\ RowsInit
  /\ users = [u \in Users |-> NoRecord]
  /\ nextUser = 1
  /\ accounts = [e \in Identifications |-> NoUser]
  /\ tokens = {} /\ opinions = {}
  /\ req = [r \in Requests |-> Idle]
  /\ withdrawn = {} /\ kept = {} /\ late = {} /\ met = {} /\ orphans = {} /\ aborts = 0

-----------------------------------------------------------------------------
At(r, step) == req[r].pc = step
Goto(r, step) == req' = [req EXCEPT ![r].pc = step]

(* Faulty variant: the frame keeps what the handler held. *)
RespondKeeping(r) == req' = [req EXCEPT ![r].pc = "idle"]
Respond(r) == req' = [req EXCEPT ![r] = Idle]

Fail == aborts < MaxAborts /\ aborts' = aborts + 1
Exists(u) == users[u].state # "none"
(* Faulty variant: a nickname is free again once its user withdrew. *)
ActiveTaken(n) == \E u \in Users : users[u].state = "ACTIVE" /\ users[u].nickname = n
NicknameTaken(n) == \E u \in Users : Exists(u) /\ users[u].nickname = n

(* The nickname n is found free: r goes on with it, beside all others that *)
(* have found it free and not written it yet.                              *)
Rivals(r, n) == {s \in Requests \ {r} : req[s].pc \in {"validate", "user", "rename"} /\ req[s].nickname = n}
FoundFree(r, n, step) ==
  req' = [s \in Requests |->
            IF s = r THEN [req[s] EXCEPT !.pc = step, !.nickname = n, !.rival = Rivals(r, n) # {}]
            ELSE IF s \in Rivals(r, n) THEN [req[s] EXCEPT !.rival = TRUE] ELSE req[s]]
Shared == {n \in Nicknames : \E u, v \in Users : u # v /\ \A w \in {u, v} : Exists(w) /\ users[w].nickname = n}
Observe(r) == met' = Shared' \cap (met \cup IF req[r].rival THEN {req[r].nickname} ELSE {})

-----------------------------------------------------------------------------
(* registerProfile, with a nickname or without.  What a client sent is     *)
(* drawn where the handler first reads it.  The bound on user ids is kept  *)
(* here, so that no handler ever waits for it.                             *)
RoomForUser == nextUser + Cardinality({r \in Requests : req[r].pc \in RegisterSteps}) <= Cardinality(Users)

Register(r) ==
  /\ req[r] = Idle
  /\ RoomForUser
  /\ Goto(r, "nickname") \/ Goto(r, "validate")
  /\ UNCHANGED <<rowVars, memberVars, seen>>

(* validateNickName: withdrawn users keep their nickname. *)
CheckNickname(r) ==
  /\ At(r, "nickname")
  /\ \E n \in Nicknames : IF NicknameTaken(n) THEN Respond(r) ELSE FoundFree(r, n, "validate")
  /\ UNCHANGED <<rowVars, memberVars, seen>>

Verified(e) == \E p \in issued : p[1] = <<e, "account">>
OwnRow(e, id) == ~Absent(<<e, "account">>) /\ auths[<<e, "account">>].id = id

(* Registration goes on with the address and the id that were sent.        *)
LetIn(r, e, id) ==
  req' = [req EXCEPT ![r] = [@ EXCEPT !.pc = IF req[r].nickname = NoNick THEN "generate" ELSE "user",
                                      !.ident = e, !.auth = id]]

(* Faulty variant: looks the row up by its id alone. *)
ValidateById(r) ==
  /\ At(r, "validate")
  /\ \E e \in Identifications, id \in 1..MaxRows : IF HasId(id) THEN LetIn(r, e, id) ELSE Respond(r)
  /\ UNCHANGED <<rowVars, memberVars, seen>>

(* validateDoneIdentification reads the row of the address and compares    *)
(* ids; whether the row is DONE, nobody asks.  Clients may send any id,    *)
(* answered by finish or not, for any address.                             *)
Validate(r) ==
  /\ At(r, "validate")
  /\ \E e \in Identifications, id \in 1..MaxRows :
       IF OwnRow(e, id) THEN LetIn(r, e, id) ELSE Respond(r)
  /\ UNCHANGED <<rowVars, memberVars, seen>>

(* createUniqueNickName draws until the name it reads for is free. *)
GenerateNickname(r) ==
  /\ At(r, "generate")
  /\ \E n \in Nicknames :
       ~NicknameTaken(n) /\ FoundFree(r, n, "user")
  /\ UNCHANGED <<rowVars, memberVars, seen>>

(* Faulty variant: adopts the user that has the nickname by now. *)
FindOrCreateUser(r) ==
  /\ At(r, "user")
  /\ IF NicknameTaken(req[r].nickname)
     THEN /\ \E u \in Users : /\ users[u].state # "none" /\ users[u].nickname = req[r].nickname
                              /\ req' = [req EXCEPT ![r].pc = "profile", ![r].user = u, ![r].nickname = NoNick]
          /\ UNCHANGED <<users, nextUser>>
     ELSE /\ nextUser \in Users
          /\ users' = [users EXCEPT ![nextUser] = [state |-> "ACTIVE", nickname |-> req[r].nickname]]
          /\ nextUser' = nextUser + 1
          /\ req' = [req EXCEPT ![r].pc = "profile", ![r].user = nextUser, ![r].nickname = NoNick]
  /\ UNCHANGED <<rowVars, accounts, tokens, opinions, seen>>

(* createUser *)
CreateUser(r) ==
  /\ At(r, "user")
  /\ nextUser \in Users
  /\ users' = [users EXCEPT ![nextUser] = [state |-> "ACTIVE", nickname |-> req[r].nickname]]
  /\ nextUser' = nextUser + 1
  /\ req' = [req EXCEPT ![r] = [@ EXCEPT !.pc = "profile", !.user = nextUser, !.nickname = NoNick, !.rival = FALSE]]
  /\ Observe(r)
  /\ UNCHANGED <<rowVars, accounts, tokens, opinions, withdrawn, kept, late, orphans, aborts>>

(* createAgreements and createAreas write rows of the new user only. *)
CreateProfile(r) ==
  /\ At(r, "profile")
  /\ Goto(r, "find")
  /\ UNCHANGED <<rowVars, memberVars, seen>>

(* A registration that throws leaves the user it created. *)
Orphan(r) == orphans' = IF req[r].pc \in Unsaved THEN orphans \cup {req[r].user} ELSE orphans

(* Faulty variant: an account of the address, whoever's, is taken for the  *)
(* one to be created.                                                      *)
FindOrCreateAccount(r) ==
  /\ At(r, "find")
  /\ IF accounts[req[r].ident] # NoUser THEN Goto(r, "sync") ELSE Goto(r, "account")
  /\ UNCHANGED <<rowVars, memberVars, seen>>

(* createAccount: the check, in which findAccount takes an error of the    *)
(* lookup for an absent account ...                                        *)
CheckAccount(r) ==
  /\ At(r, "find")
  /\ \/ Goto(r, "account") /\ UNCHANGED orphans
     \/ accounts[req[r].ident] # NoUser /\ Respond(r) /\ Orphan(r)
  /\ UNCHANGED <<rowVars, memberVars, withdrawn, kept, late, met, aborts>>

(* Faulty variant: an upsert that hands the account over. *)
UpsertAccount(r) ==
  /\ At(r, "account")
  /\ accounts' = [accounts EXCEPT ![req[r].ident] = req[r].user]
  /\ Goto(r, "sync")
  /\ UNCHANGED <<rowVars, users, nextUser, tokens, opinions, seen>>

(* ... and, once the password is hashed, the insert; the unique index      *)
(* throws if another registration was faster.                              *)
SaveAccount(r) ==
  /\ At(r, "account")
  /\ IF accounts[req[r].ident] = NoUser
     THEN /\ accounts' = [accounts EXCEPT ![req[r].ident] = req[r].user]
          /\ Goto(r, "sync")
          /\ UNCHANGED orphans
     ELSE Respond(r) /\ Orphan(r) /\ UNCHANGED accounts
  /\ UNCHANGED <<rowVars, users, nextUser, tokens, opinions, withdrawn, kept, late, met, aborts>>

(* syncAuthentication throws when the row is gone. *)
SyncRow(r) ==
  /\ At(r, "sync")
  /\ IF HasId(req[r].auth) THEN SetUser(req[r].auth, req[r].user) ELSE UNCHANGED auths
  /\ Respond(r)
  /\ UNCHANGED <<nextAuth, issued, memberVars, seen>>

-----------------------------------------------------------------------------
(* createToken for an e-mail account: the account is read, the password    *)
(* compared and the token signed, then it is saved.                        *)

Login(r, e) ==
  /\ req[r] = Idle
  /\ accounts[e] # NoUser
  /\ req' = [req EXCEPT ![r] = [Idle EXCEPT !.pc = "saveToken", !.user = accounts[e]]]
  /\ UNCHANGED <<rowVars, memberVars, seen>>

SaveToken(r) ==
  /\ At(r, "saveToken")
  /\ tokens' = tokens \cup {req[r].user}
  /\ Respond(r)
  /\ UNCHANGED <<rowVars, users, nextUser, accounts, opinions, seen>>

(* AuthGuard: the token sent must still have its row. *)
Guarded(r, u, step) ==
  /\ req[r] = Idle
  /\ u \in tokens
  /\ req' = [req EXCEPT ![r] = [Idle EXCEPT !.pc = step, !.user = u]]
  /\ UNCHANGED <<rowVars, memberVars>>

Logout(r, u) == Guarded(r, u, "logout") /\ UNCHANGED seen

(* removeAllToken deletes every token of the user. *)
RemoveTokens(r) ==
  /\ At(r, "logout")
  /\ tokens' = tokens \ {req[r].user}
  /\ Respond(r)
  /\ UNCHANGED <<rowVars, users, nextUser, accounts, opinions, seen>>

(* updateProfile: the check of the new nickname, then the update. *)
UpdateProfile(r, u) == Guarded(r, u, "renameCheck") /\ UNCHANGED seen

CheckNewNickname(r) ==
  /\ At(r, "renameCheck")
  /\ \E n \in Nicknames : IF NicknameTaken(n) THEN Respond(r) ELSE FoundFree(r, n, "rename")
  /\ UNCHANGED <<rowVars, memberVars, seen>>

Rename(r) ==
  /\ At(r, "rename")
  /\ users' = [users EXCEPT ![req[r].user].nickname = req[r].nickname]
  /\ Observe(r)
  /\ Respond(r)
  /\ UNCHANGED <<rowVars, nextUser, accounts, tokens, opinions, withdrawn, kept, late, orphans, aborts>>

-----------------------------------------------------------------------------
(* withdrawProfile                                                         *)

Withdraw(r, u) == Guarded(r, u, "opinion") /\ UNCHANGED seen

(* createUserOpinion: the unique index throws on a second opinion. *)
SaveOpinion(r) ==
  /\ At(r, "opinion")
  /\ IF req[r].user \in opinions THEN Respond(r) ELSE Goto(r, "state")
  /\ opinions' = opinions \cup {req[r].user}
  /\ UNCHANGED <<rowVars, users, nextUser, accounts, tokens, seen>>

ChangeState(r) ==
  /\ At(r, "state")
  /\ users' = [users EXCEPT ![req[r].user].state = "WITHDRAWAL"]
  /\ Goto(r, "accounts")
  /\ UNCHANGED <<rowVars, nextUser, accounts, tokens, opinions, seen>>

(* removeAllAccount answers an error as a value, which nobody looks at. *)
RemoveAccounts(r) ==
  /\ At(r, "accounts")
  /\ \/ /\ accounts' = [e \in Identifications |-> IF accounts[e] = req[r].user THEN NoUser ELSE accounts[e]]
        /\ UNCHANGED <<kept, aborts>>
     \/ Fail /\ UNCHANGED accounts /\ kept' = kept \cup {req[r].user}
  /\ Goto(r, "tokens")
  /\ UNCHANGED <<rowVars, users, nextUser, tokens, opinions, withdrawn, late, met, orphans>>

RemoveAllTokens(r) ==
  /\ At(r, "tokens")
  /\ tokens' = tokens \ {req[r].user}
  /\ late' = IF \E s \in Requests : At(s, "saveToken") /\ req[s].user = req[r].user
             THEN late \cup {req[r].user} ELSE late
  /\ Goto(r, "auths")
  /\ UNCHANGED <<rowVars, users, nextUser, accounts, opinions, withdrawn, kept, met, orphans, aborts>>

(* removeAllAuth swallows errors like removeAllAccount. *)
RemoveAuths(r) ==
  /\ At(r, "auths")
  /\ (DeleteByUser(req[r].user) /\ UNCHANGED aborts) \/ (Fail /\ UNCHANGED auths)
  /\ withdrawn' = withdrawn \cup {req[r].user}
  /\ Respond(r)
  /\ UNCHANGED <<nextAuth, issued, memberVars, kept, late, met, orphans>>

-----------------------------------------------------------------------------
(* An awaited call throws, or the process dies. *)
Abort(r) ==
  /\ req[r] # Idle
  /\ Fail
  /\ Respond(r)
  /\ Orphan(r)
  /\ UNCHANGED <<rowVars, memberVars, withdrawn, kept, late, met>>

(* Verification goes on beside: clients begin, finish and begin again.  A  *)
(* finish whose answer is lost makes no difference here, so that issued    *)
(* tells which verifications were finished.  To finish or bind once more   *)
(* changes nothing and is left out.                                        *)
Finish(k) == ~auths[k].done /\ Verify(k) /\ <<k, auths[k].id>> \in issued'
Verification ==
  /\ \E k \in Keys :
       \/ Open(k) \/ Finish(k) \/ Drop({k})
       \/ \E u \in tokens : auths[k].user # u /\ Bind(k, u)
  /\ UNCHANGED <<memberVars, req, seen>>

Work(r) ==
  \/ CheckNickname(r) \/ Validate(r) \/ GenerateNickname(r) \/ CreateUser(r) \/ CreateProfile(r)
  \/ CheckAccount(r) \/ SaveAccount(r) \/ SyncRow(r)
  \/ SaveToken(r) \/ RemoveTokens(r) \/ CheckNewNickname(r) \/ Rename(r)
  \/ SaveOpinion(r) \/ ChangeState(r) \/ RemoveAccounts(r) \/ RemoveAllTokens(r) \/ RemoveAuths(r)

Next ==
  \/ \E r \in Requests :
       \/ Register(r)
       \/ \E e \in Identifications : Login(r, e)
       \/ \E u \in Users : Logout(r, u) \/ UpdateProfile(r, u) \/ Withdraw(r, u)
       \/ Work(r)
       \/ Abort(r)
  \/ Verification

Spec == Init /\ [][Next]_vars

(* The event loop runs every handler that can go on; a member whose        *)
(* withdrawal got as far as its opinion asks again.                        *)
FairSpec ==
  /\ Spec
  /\ \A r \in Requests : WF_vars(Work(r))
  /\ \A u \in Users : SF_vars(\E r \in Requests : u \in opinions /\ Withdraw(r, u))

-----------------------------------------------------------------------------
(* Properties                                                              *)

(* Every e-mail account belongs to an address whose verification was       *)
(* finished, whatever id a registration sends.                             *)
AccountIsVerified ==
  \A e \in Identifications :
    accounts[e] # NoUser => Verified(e)

(* The id of another address's verification opens no account, and no user  *)
(* is tied to another address's row, which is done by id alone and many    *)
(* awaits after the check (validateDoneIdentification, syncAuthentication):*)
(* a registration that was let in holds the id of the row of its own       *)
(* address, or of one that is gone for good.                               *)
HoldsItsOwnRow ==
  \A r \in Requests, k \in Keys :
    req[r].pc \in LetInSteps /\ auths[k].id = req[r].auth => k = <<req[r].ident, "account">>

(* An active user without an account is one whose registration is under    *)
(* way or failed after it had created the user; no withdrawal and no login *)
(* makes one, whatever fails half way.  And what such a registration left  *)
(* behind stays so: nobody signs in as this user or withdraws it.          *)
OrphansAreUnregistered ==
  /\ \A u \in Users : users[u].state = "ACTIVE" =>
       \/ u \in orphans
       \/ \E e \in Identifications : accounts[e] = u
       \/ \E r \in Requests : req[r].pc \in Unsaved /\ req[r].user = u
  /\ \A u \in orphans :
       users[u].state = "ACTIVE" /\ u \notin tokens /\ \A e \in Identifications : accounts[e] # u

(* No two accounts share a user.  The schema does not say so, and          *)
(* searchAccount takes the first account of the user it meets.             *)
OneAccountPerUser ==
  \A e, f \in Identifications : accounts[e] = accounts[f] /\ accounts[e] # NoUser => e = f

(* Once a withdrawal is answered success its user has no account, then and *)
(* ever after, whatever registrations are still in flight, unless the      *)
(* error of the removal was ignored; and no token either, unless a login   *)
(* that had read the account before was still to save its token.           *)
WithdrawnIsGone ==
  /\ \A e \in Identifications : accounts[e] \notin withdrawn \ kept
  /\ tokens \cap withdrawn \subseteq kept \cup late

(* Two users, withdrawn ones included, share a nickname only if two        *)
(* handlers had it between their look-up and their write at once: neither  *)
(* registration, nor a generated name, nor a rename takes a nickname that  *)
(* somebody had before (validateNickName, createUniqueNickName; the column *)
(* has no unique index).                                                   *)
NicknamesDiffer == Shared \subseteq met

(* An account changes hands only over the withdrawal of its user: it is    *)
(* removed, never given to a later registration of the address.            *)
AccountsLeaveByWithdrawal ==
  [][\A e \in Identifications :
       accounts[e] # NoUser /\ accounts'[e] # accounts[e] =>
         /\ accounts'[e] = NoUser
         /\ users[accounts[e]].state = "WITHDRAWAL" /\ accounts[e] \in opinions]_vars

(* A member whose withdrawal got as far as saving the opinion, and who     *)
(* keeps asking while signed in, is withdrawn in the end (user.controller: *)
(* withdraw user, delete account, token and update state).                 *)
WithdrawalSucceeds ==
  \A u \in Users : u \in opinions ~> (users[u].state = "WITHDRAWAL" \/ u \notin tokens)
=============================================================================
