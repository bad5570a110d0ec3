---------------------------- MODULE SocialLogin ----------------------------
(***************************************************************************)
(* Login with a social provider (createToken and resolveSocialAccount in   *)
(* src/src/domain/account/service/account.service.ts), for one provider.   *)
(*                                                                         *)
(* The first login of a person creates a user and an account.  Accounts of *)
(* an earlier version are keyed by e-mail address; a login that brings the *)
(* address, verified, moves such an account to the provider's id.  Every   *)
(* await is a step, logins of one person race (a double click, two         *)
(* devices), and the account may be withdrawn under them.                  *)
(***************************************************************************)
EXTENDS Naturals

CONSTANTS
  Requests,       \* slots for handlers in flight
  ProviderIds,    \* what identifies a person at the provider
  Emails,
  Owner,          \* who has verified an address with the provider: one person
  Users           \* ids of users: 1..n; the bound on users ever created

None == "none"
Profiles ==
  {p \in [id: ProviderIds, email: Emails \cup {None}, verified: BOOLEAN] :
     p.verified => p.email # None /\ Owner[p.email] = p.id}

ASSUME SocialLoginAssumption ==
  /\ Users \subseteq Nat \ {0} /\ 1 \in Users
  /\ Owner \in [Emails -> ProviderIds]
  /\ ProviderIds \cap Emails = {} /\ None \notin ProviderIds \cup Emails

VARIABLES
  accounts,   \* rows of accounts, by user: every user gets at most one
  nextUser,   \* autoincrement of users
  granted,    \* observation: provider id and user of every token answered
  req         \* what each handler in flight holds

vars == <<accounts, nextUser, granted, req>>

NoUser == 0
NoAccount == [ident |-> None, email |-> None]
NoProfile == [id |-> None, email |-> None, verified |-> FALSE]
Idle == [pc |-> "idle", profile |-> NoProfile, user |-> NoUser]

Steps == {"match", "refresh", "legacy", "migrate", "user", "find", "insert", "readBack", "token"}

FrameOK(f) ==
  IF f.pc = "idle" THEN f = Idle
  ELSE /\ f.pc \in Steps /\ f.profile \in Profiles
       /\ IF f.pc \in {"match", "legacy", "user"} THEN f.user = NoUser ELSE f.user \in Users

TypeOK ==
  /\ accounts \in [Users -> [ident: ProviderIds \cup Emails \cup {None}, email: Emails \cup {None}]]
  /\ nextUser \in Nat \ {0}
  /\ \A u \in Users : u >= nextUser => accounts[u] = NoAccount
  /\ granted \subseteq ProviderIds \X Users
  /\ DOMAIN req = Requests
  /\ \A r \in Requests : FrameOK(req[r])

(* No account yet, or one that an earlier version keyed by an address. *)
Init ==
  /\ \E e \in Emails \cup {None} :
       accounts = [u \in Users |-> IF u = 1 THEN [ident |-> e, email |-> e] ELSE NoAccount]
  /\ nextUser = 2
  /\ granted = {}
  /\ req = [r \in Requests |-> Idle]

-----------------------------------------------------------------------------
At(r, step) == req[r].pc = step
Goto(r, step) == req' = [req EXCEPT ![r].pc = step]
Hold(r, step, u) == req' = [req EXCEPT ![r].pc = step, ![r].user = u]

(* Faulty variant: the frame keeps what the handler held. *)
RespondKeeping(r) == req' = [req EXCEPT ![r].pc = "idle"]
Respond(r) == req' = [req EXCEPT ![r] = Idle]

(* getIdentification: the unique index leaves at most one. *)
Holders(ident) == {u \in Users : accounts[u].ident = ident}
Taken(ident) == Holders(ident) # {}

(* The provider has answered a profile with an id. *)
Login(r, p) ==
  /\ req[r] = Idle
  /\ req' = [req EXCEPT ![r] = [pc |-> "match", profile |-> p, user |-> NoUser]]
  /\ UNCHANGED <<accounts, nextUser, granted>>

(* Faulty variant: an address is good enough, verified or not. *)
MatchAnyEmail(r) ==
  /\ At(r, "match")
  /\ LET p == req[r].profile IN
       \/ \E u \in Holders(p.id) :
            Hold(r, IF p.email # None /\ accounts[u].email # p.email THEN "refresh" ELSE "token", u)
       \/ ~Taken(p.id) /\ Goto(r, IF p.email # None THEN "legacy" ELSE "user")
  /\ UNCHANGED <<accounts, nextUser, granted>>

Match(r) ==
  /\ At(r, "match")
  /\ LET p == req[r].profile IN
       \/ \E u \in Holders(p.id) :
            Hold(r, IF p.email # None /\ accounts[u].email # p.email THEN "refresh" ELSE "token", u)
       \/ ~Taken(p.id) /\ Goto(r, IF p.email # None /\ p.verified THEN "legacy" ELSE "user")
  /\ UNCHANGED <<accounts, nextUser, granted>>

(* updateAccountIdentity by row id.  It throws when the row is gone or     *)
(* when another row has the provider id by now.                            *)
UpdateIdentity(r) ==
  LET p == req[r].profile  u == req[r].user IN
    IF accounts[u] # NoAccount /\ Holders(p.id) \subseteq {u}
    THEN /\ accounts' = [accounts EXCEPT ![u] = [ident |-> p.id, email |-> p.email]]
         /\ Goto(r, "token")
    ELSE Respond(r) /\ UNCHANGED accounts

Refresh(r) == At(r, "refresh") /\ UpdateIdentity(r) /\ UNCHANGED <<nextUser, granted>>

FindLegacy(r) ==
  /\ At(r, "legacy")
  /\ \/ \E u \in Holders(req[r].profile.email) : Hold(r, "migrate", u)
     \/ ~Taken(req[r].profile.email) /\ Goto(r, "user")
  /\ UNCHANGED <<accounts, nextUser, granted>>

Migrate(r) == At(r, "migrate") /\ UpdateIdentity(r) /\ UNCHANGED <<nextUser, granted>>

CreateUser(r) ==
  /\ At(r, "user")
  /\ nextUser \in Users
  /\ nextUser' = nextUser + 1
  /\ Hold(r, "find", nextUser)
  /\ UNCHANGED <<accounts, granted>>

(* createAccount refuses an id that has an account; findAccount takes an   *)
(* error of the lookup for an absent account.                              *)
CheckAccount(r) ==
  /\ At(r, "find")
  /\ Goto(r, "insert") \/ (Taken(req[r].profile.id) /\ Respond(r))
  /\ UNCHANGED <<accounts, nextUser, granted>>

(* Faulty variant: a duplicate is skipped and the new user signed in. *)
InsertOrSkip(r) ==
  /\ At(r, "insert")
  /\ LET p == req[r].profile IN
       accounts' = IF Taken(p.id) THEN [accounts EXCEPT ![req[r].user].email = p.email]
                   ELSE [accounts EXCEPT ![req[r].user] = [ident |-> p.id, email |-> p.email]]
  /\ Goto(r, "token")
  /\ UNCHANGED <<nextUser, granted>>

(* saveAccount throws when another login of the person was faster. *)
InsertAccount(r) ==
  /\ At(r, "insert")
  /\ LET p == req[r].profile IN
       IF Taken(p.id) THEN Respond(r) /\ UNCHANGED accounts
       ELSE /\ accounts' = [accounts EXCEPT ![req[r].user] = [ident |-> p.id, email |-> p.email]]
            /\ Goto(r, "readBack")
  /\ UNCHANGED <<nextUser, granted>>

(* getAccount after createAccount. *)
ReadBack(r) ==
  /\ At(r, "readBack")
  /\ \/ \E u \in Holders(req[r].profile.id) : Hold(r, "token", u)
     \/ ~Taken(req[r].profile.id) /\ Respond(r)
  /\ UNCHANGED <<accounts, nextUser, granted>>

SaveToken(r) ==
  /\ At(r, "token")
  /\ granted' = granted \cup {<<req[r].profile.id, req[r].user>>}
  /\ Respond(r)
  /\ UNCHANGED <<accounts, nextUser>>

(* removeAllAccount, in the middle of a withdrawal. *)
Withdraw(u) ==
  /\ accounts[u] # NoAccount
  /\ accounts' = [accounts EXCEPT ![u] = NoAccount]
  /\ UNCHANGED <<nextUser, granted, req>>

(* An awaited call throws, or the process dies. *)
Abort(r) ==
  /\ req[r] # Idle
  /\ Respond(r)
  /\ UNCHANGED <<accounts, nextUser, granted>>

Next ==
  \/ \E r \in Requests :
       \/ \E p \in Profiles : Login(r, p)
       \/ Match(r) \/ Refresh(r) \/ FindLegacy(r) \/ Migrate(r)
       \/ CreateUser(r) \/ CheckAccount(r) \/ InsertAccount(r) \/ ReadBack(r) \/ SaveToken(r)
       \/ Abort(r)
  \/ \E u \in Users : Withdraw(u)

Spec == Init /\ [][Next]_vars

-----------------------------------------------------------------------------
(* Properties                                                              *)

(* Tokens answered to one person are for one user, as long as the accounts *)
(* they were answered for exist: of two logins that race through the       *)
(* lookup, the migration and the creation, none is signed in as somebody   *)
(* else (resolveSocialAccount).                                            *)
LoginsAgree ==
  \A g, h \in granted :
    g[1] = h[1] /\ accounts[g[2]] # NoAccount /\ accounts[h[2]] # NoAccount => g[2] = h[2]

(* An account keeps its identification until it is withdrawn, except that  *)
(* one keyed by an address moves, once, to the provider id of a login that *)
(* brought this very address, verified.                                    *)
IdentityMovesOnlyVerified ==
  [][\A u \in Users :
       accounts[u].ident # None /\ accounts'[u].ident \notin {None, accounts[u].ident} =>
         \E r \in Requests :
           /\ At(r, "migrate") /\ req[r].profile.verified
           /\ req[r].profile.email = accounts[u].ident /\ req[r].profile.id = accounts'[u].ident]_vars
=============================================================================
