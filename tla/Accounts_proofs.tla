-------------------------- MODULE Accounts_proofs ---------------------------
(***************************************************************************)
(* Why racing logins with a provider agree on the user, for any number of  *)
(* handlers, people, addresses and users: what a handler found in an       *)
(* account before its last await is still there, or the account is gone.   *)
(* Then what Passwords_proofs, Preferences_proofs and Verification_proofs  *)
(* show, of the behaviours of Accounts.                                    *)
(***************************************************************************)
EXTENDS Accounts, TLAPS

(* The unique index on the identification.                                 *)
AccountsOK ==
  /\ \A u \in Users : accounts[u].ident = None => accounts[u] = NoAccount
  /\ \A u, v \in Users : accounts[u].ident = accounts[v].ident /\ accounts[u].ident # None => u = v

(* An account gone, or with one of these identifications.                  *)
Keyed(u, idents) == accounts[u].ident \in idents \cup {None}

(* A token is for a user whose account had the id it was answered for.     *)
GrantedOK == \A g \in granted : g[2] < nextUser /\ Keyed(g[2], {g[1]})

(* The user a login has created and not saved an account for is known to   *)
(* it alone.                                                               *)
Created == {"find", "insert"}
Unknown(r) ==
  /\ accounts[req[r].user] = NoAccount
  /\ \A s \in Requests \ {r} : req[s].user # req[r].user
  /\ \A g \in granted : g[2] # req[r].user

(* A login that has found an account by id, or made one, finds it with     *)
(* this id; one that migrates an account may find it migrated, but to the  *)
(* same id, since only one person can have verified the address.           *)
HeldOK(r) ==
  LET p == req[r].profile  u == req[r].user IN
    /\ u < nextUser
    /\ req[r].pc \in {"legacy", "migrate"} => p.verified
    /\ req[r].pc \in {"refresh", "readBack", "token"} => Keyed(u, {p.id})
    /\ req[r].pc = "migrate" => Keyed(u, {p.id, p.email})
    /\ req[r].pc \in Created => Unknown(r)

IInv == TypeOK /\ AccountsOK /\ GrantedOK /\ \A r \in Requests : HeldOK(r)

-----------------------------------------------------------------------------

LEMMA IdleOK == FrameOK(Idle) /\ Idle.user = NoUser /\ Idle.pc = "idle"
BY DEF FrameOK, Idle

LEMMA FrameUser == \A f : FrameOK(f) => f.user \in Users \cup {NoUser} /\ f.user \in Nat
<1>1. \A f : FrameOK(f) => f.user \in Users \cup {NoUser}
  BY DEF FrameOK, Idle
<1>2. Users \subseteq Nat /\ NoUser \in Nat
  BY SocialLoginAssumption DEF NoUser
<1>3. QED
  BY <1>1, <1>2

LEMMA ProfileParts ==
  \A p \in Profiles :
    /\ p.id \in ProviderIds /\ p.email \in Emails \cup {None} /\ p.id # None
    /\ p.verified => p.email \in Emails /\ p.id = Owner[p.email]
BY SocialLoginAssumption DEF Profiles

(* A handler goes on with the frame f and the tables stay.                 *)
LEMMA HandlerStep ==
  ASSUME IInv, NEW r \in Requests, NEW f,
         req' = [req EXCEPT ![r] = f], UNCHANGED <<accounts, nextUser, granted>>,
         FrameOK(f),
         \/ f.user \in {NoUser, req[r].user}
         \/ f.user \in Users /\ accounts[f.user] # NoAccount,
         f.pc \in {"legacy", "migrate"} => f.profile.verified,
         f.pc \in {"refresh", "readBack", "token"} => Keyed(f.user, {f.profile.id}),
         f.pc = "migrate" => Keyed(f.user, {f.profile.id, f.profile.email}),
         f.pc \in Created => req[r].pc \in Created /\ f.user = req[r].user
  PROVE  IInv'
<1>0. TypeOK /\ AccountsOK /\ GrantedOK /\ \A s \in Requests : HeldOK(s)
  BY DEF IInv
<1>1. req'[r] = f /\ \A s \in Requests \ {r} : req'[s] = req[s]
  BY <1>0 DEF TypeOK
<1>2. TypeOK'
  BY <1>0, <1>1 DEF TypeOK, FrameOK
<1>3. AccountsOK' /\ GrantedOK'
  BY <1>0 DEF AccountsOK, GrantedOK, Keyed
<1>4. f.user < nextUser
  <2>1. ASSUME NEW u \in Users, accounts[u] # NoAccount PROVE u < nextUser
    BY <1>0, <2>1, SocialLoginAssumption DEF TypeOK
  <2>2. NoUser < nextUser /\ req[r].user < nextUser
    <3>1. HeldOK(r) /\ nextUser \in Nat \ {0}
      BY <1>0 DEF TypeOK
    <3>2. QED
      BY <3>1 DEF NoUser, HeldOK
  <2>3. QED
    BY <2>1, <2>2
<1>5. ASSUME NEW s \in Requests, s # r PROVE HeldOK(s)'
  <2>1. HeldOK(s) /\ req'[s] = req[s]
    BY <1>0, <1>1, <1>5
  <2>2. ASSUME req[s].pc \in Created PROVE Unknown(s)'
    <3>1. Unknown(s)
      BY <2>1, <2>2 DEF HeldOK
    <3>2. req[s].user \in Users /\ req[s].user # NoUser
      BY <1>0, <2>2, SocialLoginAssumption DEF TypeOK, FrameOK, Created, NoUser
    <3>3. f.user # req[s].user
      BY <1>5, <3>1, <3>2 DEF Unknown
    <3>4. QED
      BY <1>1, <2>1, <3>1, <3>3 DEF Unknown
  <2>3. QED
    BY <2>1, <2>2 DEF HeldOK, Keyed
<1>6. HeldOK(r)'
  <2>1. ASSUME f.pc \in Created PROVE Unknown(r)'
    <3>1. Unknown(r) /\ f.user = req[r].user
      BY <1>0, <2>1 DEF HeldOK
    <3>2. QED
      BY <1>1, <3>1 DEF Unknown
  <2>2. QED
    BY <1>1, <1>4, <2>1 DEF HeldOK, Keyed
<1>7. QED
  BY <1>2, <1>3, <1>5, <1>6 DEF IInv

LEMMA Answered ==
  ASSUME IInv, NEW r \in Requests, Respond(r), UNCHANGED <<accounts, nextUser, granted>>
  PROVE  IInv'
BY IdleOK, HandlerStep DEF Respond, Created

(* An account moves to the id of the login that holds it, and everybody    *)
(* who holds it too is a login of the same person.                         *)
LEMMA IdentityStep ==
  ASSUME IInv, NEW r \in Requests, At(r, "refresh") \/ At(r, "migrate"), UpdateIdentity(r),
         UNCHANGED <<nextUser, granted>>
  PROVE  IInv'
<1>0. TypeOK /\ AccountsOK /\ GrantedOK /\ \A s \in Requests : HeldOK(s)
  BY DEF IInv
<1> DEFINE p == req[r].profile
           u == req[r].user
<1>1. CASE Respond(r) /\ UNCHANGED accounts
  BY <1>1, Answered
<1>2. CASE ~(Respond(r) /\ UNCHANGED accounts)
  <2>1. /\ accounts[u] # NoAccount /\ Holders(p.id) \subseteq {u}
        /\ accounts' = [accounts EXCEPT ![u] = [ident |-> p.id, email |-> p.email]]
        /\ req' = [req EXCEPT ![r].pc = "token"]
    BY <1>2 DEF UpdateIdentity, Goto
  <2>2. FrameOK(req[r]) /\ u \in Users /\ p \in Profiles /\ u < nextUser
    BY <1>0 DEF TypeOK, FrameOK, HeldOK, At, Steps
  <2>3. /\ accounts'[u].ident = p.id
        /\ \A v \in Users \ {u} : accounts'[v] = accounts[v]
    BY <1>0, <2>1, <2>2 DEF TypeOK
  <2>4. /\ req'[r].pc = "token" /\ req'[r].profile = p /\ req'[r].user = u
        /\ \A s \in Requests \ {r} : req'[s] = req[s]
    BY <1>0, <2>1 DEF TypeOK
  (* Who the account belongs to before. *)
  <2>5. \/ accounts[u].ident = p.id
        \/ accounts[u].ident = p.email /\ p.verified /\ p.email \in Emails /\ p.id = Owner[p.email]
    <3>1. accounts[u].ident # None
      BY <1>0, <2>1, <2>2 DEF AccountsOK
    <3>2. CASE At(r, "refresh")
      BY <1>0, <3>1, <3>2 DEF At, HeldOK, Keyed
    <3>3. CASE At(r, "migrate")
      BY <1>0, <2>2, <3>1, <3>3, ProfileParts DEF At, HeldOK, Keyed
    <3>4. QED
      BY <3>2, <3>3
  <2>6. \A id \in ProviderIds : Keyed(u, {id}) => id = p.id
    BY <1>0, <2>1, <2>2, <2>5, SocialLoginAssumption DEF AccountsOK, Keyed
  <2>7. \A q \in Profiles : q.verified /\ Keyed(u, {q.id, q.email}) => q.id = p.id
    <3> SUFFICES ASSUME NEW q \in Profiles, q.verified, Keyed(u, {q.id, q.email}) PROVE q.id = p.id
      OBVIOUS
    <3>1. q.id \in ProviderIds /\ q.email \in Emails /\ q.id = Owner[q.email]
      BY ProfileParts
    <3>2. CASE accounts[u].ident = q.id
      BY <2>6, <3>1, <3>2 DEF Keyed
    <3>3. CASE accounts[u].ident = q.email
      <4>1. accounts[u].ident # p.id
        BY <2>2, <3>1, <3>3, ProfileParts, SocialLoginAssumption
      <4>2. QED
        BY <2>5, <3>1, <3>3, <4>1
    <3>4. accounts[u].ident # None
      BY <1>0, <2>1, <2>2 DEF AccountsOK
    <3>5. QED
      BY <3>2, <3>3, <3>4 DEF Keyed
  <2>8. TypeOK'
    <3>1. p.id \in ProviderIds /\ p.email \in Emails \cup {None}
      BY <2>2, ProfileParts
    <3>2. accounts' \in [Users -> [ident: ProviderIds \cup Emails \cup {None}, email: Emails \cup {None}]]
      BY <1>0, <2>1, <3>1 DEF TypeOK
    <3>3. \A v \in Users : v >= nextUser' => accounts'[v] = NoAccount
      BY <1>0, <2>2, <2>3, SocialLoginAssumption DEF TypeOK
    <3>4. FrameOK(req'[r])
      BY <2>2, <2>4 DEF FrameOK, Steps
    <3>5. DOMAIN req' = Requests
      BY <1>0, <2>1 DEF TypeOK
    <3>6. QED
      BY <1>0, <2>4, <3>2, <3>3, <3>4, <3>5 DEF TypeOK, FrameOK
  <2>9. AccountsOK'
    <3>1. p.id # None /\ \A v \in Users \ {u} : accounts[v].ident # p.id
      BY <2>1, <2>2, ProfileParts DEF Holders
    <3>2. QED
      BY <1>0, <2>2, <2>3, <3>1 DEF AccountsOK
  <2>10. GrantedOK'
    <3> SUFFICES ASSUME NEW g \in granted PROVE g[2] < nextUser /\ Keyed(g[2], {g[1]})'
      BY DEF GrantedOK
    <3>1. g[1] \in ProviderIds /\ g[2] \in Users /\ g[2] < nextUser /\ Keyed(g[2], {g[1]})
      BY <1>0 DEF TypeOK, GrantedOK
    <3>2. QED
      BY <2>3, <2>6, <3>1 DEF Keyed
  <2>11. ASSUME NEW s \in Requests, s # r PROVE HeldOK(s)'
    <3>1. HeldOK(s) /\ req'[s] = req[s] /\ FrameOK(req[s])
      BY <1>0, <2>4, <2>11 DEF TypeOK
    <3>2. CASE req[s].user # u
      <4>1. req[s].pc \in {"refresh", "readBack", "token", "migrate"} \cup Created => req[s].user \in Users
        BY <3>1 DEF FrameOK, Created, Steps
      <4>2. \A v \in Requests \ {s} : req'[v].user = req[v].user
        BY <2>4
      <4>3. QED
        BY <2>3, <3>1, <3>2, <4>1, <4>2 DEF HeldOK, Keyed, Unknown
    <3>3. CASE req[s].user = u
      <4>1. req[s].pc \notin Created
        BY <2>11, <3>1, <3>3 DEF HeldOK, Unknown
      <4>2. req[s].pc \in {"refresh", "readBack", "token", "migrate"} => req[s].profile \in Profiles /\ req[s].profile.id \in ProviderIds
        BY <3>1, ProfileParts DEF FrameOK
      <4>3. req[s].pc \in {"refresh", "readBack", "token"} => req[s].profile.id = p.id
        BY <2>6, <3>1, <3>3, <4>2 DEF HeldOK
      <4>4. req[s].pc = "migrate" => req[s].profile.id = p.id
        BY <2>7, <3>1, <3>3, <4>2 DEF HeldOK
      <4>5. QED
        BY <2>3, <3>1, <3>3, <4>1, <4>3, <4>4 DEF HeldOK, Keyed
    <3>4. QED
      BY <3>2, <3>3
  <2>12. HeldOK(r)'
    BY <2>2, <2>3, <2>4 DEF HeldOK, Keyed, Created
  <2>13. QED
    BY <2>8, <2>9, <2>10, <2>11, <2>12 DEF IInv
<1>3. QED
  BY <1>1, <1>2
(* The account of a new user takes the id of its login, or the login fails.*)
LEMMA InsertStep == ASSUME IInv, NEW r \in Requests, InsertAccount(r) PROVE IInv'
<1>0. TypeOK /\ AccountsOK /\ GrantedOK /\ \A s \in Requests : HeldOK(s)
  BY DEF IInv
<1> DEFINE p == req[r].profile
           u == req[r].user
<1>1. CASE Taken(p.id)
  BY <1>1, Answered DEF InsertAccount
<1>2. CASE ~Taken(p.id)
  <2>1. /\ accounts' = [accounts EXCEPT ![u] = [ident |-> p.id, email |-> p.email]]
        /\ req' = [req EXCEPT ![r].pc = "readBack"] /\ UNCHANGED <<nextUser, granted>>
        /\ req[r].pc = "insert"
    BY <1>2 DEF InsertAccount, Goto, At
  <2>2. /\ FrameOK(req[r]) /\ u \in Users /\ p \in Profiles /\ u < nextUser
        /\ Unknown(r)
    BY <1>0, <2>1 DEF TypeOK, FrameOK, HeldOK, Created
  <2>3. /\ accounts'[u].ident = p.id
        /\ \A v \in Users \ {u} : accounts'[v] = accounts[v]
    BY <1>0, <2>1, <2>2 DEF TypeOK
  <2>4. /\ req'[r].pc = "readBack" /\ req'[r].profile = p /\ req'[r].user = u
        /\ \A s \in Requests \ {r} : req'[s] = req[s] /\ req[s].user # u
    BY <1>0, <2>1, <2>2 DEF TypeOK, Unknown
  <2>5. TypeOK'
    <3>1. p.id \in ProviderIds /\ p.email \in Emails \cup {None}
      BY <2>2, ProfileParts
    <3>2. accounts' \in [Users -> [ident: ProviderIds \cup Emails \cup {None}, email: Emails \cup {None}]]
      BY <1>0, <2>1, <3>1 DEF TypeOK
    <3>3. \A v \in Users : v >= nextUser' => accounts'[v] = NoAccount
      BY <1>0, <2>1, <2>2, <2>3, SocialLoginAssumption DEF TypeOK
    <3>4. FrameOK(req'[r])
      BY <2>1, <2>2, <2>4 DEF FrameOK, Steps
    <3>5. DOMAIN req' = Requests
      BY <1>0, <2>1 DEF TypeOK
    <3>6. QED
      BY <1>0, <2>1, <2>4, <3>2, <3>3, <3>4, <3>5 DEF TypeOK, FrameOK
  <2>6. AccountsOK'
    <3>1. p.id # None /\ \A v \in Users : accounts[v].ident # p.id
      BY <1>2, <2>2, ProfileParts DEF Taken, Holders
    <3>2. QED
      BY <1>0, <2>2, <2>3, <3>1 DEF AccountsOK
  <2>7. GrantedOK'
    <3> SUFFICES ASSUME NEW g \in granted PROVE g[2] < nextUser /\ Keyed(g[2], {g[1]})'
      BY <2>1 DEF GrantedOK
    <3>1. g[2] \in Users /\ g[2] < nextUser /\ Keyed(g[2], {g[1]}) /\ g[2] # u
      BY <1>0, <2>2 DEF TypeOK, GrantedOK, Unknown
    <3>2. QED
      BY <2>3, <3>1 DEF Keyed
  <2>8. ASSUME NEW s \in Requests, s # r PROVE HeldOK(s)'
    <3>1. HeldOK(s) /\ req'[s] = req[s] /\ FrameOK(req[s]) /\ req[s].user # u
      BY <1>0, <2>4, <2>8 DEF TypeOK
    <3>2. req[s].pc \in {"refresh", "readBack", "token", "migrate"} \cup Created => req[s].user \in Users
      BY <3>1 DEF FrameOK, Created, Steps
    <3>3. \A v \in Requests \ {s} : req'[v].user = req[v].user
      BY <2>4
    <3>4. req[s].user \in Users => accounts'[req[s].user] = accounts[req[s].user]
      BY <2>3, <3>1
    <3>5. req[s].pc \in Created => Unknown(s)'
      BY <2>1, <3>1, <3>2, <3>3, <3>4 DEF HeldOK, Unknown
    <3>6. /\ req[s].pc \in {"refresh", "readBack", "token"} => Keyed(req[s].user, {req[s].profile.id})'
          /\ req[s].pc = "migrate" => Keyed(req[s].user, {req[s].profile.id, req[s].profile.email})'
      BY <3>1, <3>2, <3>4 DEF HeldOK, Keyed
    <3>7. QED
      BY <2>1, <3>1, <3>5, <3>6 DEF HeldOK, Keyed
  <2>9. HeldOK(r)'
    BY <2>1, <2>2, <2>3, <2>4 DEF HeldOK, Keyed, Created
  <2>10. QED
    BY <2>5, <2>6, <2>7, <2>8, <2>9 DEF IInv
<1>3. QED
  BY <1>1, <1>2

(* The user a login creates is one nobody has named before.                *)
LEMMA CreateStep == ASSUME IInv, NEW r \in Requests, CreateUser(r) PROVE IInv'
<1>0. TypeOK /\ AccountsOK /\ GrantedOK /\ \A s \in Requests : HeldOK(s)
  BY DEF IInv
<1> DEFINE f == [[req[r] EXCEPT !.pc = "find"] EXCEPT !.user = nextUser]
<1>1. /\ req[r].pc = "user" /\ FrameOK(req[r]) /\ nextUser \in Users /\ nextUser' = nextUser + 1
      /\ UNCHANGED <<accounts, granted>>
  BY <1>0 DEF CreateUser, At, TypeOK
<1>2. /\ req'[r].pc = "find" /\ req'[r].user = nextUser /\ req'[r].profile = req[r].profile
      /\ \A s \in Requests \ {r} : req'[s] = req[s]
      /\ DOMAIN req' = Requests
  BY <1>0 DEF CreateUser, Hold, TypeOK
<1>3. accounts[nextUser] = NoAccount /\ nextUser \in Nat
  BY <1>0, <1>1 DEF TypeOK
<1>4. ASSUME NEW s \in Requests PROVE req[s].user \in Nat /\ req[s].user < nextUser
  <2>1. HeldOK(s) /\ FrameOK(req[s])
    BY <1>0 DEF TypeOK
  <2>2. QED
    BY <2>1, FrameUser DEF HeldOK
<1>5. \A g \in granted : g[2] \in Nat /\ g[2] < nextUser
  BY <1>0, SocialLoginAssumption DEF TypeOK, GrantedOK
<1>6. TypeOK'
  <2>1. \A v \in Users : v >= nextUser' => accounts'[v] = NoAccount
    <3>1. Users \subseteq Nat
      BY SocialLoginAssumption
    <3>2. \A v \in Users : v >= nextUser => accounts[v] = NoAccount
      BY <1>0 DEF TypeOK
    <3>3. QED
      BY <1>1, <1>3, <3>1, <3>2
  <2>2. FrameOK(req'[r])
    <3>1. req[r].profile \in Profiles
      BY <1>1 DEF FrameOK
    <3>2. QED
      BY <1>1, <1>2, <3>1 DEF FrameOK, Steps
  <2>3. nextUser' \in Nat \ {0}
    BY <1>1, <1>3
  <2>4. QED
    BY <1>0, <1>1, <1>2, <2>1, <2>2, <2>3 DEF TypeOK, FrameOK
<1>7. AccountsOK' /\ GrantedOK'
  <2>1. \A g \in granted : g[2] < nextUser'
    BY <1>1, <1>3, <1>5
  <2>2. QED
    BY <1>0, <1>1, <2>1 DEF AccountsOK, GrantedOK, Keyed
<1>8. ASSUME NEW s \in Requests, s # r PROVE HeldOK(s)'
  <2>1. HeldOK(s) /\ req'[s] = req[s] /\ req[s].user # nextUser /\ req[s].user < nextUser'
    BY <1>0, <1>1, <1>2, <1>3, <1>4, <1>8
  <2>2. ASSUME req[s].pc \in Created PROVE Unknown(s)'
    BY <1>1, <1>2, <2>1, <2>2 DEF HeldOK, Unknown
  <2>3. QED
    BY <1>1, <2>1, <2>2 DEF HeldOK, Keyed
<1>9. HeldOK(r)'
  <2>1. Unknown(r)'
    BY <1>1, <1>2, <1>3, <1>4, <1>5 DEF Unknown
  <2>2. QED
    BY <1>1, <1>2, <1>3, <2>1 DEF HeldOK
<1>10. QED
  BY <1>6, <1>7, <1>8, <1>9 DEF IInv

-----------------------------------------------------------------------------

LEMMA InitIInv == Init => IInv
<1> SUFFICES ASSUME Init PROVE IInv
  OBVIOUS
<1>1. \A r \in Requests : req[r] = Idle
  BY DEF Init
<1>2. PICK e \in Emails \cup {None} :
        accounts = [u \in Users |-> IF u = 1 THEN [ident |-> e, email |-> e] ELSE NoAccount]
  BY DEF Init
<1>3. TypeOK
  <2>1. accounts \in [Users -> [ident: ProviderIds \cup Emails \cup {None}, email: Emails \cup {None}]]
    BY <1>2 DEF NoAccount
  <2>2. \A u \in Users : u >= 2 => accounts[u] = NoAccount
    BY <1>2, SocialLoginAssumption
  <2>3. QED
    BY <1>1, <2>1, <2>2, IdleOK DEF Init, TypeOK
<1>4. AccountsOK
  BY <1>2 DEF AccountsOK, NoAccount
<1>5. GrantedOK /\ \A r \in Requests : HeldOK(r)
  BY <1>1, IdleOK DEF Init, GrantedOK, HeldOK, Created, NoUser
<1>6. QED
  BY <1>3, <1>4, <1>5 DEF IInv

LEMMA NextIInv == IInv /\ [Next]_vars => IInv'
<1> SUFFICES ASSUME IInv, [Next]_vars PROVE IInv'
  OBVIOUS
<1>0. TypeOK /\ AccountsOK /\ GrantedOK /\ \A s \in Requests : HeldOK(s)
  BY DEF IInv
<1>1. ASSUME NEW r \in Requests, NEW p \in Profiles, Login(r, p) PROVE IInv'
  <2> DEFINE f == [pc |-> "match", profile |-> p, user |-> NoUser]
  <2>1. FrameOK(f)
    BY DEF FrameOK, Steps
  <2>2. req' = [req EXCEPT ![r] = f] /\ UNCHANGED <<accounts, nextUser, granted>>
    BY <1>1 DEF Login
  <2>3. QED
    BY <2>1, <2>2, HandlerStep DEF Created
<1>2. ASSUME NEW r \in Requests, NEW step \in {"legacy", "user", "insert"}, Goto(r, step),
             UNCHANGED <<accounts, nextUser, granted>>,
             req[r].pc \in Steps, req[r].pc # step,
             step = "legacy" => req[r].pc = "match" /\ req[r].profile.verified,
             step = "user" => req[r].pc \in {"match", "legacy"},
             step = "insert" => req[r].pc = "find"
      PROVE  IInv'
  <2> DEFINE f == [req[r] EXCEPT !.pc = step]
  <2>1. FrameOK(req[r])
    BY <1>0 DEF TypeOK
  <2>2. FrameOK(f) /\ f.user = req[r].user /\ f.profile = req[r].profile /\ f.pc = step
    BY <1>2, <2>1 DEF FrameOK, Steps
  <2>3. req' = [req EXCEPT ![r] = f]
    BY <1>2 DEF Goto
  <2>4. f.pc \in Created => req[r].pc \in Created
    BY <1>2, <2>2 DEF Created
  <2>5. QED
    BY <1>2, <2>2, <2>3, <2>4, HandlerStep
<1>3. ASSUME NEW r \in Requests, NEW u \in Users, NEW step \in {"refresh", "migrate", "token"},
             Hold(r, step, u), UNCHANGED <<accounts, nextUser, granted>>,
             req[r].pc \in Steps,
             step = "migrate" => u \in Holders(req[r].profile.email) /\ req[r].profile.verified,
             step # "migrate" => u \in Holders(req[r].profile.id)
      PROVE  IInv'
  <2> DEFINE f == [[req[r] EXCEPT !.pc = step] EXCEPT !.user = u]
  <2>1. FrameOK(req[r]) /\ req[r].profile \in Profiles
    BY <1>0, <1>3 DEF TypeOK, FrameOK, Steps
  <2>2. FrameOK(f) /\ f.user = u /\ f.profile = req[r].profile /\ f.pc = step
    BY <1>3, <2>1 DEF FrameOK, Steps
  <2>3. req' = [req EXCEPT ![r] = f]
    BY <1>3 DEF Hold
  <2>4. accounts[u].ident # None /\ accounts[u] # NoAccount
    <3>1. accounts[u].ident # None
      BY <1>3, <2>1, ProfileParts, SocialLoginAssumption DEF Holders
    <3>2. QED
      BY <3>1 DEF NoAccount
  <2>5. /\ f.pc \in {"refresh", "token"} => Keyed(u, {f.profile.id})
        /\ f.pc = "migrate" => Keyed(u, {f.profile.id, f.profile.email}) /\ f.profile.verified
    BY <1>3, <2>2 DEF Holders, Keyed
  <2>6. f.pc \notin Created /\ f.pc # "legacy" /\ f.pc # "readBack"
    BY <2>2 DEF Created
  <2>7. QED
    BY <1>3, <2>2, <2>3, <2>4, <2>5, <2>6, HandlerStep
<1>4. ASSUME NEW r \in Requests, Match(r) PROVE IInv'
  <2>1. /\ req[r].pc = "match" /\ UNCHANGED <<accounts, nextUser, granted>>
        /\ \/ \E u \in Users, step \in {"refresh", "token"} :
                 u \in Holders(req[r].profile.id) /\ Hold(r, step, u)
           \/ Goto(r, "legacy") /\ req[r].profile.verified
           \/ Goto(r, "user")
    BY <1>4 DEF Match, At, Holders
  <2>2. QED
    BY <1>2, <1>3, <2>1 DEF Steps
<1>5. ASSUME NEW r \in Requests, FindLegacy(r) PROVE IInv'
  <2>1. /\ req[r].pc = "legacy" /\ UNCHANGED <<accounts, nextUser, granted>>
        /\ \/ \E u \in Users : u \in Holders(req[r].profile.email) /\ Hold(r, "migrate", u)
           \/ Goto(r, "user")
    BY <1>5 DEF FindLegacy, At, Holders
  <2>2. req[r].profile.verified
    BY <1>0, <2>1 DEF HeldOK
  <2>3. QED
    BY <1>2, <1>3, <2>1, <2>2 DEF Steps
<1>6. ASSUME NEW r \in Requests, CheckAccount(r) PROVE IInv'
  BY <1>2, <1>6, Answered DEF CheckAccount, At, Steps
<1>7. ASSUME NEW r \in Requests, ReadBack(r) PROVE IInv'
  <2>1. /\ req[r].pc = "readBack" /\ UNCHANGED <<accounts, nextUser, granted>>
        /\ \/ \E u \in Users : u \in Holders(req[r].profile.id) /\ Hold(r, "token", u)
           \/ Respond(r)
    BY <1>7 DEF ReadBack, At, Holders
  <2>2. QED
    BY <1>3, <2>1, Answered DEF Steps
<1>8. ASSUME NEW r \in Requests, Refresh(r) \/ Migrate(r) PROVE IInv'
  BY <1>8, IdentityStep DEF Refresh, Migrate
<1>9. ASSUME NEW r \in Requests, SaveToken(r) PROVE IInv'
  <2>1. /\ req[r].pc = "token" /\ FrameOK(req[r]) /\ HeldOK(r)
        /\ granted' = granted \cup {<<req[r].profile.id, req[r].user>>}
        /\ UNCHANGED <<accounts, nextUser>>
    BY <1>0, <1>9 DEF SaveToken, At, TypeOK
  <2>2. req'[r] = Idle /\ \A s \in Requests \ {r} : req'[s] = req[s]
    BY <1>0, <1>9 DEF SaveToken, Respond, TypeOK
  <2>3. req[r].profile.id \in ProviderIds /\ req[r].user \in Users
    BY <2>1, ProfileParts DEF FrameOK
  <2>4. TypeOK'
    <3>1. granted' \subseteq ProviderIds \X Users
      BY <1>0, <2>1, <2>3 DEF TypeOK
    <3>2. DOMAIN req' = Requests
      BY <1>0, <1>9 DEF SaveToken, Respond, TypeOK
    <3>3. QED
      BY <1>0, <2>1, <2>2, <3>1, <3>2, IdleOK DEF TypeOK, FrameOK
  <2>5. AccountsOK' /\ GrantedOK'
    BY <1>0, <2>1 DEF AccountsOK, GrantedOK, HeldOK, Keyed
  <2>6. ASSUME NEW s \in Requests, s # r PROVE HeldOK(s)'
    <3>1. HeldOK(s) /\ req'[s] = req[s]
      BY <1>0, <2>2, <2>6
    <3>2. ASSUME req[s].pc \in Created PROVE Unknown(s)'
      <4>1. Unknown(s) /\ req[s].user \in Users /\ req[s].user # NoUser
        BY <1>0, <3>1, <3>2, SocialLoginAssumption DEF HeldOK, TypeOK, FrameOK, Created, NoUser
      <4>2. \A v \in Requests \ {s} : req'[v].user # req[s].user
        BY <2>2, <4>1, IdleOK DEF Unknown
      <4>3. QED
        BY <2>1, <2>6, <3>1, <4>1, <4>2 DEF Unknown
    <3>3. QED
      BY <2>1, <3>1, <3>2 DEF HeldOK, Keyed
  <2>7. HeldOK(r)'
    BY <1>0, <2>1, <2>2, IdleOK DEF HeldOK, Created, TypeOK, NoUser
  <2>8. QED
    BY <2>4, <2>5, <2>6, <2>7 DEF IInv
<1>10. ASSUME NEW v \in Users, Withdraw(v) PROVE IInv'
  <2>1. /\ accounts'[v] = NoAccount /\ accounts'[v].ident = None
        /\ \A u \in Users \ {v} : accounts'[u] = accounts[u]
        /\ UNCHANGED <<nextUser, granted, req>>
    BY <1>0, <1>10 DEF Withdraw, TypeOK, NoAccount
  <2>2. TypeOK'
    <3>1. accounts' \in [Users -> [ident: ProviderIds \cup Emails \cup {None}, email: Emails \cup {None}]]
      BY <1>0, <1>10 DEF Withdraw, TypeOK, NoAccount
    <3>2. QED
      BY <1>0, <2>1, <3>1 DEF TypeOK, FrameOK
  <2>3. AccountsOK'
    BY <1>0, <2>1 DEF AccountsOK
  <2>4. GrantedOK'
    BY <1>0, <2>1 DEF TypeOK, GrantedOK, Keyed
  <2>5. ASSUME NEW s \in Requests PROVE HeldOK(s)'
    <3>1. HeldOK(s) /\ FrameOK(req[s])
      BY <1>0 DEF TypeOK
    <3>2. req[s].pc \in {"refresh", "readBack", "token", "migrate"} \cup Created => req[s].user \in Users
      BY <3>1 DEF FrameOK, Created, Steps
    <3>3. QED
      BY <2>1, <3>1, <3>2 DEF HeldOK, Keyed, Unknown
  <2>6. QED
    BY <2>2, <2>3, <2>4, <2>5 DEF IInv
<1>11. ASSUME NEW r \in Requests, Abort(r) PROVE IInv'
  BY <1>11, Answered DEF Abort
<1>12. CASE UNCHANGED vars
  BY <1>0, <1>12 DEF vars, IInv, TypeOK, FrameOK, AccountsOK, GrantedOK, HeldOK, Keyed, Unknown
<1>13. QED
  BY <1>1, <1>4, <1>5, <1>6, <1>7, <1>8, <1>9, <1>10, <1>11, <1>12, CreateStep, InsertStep DEF Next

-----------------------------------------------------------------------------
(* Results                                                                 *)

(* What every login in flight may rely on.                                 *)
THEOREM InductiveInvariant == Spec => []IInv
BY InitIInv, NextIInv, PTL DEF Spec

(* The accounts and every handler keep their types.                        *)
THEOREM TypeCorrect == Spec => []TypeOK
<1>1. IInv => TypeOK
  BY DEF IInv
<1>2. QED
  BY InductiveInvariant, <1>1, PTL

(* However many logins of however many people race, no two tokens of one   *)
(* person are for two users that exist.                                    *)
THEOREM LoginsAgreeHolds == Spec => []LoginsAgree
<1>1. IInv => LoginsAgree
  <2> SUFFICES ASSUME IInv, NEW g \in granted, NEW h \in granted, g[1] = h[1],
                      accounts[g[2]] # NoAccount, accounts[h[2]] # NoAccount
               PROVE  g[2] = h[2]
    BY DEF LoginsAgree
  <2>1. g[2] \in Users /\ h[2] \in Users
    BY DEF IInv, TypeOK
  <2>2. accounts[g[2]].ident = g[1] /\ accounts[h[2]].ident = h[1] /\ accounts[g[2]].ident # None
    BY <2>1 DEF IInv, AccountsOK, GrantedOK, Keyed
  <2>3. QED
    BY <2>1, <2>2 DEF IInv, AccountsOK
<1>2. QED
  BY InductiveInvariant, <1>1, PTL

(* For any number of logins: an account changes its identification only    *)
(* from an address to the id of the person who has verified the address.   *)
THEOREM IdentityMovesOnlyVerifiedHolds == Spec => IdentityMovesOnlyVerified
<1> DEFINE Moves == \A u \in Users :
       accounts[u].ident # None /\ accounts'[u].ident \notin {None, accounts[u].ident} =>
         \E r \in Requests :
           /\ At(r, "migrate") /\ req[r].profile.verified
           /\ req[r].profile.email = accounts[u].ident /\ req[r].profile.id = accounts'[u].ident
<1>1. IInv /\ [Next]_vars => [Moves]_vars
  <2> SUFFICES ASSUME IInv, Next, NEW u \in Users,
                      accounts[u].ident # None, accounts'[u].ident \notin {None, accounts[u].ident}
               PROVE  \E r \in Requests :
                        /\ At(r, "migrate") /\ req[r].profile.verified
                        /\ req[r].profile.email = accounts[u].ident /\ req[r].profile.id = accounts'[u].ident
    OBVIOUS
  <2>0. TypeOK /\ \A r \in Requests : HeldOK(r)
    BY DEF IInv
  <2>1. ASSUME NEW r \in Requests, At(r, "refresh") \/ At(r, "migrate"), UpdateIdentity(r)
        PROVE  At(r, "migrate") /\ req[r].profile.verified
                 /\ req[r].profile.email = accounts[u].ident /\ req[r].profile.id = accounts'[u].ident
    <3>1. u = req[r].user /\ accounts'[u].ident = req[r].profile.id
      BY <2>0, <2>1 DEF UpdateIdentity, TypeOK
    <3>2. HeldOK(r)
      BY <2>0
    <3>3. QED
      BY <2>1, <3>1, <3>2 DEF HeldOK, Keyed, At
  <2>2. ASSUME NEW r \in Requests, InsertAccount(r) PROVE FALSE
    <3>1. u = req[r].user
      BY <2>0, <2>2 DEF InsertAccount, TypeOK
    <3>2. Unknown(r)
      BY <2>0, <2>2 DEF InsertAccount, At, HeldOK, Created
    <3>3. QED
      BY <3>1, <3>2 DEF Unknown, NoAccount
  <2>3. ASSUME NEW v \in Users, Withdraw(v) PROVE FALSE
    BY <2>0, <2>3 DEF Withdraw, TypeOK, NoAccount
  <2>4. ASSUME NEW r \in Requests,
               \/ \E p \in Profiles : Login(r, p)
               \/ Match(r) \/ FindLegacy(r) \/ CreateUser(r) \/ CheckAccount(r) \/ ReadBack(r)
               \/ SaveToken(r) \/ Abort(r)
        PROVE  FALSE
    BY <2>4 DEF Login, Match, FindLegacy, CreateUser, CheckAccount, ReadBack, SaveToken, Abort
  <2>5. QED
    BY <2>1, <2>2, <2>3, <2>4 DEF Next, Refresh, Migrate
<1>2. QED
  BY InductiveInvariant, <1>1, PTL DEF Spec, IdentityMovesOnlyVerified

-----------------------------------------------------------------------------
(* Passwords, marks and verifications, whose proofs are in modules of      *)
(* their own, and the four together.                                       *)

PP == INSTANCE Passwords_proofs WITH req <- preq
MM == INSTANCE Preferences_proofs WITH req <- mreq, Users <- Members
VV == INSTANCE Verification_proofs WITH req <- vreq, Users <- Binders, Identifications <- Emails

(* What is proved there of Passwords, of Preferences and of Verification   *)
(* is of P, of M and of V.                                                 *)
LEMMA SamePasswords ==
  /\ P!Spec <=> PP!Spec
  /\ P!TypeOK <=> PP!TypeOK
  /\ P!PasswordIsKnown <=> PP!PasswordIsKnown
  /\ P!PasswordStaysWithItsAccount <=> PP!PasswordStaysWithItsAccount
<1>1. P!Spec <=> PP!Spec
  BY DEF P!vars, PP!vars, P!next, PP!next, P!Idle, PP!Idle, P!Unmailed, PP!Unmailed, P!Init, PP!Init,
      P!At, PP!At, P!Goto, PP!Goto, P!Stored, PP!Stored, P!Respond, PP!Respond, P!Throw,
      PP!Throw, P!FreshPassword, PP!FreshPassword, P!Choose, PP!Choose, P!Reset, PP!Reset,
      P!ReadAccount, PP!ReadAccount, P!UpdatePassword, PP!UpdatePassword, P!StoreReset,
      PP!StoreReset, P!ConfirmAccount, PP!ConfirmAccount, P!Mail, PP!Mail, P!FindVerification,
      PP!FindVerification, P!DeleteVerification, PP!DeleteVerification, P!Change, PP!Change,
      P!SearchAccount, PP!SearchAccount, P!StoreChange, PP!StoreChange, P!BeginVerification,
      PP!BeginVerification, P!Withdraw, PP!Withdraw, P!Register, PP!Register, P!Abort, PP!Abort,
      P!Work, PP!Work, P!Next, PP!Next, P!Spec, PP!Spec
<1>2. P!TypeOK <=> PP!TypeOK
  BY DEF P!TypeOK, PP!TypeOK, P!FrameOK, PP!FrameOK, P!Idle, PP!Idle, P!Unmailed, PP!Unmailed,
      P!ResetSteps, PP!ResetSteps, P!ChangeSteps, PP!ChangeSteps
<1>3. P!PasswordIsKnown <=> PP!PasswordIsKnown
  BY DEF P!PasswordIsKnown, PP!PasswordIsKnown, P!Unmailed, PP!Unmailed
<1>4. P!PasswordStaysWithItsAccount <=> PP!PasswordStaysWithItsAccount
  BY DEF P!PasswordStaysWithItsAccount, PP!PasswordStaysWithItsAccount, P!At, PP!At, P!vars, PP!vars,
      P!next, PP!next
<1>5. QED
  BY <1>1, <1>2, <1>3, <1>4

LEMMA SameMarks ==
  /\ M!Spec <=> MM!Spec
  /\ M!TypeOK <=> MM!TypeOK
  /\ M!NoDuplicates <=> MM!NoDuplicates
  /\ M!OneMarkAtATime <=> MM!OneMarkAtATime
<1>1. M!Spec <=> MM!Spec
  BY DEF M!vars, MM!vars, M!Range, MM!Range, M!observed, MM!observed, M!None, MM!None, M!NoLists,
      MM!NoLists, M!Idle, MM!Idle, M!Init, MM!Init, M!At, MM!At, M!Respond, MM!Respond,
      M!Receive, MM!Receive, M!Add, MM!Add, M!Delete, MM!Delete, M!CheckAdd, MM!CheckAdd,
      M!Push, MM!Push, M!ReadToDelete, MM!ReadToDelete, M!Without, MM!Without, M!Write,
      MM!Write, M!Abort, MM!Abort, M!Next, MM!Next, M!Spec, MM!Spec
<1>2. M!TypeOK <=> MM!TypeOK
  BY DEF M!TypeOK, MM!TypeOK, M!FrameOK, MM!FrameOK, M!Idle, MM!Idle, M!Lists, MM!Lists,
      M!NoLists, MM!NoLists, M!None, MM!None
<1>3. M!NoDuplicates <=> MM!NoDuplicates
  BY DEF M!NoDuplicates, MM!NoDuplicates
<1>4. M!OneMarkAtATime <=> MM!OneMarkAtATime
  BY DEF M!OneMarkAtATime, MM!OneMarkAtATime, M!AsSets!MarksSpec, MM!AsSets!MarksSpec,
      M!AsSets!MarksInit, MM!AsSets!MarksInit, M!AsSets!MarksNext, MM!AsSets!MarksNext,
      M!AsSets!MarkOrUnmark, MM!AsSets!MarkOrUnmark, M!AsSets!Mark, MM!AsSets!Mark,
      M!AsSets!Unmark, MM!AsSets!Unmark, M!AsSets!Contend, MM!AsSets!Contend,
      M!AsSets!Overwrite, MM!AsSets!Overwrite, M!Range, MM!Range
<1>5. QED
  BY <1>1, <1>2, <1>3, <1>4

LEMMA SameVerifications ==
  /\ V!Spec <=> VV!Spec
  /\ V!TypeOK <=> VV!TypeOK
  /\ V!IssuedIsDone <=> VV!IssuedIsDone
  /\ V!RowsSpec <=> VV!RowsSpec
<1>1. V!Spec <=> VV!Spec
  BY DEF V!vars, VV!vars, V!Keys, VV!Keys, V!NoUser, VV!NoUser, V!NoId, VV!NoId, V!NoRow, VV!NoRow,
      V!NoKey, VV!NoKey, V!NoCode, VV!NoCode, V!Idle, VV!Idle, V!RowsInit, VV!RowsInit, V!Init,
      VV!Init, V!Tables, VV!Tables, V!Absent, VV!Absent, V!HasId, VV!HasId, V!SetDone, VV!SetDone,
      V!SetUser, VV!SetUser, V!DeleteById, VV!DeleteById, V!DeleteByUser, VV!DeleteByUser,
      V!InsertRow, VV!InsertRow, V!At, VV!At, V!Goto, VV!Goto, V!Respond, VV!Respond, V!Begin,
      VV!Begin, V!SendCode, VV!SendCode, V!FindOld, VV!FindOld, V!DeleteOld, VV!DeleteOld,
      V!CreateRow, VV!CreateRow, V!CreateRowFails, VV!CreateRowFails, V!CreateHistory,
      VV!CreateHistory, V!Valid, VV!Valid, V!Finish, VV!Finish, V!LookupRow, VV!LookupRow,
      V!MarkRow, VV!MarkRow, V!BindUser, VV!BindUser, V!UpdateFails, VV!UpdateFails, V!Reset,
      VV!Reset, V!ResetFind, VV!ResetFind, V!ResetDelete, VV!ResetDelete, V!RemoveAll,
      VV!RemoveAll, V!Abort, VV!Abort, V!Tick, VV!Tick, V!Work, VV!Work, V!Next, VV!Next,
      V!Spec, VV!Spec
<1>2. V!TypeOK <=> VV!TypeOK
  BY DEF V!TypeOK, VV!TypeOK, V!TablesOK, VV!TablesOK, V!RowsTypeOK, VV!RowsTypeOK, V!Rows, VV!Rows,
      V!Keys, VV!Keys, V!NoUser, VV!NoUser, V!NoId, VV!NoId, V!NoKey, VV!NoKey, V!NoCode, VV!NoCode,
      V!Histories, VV!Histories, V!BeginSteps, VV!BeginSteps, V!FinishSteps, VV!FinishSteps,
      V!ResetSteps, VV!ResetSteps, V!Frames, VV!Frames, V!Idle, VV!Idle, V!FrameOK, VV!FrameOK
<1>3. V!IssuedIsDone <=> VV!IssuedIsDone
  BY DEF V!IssuedIsDone, VV!IssuedIsDone, V!Keys, VV!Keys
<1>4. V!RowsSpec <=> VV!RowsSpec
  BY DEF V!RowsSpec, VV!RowsSpec, V!RowsInit, VV!RowsInit, V!RowsNext, VV!RowsNext, V!rowVars,
      VV!rowVars, V!Open, VV!Open, V!Verify, VV!Verify, V!Bind, VV!Bind, V!Drop, VV!Drop, V!Keys,
      VV!Keys, V!NoUser, VV!NoUser, V!NoId, VV!NoId, V!NoRow, VV!NoRow, V!Absent, VV!Absent,
      V!SetDone, VV!SetDone, V!SetUser, VV!SetUser, V!InsertRow, VV!InsertRow
<1>5. QED
  BY <1>1, <1>2, <1>3, <1>4

(* The behaviours of Accounts are behaviours of each of the four.          *)
LEMMA EachPart == AccountsSpec => Spec /\ P!Spec /\ M!Spec /\ V!Spec
<1>1. AccountsInit => Init /\ P!Init /\ M!Init /\ V!Init
  BY DEF AccountsInit
<1>2. [AccountsNext]_<<part, vars, pvars, mvars, vvars>> => [Next]_vars
  BY DEF AccountsNext
<1>3. [AccountsNext]_<<part, vars, pvars, mvars, vvars>> => [P!Next]_P!vars
  BY DEF AccountsNext, pvars, P!vars, P!next
<1>4. [AccountsNext]_<<part, vars, pvars, mvars, vvars>> => [M!Next]_M!vars
  BY DEF AccountsNext, mvars, M!vars
<1>5. [AccountsNext]_<<part, vars, pvars, mvars, vvars>> => [V!Next]_V!vars
  BY DEF AccountsNext, vvars, V!vars
<1>6. QED
  BY <1>1, <1>2, <1>3, <1>4, <1>5, PTL DEF AccountsSpec, Spec, P!Spec, M!Spec, V!Spec

(* What each of the parts assumes of the constants.                        *)
LEMMA Assumed ==
  /\ PP!PasswordsAssumption /\ MM!PreferencesAssumption
  /\ VV!VerificationAssumption /\ VV!AuthRowsAssumption
BY AccountsAssumption DEF P!PasswordsAssumption, PP!PasswordsAssumption, M!PreferencesAssumption,
    MM!PreferencesAssumption, V!VerificationAssumption, VV!VerificationAssumption

(* For any number of handlers, people, members, restaurants and codes:     *)
(* logins, passwords, marks and verifications keep the types of their      *)
(* rows.                                                                   *)
THEOREM TypesOKHolds == AccountsSpec => []TypesOK
<1>1. PP!Spec => []PP!TypeOK
  BY Assumed, PP!TypeCorrect
<1>2. MM!Spec => []MM!TypeOK
  BY Assumed, MM!TypeCorrect
<1>3. VV!Spec => []VV!TypeOK
  BY Assumed, VV!TypeCorrect
<1>4. TypeOK /\ P!TypeOK /\ M!TypeOK /\ V!TypeOK => TypesOK
  BY DEF TypesOK
<1>5. QED
  BY <1>1, <1>2, <1>3, <1>4, EachPart, TypeCorrect, SamePasswords, SameMarks, SameVerifications, PTL

(* For any number of clients, keys and crashes: an id that finish answered *)
(* names a DONE row of the key it was answered for, as long as there is a  *)
(* row that has it (finishAuthProgress).                                   *)
THEOREM IssuedIsDoneHolds == AccountsSpec => []IssuedIsDone
<1>1. VV!Spec => []VV!IssuedIsDone
  BY Assumed, VV!IssuedIsDoneHolds
<1>2. QED
  BY <1>1, EachPart, SameVerifications, PTL DEF IssuedIsDone

(* However the verification handlers interleave, lose races and die, the   *)
(* table keeps the promise Membership builds on: fresh ids, DONE for good, *)
(* answered only when DONE.                                                *)
THEOREM ImplementsRows == AccountsSpec => RowsAsPromised
<1>1. VV!Spec => VV!RowsSpec
  BY Assumed, VV!ImplementsRows
<1>2. QED
  BY <1>1, EachPart, SameVerifications, PTL DEF RowsAsPromised

(* For any number of handlers: the stored password is one the member       *)
(* knows, or its reset is about to mail it or has failed (resetPassword,   *)
(* changePassword).                                                        *)
THEOREM PasswordIsKnownHolds == AccountsSpec => []PasswordIsKnown
<1>1. PP!Spec => []PP!PasswordIsKnown
  BY Assumed, PP!PasswordIsKnownHolds
<1>2. QED
  BY <1>1, EachPart, SamePasswords, PTL DEF PasswordIsKnown

(* For any number of handlers: a password changes only by a handler that   *)
(* has read this very account, never one registered since.                 *)
THEOREM PasswordStaysWithItsAccountHolds == AccountsSpec => PasswordStaysWithItsAccount
<1>1. PP!Spec => PP!PasswordStaysWithItsAccount
  BY Assumed, PP!PasswordStaysWithItsAccountHolds
<1>2. QED
  BY <1>1, EachPart, SamePasswords, PTL DEF PasswordStaysWithItsAccount

(* For any number of handlers, members, columns and restaurants: no array  *)
(* lists a restaurant twice, unless two handlers worked on it together     *)
(* (createPreferenceRestaurant).                                           *)
THEOREM NoDuplicatesHolds == AccountsSpec => []NoDuplicates
<1>1. MM!Spec => []MM!NoDuplicates
  BY Assumed, MM!NoDuplicatesHolds
<1>2. QED
  BY <1>1, EachPart, SameMarks, PTL DEF NoDuplicates

(* For any number of handlers, members, columns and restaurants: the       *)
(* arrays implement the sets of Marks, to which every step adds one        *)
(* restaurant or from which it removes one, unless two handlers met.       *)
THEOREM ImplementsMarks == AccountsSpec => OneMarkAtATime
<1>1. MM!Spec => MM!OneMarkAtATime
  BY Assumed, MM!ImplementsMarks
<1>2. QED
  BY <1>1, EachPart, SameMarks, PTL DEF OneMarkAtATime
=============================================================================
