----------------------------- MODULE Passwords -----------------------------
(***************************************************************************)
(* The password of an e-mail account: reset by a mailed code               *)
(* (src/src/domain/account/facade/account.facade.ts) and change by the     *)
(* member (account.service.ts), for one address.                           *)
(*                                                                         *)
(* A reset replaces the stored password before it mails the new one, and   *)
(* consumes the verification after the mail was accepted.  Resets, changes *)
(* and a withdrawal with a new registration of the address interleave at   *)
(* every await.  Hashing is left out: a stored hash is named by what was   *)
(* hashed.                                                                 *)
(***************************************************************************)
EXTENDS Naturals

CONSTANTS
  Requests,      \* slots for handlers in flight
  MaxPasswords,  \* bound: passwords ever generated or chosen
  MaxAccounts,   \* bound: accounts ever registered for the address
  MaxVerifications   \* bound: verifications ever begun for the address

PasswordsAssumption ==
  MaxPasswords \in Nat \ {0} /\ MaxAccounts \in Nat \ {0} /\ MaxVerifications \in Nat

VARIABLES
  account,       \* the row of accounts: its id (0 when there is none) and password
  mustChange,    \* its requirePassChange
  verification,  \* id of the row of authentications, category password; 0: none
  nextPassword, nextAccount, nextVerification,
  known,         \* observation: passwords the member chose or was mailed
  lost,          \* observation: passwords of resets that failed after they stored them
  req            \* what each handler in flight holds

next == <<nextPassword, nextAccount, nextVerification>>
vars == <<account, mustChange, verification, next, known, lost, req>>

Idle == [pc |-> "idle", account |-> 0, password |-> 0, auth |-> 0]
ResetSteps == {"read", "update", "confirm", "mail", "find", "delete"}
Unmailed == {"confirm", "mail"}
ChangeSteps == {"search", "change"}

FrameOK(f) ==
  IF f.pc = "idle" THEN f = Idle
  ELSE /\ f.pc \in ResetSteps \cup ChangeSteps
       /\ f.password \in 1..MaxPasswords
       /\ f.pc \notin {"read", "search"} <=> f.account # 0
       /\ f.pc = "delete" <=> f.auth # 0

TypeOK ==
  /\ account \in [id: 0..MaxAccounts, password: 0..MaxPasswords]
  /\ account.id = 0 <=> account.password = 0
  /\ mustChange \in BOOLEAN
  /\ verification \in 0..MaxVerifications
  /\ known \subseteq 1..MaxPasswords /\ lost \subseteq 1..MaxPasswords
  /\ DOMAIN req = Requests
  /\ \A r \in Requests : FrameOK(req[r])

Init ==
  /\ account = [id |-> 1, password |-> 1] /\ mustChange = FALSE
  /\ verification = 0
  /\ nextPassword = 2 /\ nextAccount = 2 /\ nextVerification = 1
  /\ known = {1} /\ lost = {}
  /\ req = [r \in Requests |-> Idle]

-----------------------------------------------------------------------------
At(r, step) == req[r].pc = step
Goto(r, step) == req' = [req EXCEPT ![r].pc = step]
Stored == <<account, mustChange>>

(* Faulty variant: the frame keeps what the handler held. *)
RespondKeeping(r) == req' = [req EXCEPT ![r].pc = "idle"]
Respond(r) == req' = [req EXCEPT ![r] = Idle]

(* A handler that throws: if it has stored a password, the member will     *)
(* never be mailed it.                                                     *)
Throw(r) ==
  /\ Respond(r)
  /\ lost' = IF req[r].pc \in Unmailed THEN lost \cup {req[r].password} ELSE lost

FreshPassword ==
  /\ nextPassword <= MaxPasswords
  /\ nextPassword' = nextPassword + 1

(* A member chooses a password, perhaps one used before. *)
Choose(p) ==
  /\ (p \in known /\ UNCHANGED nextPassword) \/ (p = nextPassword /\ FreshPassword)
  /\ known' = known \cup {p}

-----------------------------------------------------------------------------
(* resetPassword.  findValidAuth accepted a code that was mailed to the    *)
(* address and found a row of it, of either category: one that a           *)
(* registration is to consume does as well as the one a reset consumes.    *)
Reset(r) ==
  /\ req[r] = Idle
  /\ FreshPassword
  /\ req' = [req EXCEPT ![r] = [Idle EXCEPT !.pc = "read", !.password = nextPassword]]
  /\ UNCHANGED <<Stored, verification, nextAccount, nextVerification, known, lost>>

(* getAccount throws when there is no account. *)
ReadAccount(r) ==
  /\ At(r, "read")
  /\ IF account.id = 0 THEN Throw(r)
     ELSE req' = [req EXCEPT ![r].pc = "update", ![r].account = account.id] /\ UNCHANGED lost
  /\ UNCHANGED <<Stored, verification, next, known>>

(* Faulty variant: the account is looked up by its address again. *)
UpdateByAddress(r) ==
  IF account.id # 0
  THEN account' = [account EXCEPT !.password = req[r].password] /\ mustChange' = TRUE
  ELSE UNCHANGED Stored

(* updatePassword hashes, then updates by row id. *)
UpdatePassword(r) ==
  IF account.id = req[r].account
  THEN account' = [account EXCEPT !.password = req[r].password] /\ mustChange' = TRUE
  ELSE UNCHANGED Stored

StoreReset(r) ==
  /\ At(r, "update")
  /\ IF account.id = req[r].account THEN Goto(r, "confirm") ELSE Respond(r)
  /\ UpdatePassword(r)
  /\ UNCHANGED <<verification, next, known, lost>>

(* sendPasswordToEmail looks the account up by its address again. *)
ConfirmAccount(r) ==
  /\ At(r, "confirm")
  /\ IF account.id = 0 THEN Throw(r) ELSE Goto(r, "mail") /\ UNCHANGED lost
  /\ UNCHANGED <<Stored, verification, next, known>>

(* Faulty variant: nobody looks at what the provider answered. *)
MailUnchecked(r) ==
  /\ At(r, "mail")
  /\ known' \in {known, known \cup {req[r].password}}
  /\ Goto(r, "find")
  /\ UNCHANGED <<Stored, verification, next, lost>>

Mail(r) ==
  /\ At(r, "mail")
  /\ \/ known' = known \cup {req[r].password} /\ Goto(r, "find") /\ UNCHANGED lost
     \/ Throw(r) /\ UNCHANGED known
  /\ UNCHANGED <<Stored, verification, next>>

(* resetNotRegisteredUserAuth *)
FindVerification(r) ==
  /\ At(r, "find")
  /\ IF verification = 0 THEN Respond(r)
     ELSE req' = [req EXCEPT ![r].pc = "delete", ![r].auth = verification]
  /\ UNCHANGED <<Stored, verification, next, known, lost>>

DeleteVerification(r) ==
  /\ At(r, "delete")
  /\ verification' = IF verification = req[r].auth THEN 0 ELSE verification
  /\ Respond(r)
  /\ UNCHANGED <<Stored, next, known, lost>>

-----------------------------------------------------------------------------
(* changePassword of a signed in member: the token of a member whose       *)
(* account is gone may still pass the guard.                               *)
Change(r, p) ==
  /\ req[r] = Idle
  /\ Choose(p)
  /\ req' = [req EXCEPT ![r] = [Idle EXCEPT !.pc = "search", !.password = p]]
  /\ UNCHANGED <<Stored, verification, nextAccount, nextVerification, lost>>

SearchAccount(r) ==
  /\ At(r, "search")
  /\ IF account.id = 0 THEN Respond(r)
     ELSE req' = [req EXCEPT ![r].pc = "change", ![r].account = account.id]
  /\ UNCHANGED <<Stored, verification, next, known, lost>>

StoreChange(r) ==
  /\ At(r, "change")
  /\ UpdatePassword(r)
  /\ Respond(r)
  /\ UNCHANGED <<verification, next, known, lost>>

-----------------------------------------------------------------------------
(* What goes on beside: beginAuthProgress replaces the verification, a     *)
(* withdrawal deletes the account, the address is registered again.        *)

BeginVerification ==
  /\ nextVerification <= MaxVerifications
  /\ verification' = nextVerification
  /\ nextVerification' = nextVerification + 1
  /\ UNCHANGED <<Stored, nextPassword, nextAccount, known, lost, req>>

Withdraw ==
  /\ account.id # 0
  /\ account' = [id |-> 0, password |-> 0] /\ mustChange' = FALSE
  /\ UNCHANGED <<verification, next, known, lost, req>>

Register(p) ==
  /\ account.id = 0
  /\ nextAccount <= MaxAccounts /\ Choose(p)
  /\ account' = [id |-> nextAccount, password |-> p] /\ mustChange' = FALSE
  /\ nextAccount' = nextAccount + 1
  /\ UNCHANGED <<verification, nextVerification, lost, req>>

(* An awaited call throws, or the process dies. *)
Abort(r) ==
  /\ req[r] # Idle
  /\ Throw(r)
  /\ UNCHANGED <<Stored, verification, next, known>>

Work(r) ==
  \/ ReadAccount(r) \/ StoreReset(r) \/ ConfirmAccount(r) \/ Mail(r)
  \/ FindVerification(r) \/ DeleteVerification(r)
  \/ SearchAccount(r) \/ StoreChange(r)

Next ==
  \/ \E r \in Requests : Reset(r) \/ Work(r) \/ Abort(r)
  \/ \E r \in Requests, p \in 1..MaxPasswords : Change(r, p)
  \/ \E p \in 1..MaxPasswords : Register(p)
  \/ BeginVerification \/ Withdraw

Spec == Init /\ [][Next]_vars

-----------------------------------------------------------------------------
(* Properties                                                              *)

(* The stored password is one the member knows, unless a reset is between  *)
(* storing and mailing it, or died or was refused there: resetPassword     *)
(* answers success only when the password that is stored, or the one that  *)
(* has replaced it since, can reach the member.                            *)
PasswordIsKnown ==
  account.id # 0 =>
    account.password \in known \cup lost \cup {req[r].password : r \in {s \in Requests : req[s].pc \in Unmailed}}

(* A password changes only by a handler that read this very account: the   *)
(* reset of an account that was withdrawn meanwhile does not reach the one *)
(* registered after it, though both have the same address.                 *)
PasswordStaysWithItsAccount ==
  [][account'.id = account.id /\ account'.password # account.password =>
       \E r \in Requests : (At(r, "update") \/ At(r, "change")) /\ req[r].account = account.id]_vars
=============================================================================
