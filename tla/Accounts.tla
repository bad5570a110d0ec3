------------------------------ MODULE Accounts ------------------------------
(* What the handlers of the account domains do to their rows: social       *)
(* logins, passwords, verifications by e-mail, and the restaurants that    *)
(* members mark.  Each part has what it needs of the others' rows in its   *)
(* own actions, so that a behaviour is one of them.                        *)
EXTENDS SocialLogin

CONSTANTS
  MaxPasswords, MaxAccounts, MaxVerifications,   \* of Passwords
  Members, Columns, Restaurants, MaxReceived,    \* of Preferences
  Categories, Binders, Codes, Lifetime,          \* of Verification, with the users
  MaxRows, MaxHistories, MaxTime                 \*   who verify an address signed in

VARIABLES
  part,    \* whose behaviour this is
  account, mustChange, verification, nextPassword, nextAccount, nextVerification,
  known, lost, preq,
  rows, lists, mreq, contended, received,
  auths, nextAuth, issued, histories, now, vreq

pvars == <<account, mustChange, verification, nextPassword, nextAccount, nextVerification,
           known, lost, preq>>
mvars == <<rows, lists, mreq, contended, received>>
vvars == <<auths, nextAuth, issued, histories, now, vreq>>

P == INSTANCE Passwords WITH req <- preq
M == INSTANCE Preferences WITH req <- mreq, Users <- Members
V == INSTANCE Verification WITH req <- vreq, Users <- Binders, Identifications <- Emails

ASSUME AccountsAssumption ==
  /\ P!PasswordsAssumption /\ M!PreferencesAssumption /\ V!VerificationAssumption
  /\ Binders \subseteq Nat \ {0} /\ MaxRows \in Nat

(* An account of the earlier version is there for logins only. *)
AccountsInit ==
  /\ part \in {"login", "password", "marks", "verification"}
  /\ Init /\ P!Init /\ M!Init /\ V!Init
  /\ part # "login" => \A u \in Users : accounts[u] = NoAccount

AccountsNext ==
  \/ part = "login" /\ Next /\ UNCHANGED <<part, pvars, mvars, vvars>>
  \/ part = "password" /\ P!Next /\ UNCHANGED <<part, vars, mvars, vvars>>
  \/ part = "marks" /\ M!Next /\ UNCHANGED <<part, vars, pvars, vvars>>
  \/ part = "verification" /\ V!Next /\ UNCHANGED <<part, vars, pvars, mvars>>

AccountsSpec == AccountsInit /\ [][AccountsNext]_<<part, vars, pvars, mvars, vvars>>

-----------------------------------------------------------------------------
(* Properties                                                              *)

(* The state that the behaviour is about has its types. *)
TypesOK ==
  /\ part = "login" => TypeOK
  /\ part = "password" => P!TypeOK
  /\ part = "marks" => M!TypeOK
  /\ part = "verification" => V!TypeOK

(* The stored password is one the member knows, or its reset has not been  *)
(* able to mail it.                                                        *)
PasswordIsKnown == P!PasswordIsKnown

(* A password changes only by a handler that read this very account.       *)
PasswordStaysWithItsAccount == P!PasswordStaysWithItsAccount

(* No array lists a restaurant twice, unless two handlers met on it.       *)
NoDuplicates == M!NoDuplicates

(* Every step adds or removes one mark, unless two handlers met.           *)
OneMarkAtATime == M!OneMarkAtATime

(* An id that finish answered names a DONE row of the key it was answered  *)
(* for, as long as there is a row that has it.                             *)
IssuedIsDone == V!IssuedIsDone

(* The racing verification handlers keep the promise of AuthRows, on which *)
(* Membership builds.                                                      *)
RowsAsPromised == V!RowsSpec
=============================================================================
