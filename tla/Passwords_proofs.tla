--------------------------- MODULE Passwords_proofs ---------------------------
(***************************************************************************)
(* What resets, changes, withdrawals and registrations keep true of the    *)
(* password of an address, however many of them race.                      *)
(***************************************************************************)
EXTENDS Passwords, TLAPS

(* Autoincrements are ahead of every id in the table or in a handler, so   *)
(* that an id read once never comes to name a later account.               *)
IdsOK ==
  /\ nextPassword \in Nat \ {0} /\ nextAccount \in Nat \ {0} /\ nextVerification \in Nat \ {0}
  /\ account.id < nextAccount
  /\ \A r \in Requests : req[r].account \in Nat /\ req[r].account < nextAccount

(* What a member is changing the password to, the member knows.            *)
ChosenIsKnown == \A r \in Requests : req[r].pc \in ChangeSteps => req[r].password \in known

IInv == TypeOK /\ IdsOK /\ ChosenIsKnown /\ PasswordIsKnown

-----------------------------------------------------------------------------
(* The tables alone, and what a step of one handler must see to.           *)

TablesOK ==
  /\ account \in [id: 0..MaxAccounts, password: 0..MaxPasswords]
  /\ account.id = 0 <=> account.password = 0
  /\ mustChange \in BOOLEAN
  /\ verification \in 0..MaxVerifications
  /\ known \subseteq 1..MaxPasswords /\ lost \subseteq 1..MaxPasswords

LEMMA IdleOK == FrameOK(Idle) /\ Idle.account = 0 /\ Idle.pc = "idle"
BY DEF FrameOK, Idle

(* The handler r goes on with the frame f.  The password that is stored    *)
(* then is one that was there, that the member knows, or that f is to mail;*)
(* and one that was to be mailed still is, or is known, or is given up.    *)
LEMMA HandlerStep ==
  ASSUME IInv, NEW r \in Requests, NEW f,
         req' = [req EXCEPT ![r] = f],
         FrameOK(f), f.account \in {0, req[r].account, account.id},
         f.pc \in ChangeSteps => f.password \in known',
         TablesOK', known \subseteq known', lost \subseteq lost',
         nextPassword' \in Nat \ {0}, UNCHANGED <<nextAccount, nextVerification>>,
         account'.id = account.id,
         \/ account'.password = account.password
         \/ account'.password \in known'
         \/ f.pc \in Unmailed /\ account'.password = f.password,
         \/ req[r].pc \notin Unmailed
         \/ req[r].password \in known' \cup lost'
         \/ f.pc \in Unmailed /\ f.password = req[r].password
  PROVE  IInv'
<1>0. TypeOK /\ IdsOK /\ ChosenIsKnown /\ PasswordIsKnown
  BY DEF IInv
<1>1. req'[r] = f /\ \A s \in Requests \ {r} : req'[s] = req[s]
  BY <1>0 DEF TypeOK
<1>2. TypeOK'
  BY <1>0, <1>1 DEF TypeOK, TablesOK, FrameOK
<1>3. IdsOK'
  <2>1. account.id \in Nat
    BY <1>0 DEF TypeOK
  <2>2. f.account \in Nat /\ f.account < nextAccount
    BY <1>0, <2>1 DEF IdsOK
  <2>3. QED
    BY <1>0, <1>1, <2>2 DEF IdsOK
<1>4. ChosenIsKnown'
  BY <1>0, <1>1 DEF ChosenIsKnown
<1>5. PasswordIsKnown'
  <2> SUFFICES ASSUME account'.id # 0
               PROVE  account'.password \in known' \cup lost'
                        \/ \E s \in Requests : req'[s].pc \in Unmailed /\ req'[s].password = account'.password
    BY DEF PasswordIsKnown
  <2>1. CASE account'.password = account.password
    <3>1. \/ account.password \in known \cup lost
          \/ \E s \in Requests : req[s].pc \in Unmailed /\ req[s].password = account.password
      BY <1>0 DEF PasswordIsKnown
    <3>2. QED
      BY <1>1, <2>1, <3>1
  <2>2. CASE account'.password \in known'
    BY <2>2
  <2>3. CASE f.pc \in Unmailed /\ account'.password = f.password
    BY <1>1, <2>3
  <2>4. QED
    BY <2>1, <2>2, <2>3
<1>6. QED
  BY <1>2, <1>3, <1>4, <1>5 DEF IInv

LEMMA Answered ==
  ASSUME IInv, NEW r \in Requests, Respond(r), req[r].pc \notin Unmailed,
         TablesOK', account'.id = account.id,
         account'.password = account.password \/ account'.password \in known',
         UNCHANGED <<next, known, lost>>
  PROVE  IInv'
<1>1. nextPassword \in Nat \ {0}
  BY DEF IInv, IdsOK
<1>2. Idle.pc \notin ChangeSteps
  BY IdleOK DEF ChangeSteps
<1>3. QED
  BY <1>1, <1>2, IdleOK, HandlerStep DEF Respond, next

LEMMA Thrown ==
  ASSUME IInv, NEW r \in Requests, Throw(r), UNCHANGED <<Stored, verification, next, known>>
  PROVE  IInv'
<1>1. nextPassword \in Nat \ {0}
  BY DEF IInv, IdsOK
<1>2. Idle.pc \notin ChangeSteps
  BY IdleOK DEF ChangeSteps
<1>3. lost' \subseteq 1..MaxPasswords
  BY DEF IInv, TypeOK, FrameOK, Throw, Unmailed
<1>4. TablesOK'
  BY <1>3 DEF IInv, TypeOK, TablesOK, Stored
<1>5. lost \subseteq lost' /\ (req[r].pc \notin Unmailed \/ req[r].password \in lost')
  BY DEF Throw
<1>6. QED
  BY <1>1, <1>2, <1>4, <1>5, IdleOK, HandlerStep DEF Throw, Respond, Stored, next

-----------------------------------------------------------------------------

LEMMA InitIInv == ASSUME PasswordsAssumption PROVE Init => IInv
<1> SUFFICES ASSUME Init PROVE IInv
  OBVIOUS
<1>1. \A r \in Requests : req[r] = Idle
  BY DEF Init
<1>2. TypeOK
  <2>1. 1 \in 0..MaxAccounts /\ 1 \in 0..MaxPasswords /\ {1} \subseteq 1..MaxPasswords /\ 0 \in 0..MaxVerifications
    BY DEF PasswordsAssumption
  <2>2. DOMAIN req = Requests /\ \A r \in Requests : FrameOK(req[r])
    BY <1>1, IdleOK DEF Init
  <2>3. account \in [id: 0..MaxAccounts, password: 0..MaxPasswords] /\ account.id = 1 /\ account.password = 1
    BY <2>1 DEF Init
  <2>4. mustChange = FALSE /\ verification = 0 /\ known = {1} /\ lost = {}
    BY DEF Init
  <2>5. QED
    BY <2>1, <2>2, <2>3, <2>4 DEF TypeOK
<1>3. IdsOK /\ ChosenIsKnown /\ PasswordIsKnown
  BY <1>1, IdleOK DEF Init, IdsOK, ChosenIsKnown, ChangeSteps, PasswordIsKnown
<1>4. QED
  BY <1>2, <1>3 DEF IInv

LEMMA NextIInv == ASSUME PasswordsAssumption PROVE IInv /\ [Next]_vars => IInv'
<1> SUFFICES ASSUME IInv, [Next]_vars PROVE IInv'
  OBVIOUS
<1>0. TypeOK /\ TablesOK /\ IdsOK /\ ChosenIsKnown /\ PasswordIsKnown
  BY DEF IInv, TypeOK, TablesOK
<1> USE DEF PasswordsAssumption
<1>1. ASSUME NEW r \in Requests, Reset(r) PROVE IInv'
  <2> DEFINE f == [Idle EXCEPT !.pc = "read", !.password = nextPassword]
  <2>1. FrameOK(f) /\ f.account = 0 /\ f.pc \notin ChangeSteps
    BY <1>0, <1>1 DEF Reset, FreshPassword, FrameOK, Idle, ResetSteps, ChangeSteps, IdsOK
  <2>2. req' = [req EXCEPT ![r] = f] /\ req[r].pc \notin Unmailed
    BY <1>1, IdleOK DEF Reset, Unmailed
  <2>3. nextPassword' \in Nat \ {0}
    BY <1>0, <1>1 DEF Reset, FreshPassword, IdsOK
  <2>4. TablesOK'
    BY <1>0, <1>1 DEF Reset, Stored, TablesOK
  <2>5. QED
    BY <1>1, <2>1, <2>2, <2>3, <2>4, HandlerStep DEF Reset, Stored
<1>2. ASSUME NEW r \in Requests, ReadAccount(r) PROVE IInv'
  <2>1. CASE Throw(r)
    BY <1>2, <2>1, Thrown DEF ReadAccount
  <2>2. CASE account.id # 0
    <3> DEFINE f == [req[r] EXCEPT !.pc = "update", !.account = account.id]
    <3>1. FrameOK(req[r]) /\ req[r].pc = "read"
      BY <1>0, <1>2 DEF TypeOK, ReadAccount, At
    <3>2. FrameOK(f) /\ f.account = account.id /\ f.pc \notin ChangeSteps
      BY <3>1, <2>2 DEF FrameOK, ResetSteps, ChangeSteps
    <3>3. req' = [req EXCEPT ![r] = f] /\ UNCHANGED lost /\ req[r].pc \notin Unmailed
      BY <1>2, <2>2, <3>1 DEF ReadAccount, Unmailed
    <3>4. TablesOK'
      BY <1>0, <1>2, <3>3 DEF ReadAccount, Stored, TablesOK
    <3>5. nextPassword' \in Nat \ {0}
      BY <1>0, <1>2 DEF ReadAccount, next, IdsOK
    <3>6. QED
      BY <1>2, <3>2, <3>3, <3>4, <3>5, HandlerStep DEF ReadAccount, Stored, next
  <2>3. QED
    BY <1>2, <2>1, <2>2 DEF ReadAccount
<1>3. ASSUME NEW r \in Requests, StoreReset(r) PROVE IInv'
  <2>1. FrameOK(req[r]) /\ req[r].pc = "update" /\ req[r].pc \notin Unmailed
    BY <1>0, <1>3 DEF TypeOK, StoreReset, At, Unmailed
  <2>2. CASE account.id = req[r].account
    <3> DEFINE f == [req[r] EXCEPT !.pc = "confirm"]
    <3>1. FrameOK(f) /\ f.account = req[r].account /\ f.pc = "confirm" /\ f.password = req[r].password
      BY <2>1 DEF FrameOK, ResetSteps, ChangeSteps
    <3>2. req[r].password \in 1..MaxPasswords /\ account.id # 0
      BY <2>1, <2>2 DEF FrameOK
    <3>3. account' = [account EXCEPT !.password = req[r].password] /\ mustChange' = TRUE
      BY <1>3, <2>2 DEF StoreReset, UpdatePassword
    <3>4. account'.id = account.id /\ account'.password = req[r].password
      BY <1>0, <3>3 DEF TablesOK
    <3>5. TablesOK'
      BY <1>0, <1>3, <3>2, <3>3 DEF StoreReset, TablesOK
    <3>6. req' = [req EXCEPT ![r] = f]
      BY <1>3, <2>2 DEF StoreReset, Goto
    <3>7. f.pc \in Unmailed /\ f.pc \notin ChangeSteps
      BY <3>1 DEF Unmailed, ChangeSteps
    <3>8. nextPassword' \in Nat \ {0}
      BY <1>0, <1>3 DEF StoreReset, next, IdsOK
    <3>9. QED
      BY <1>3, <2>1, <3>1, <3>4, <3>5, <3>6, <3>7, <3>8, HandlerStep DEF StoreReset, next
  <2>3. CASE account.id # req[r].account
    <3>1. TablesOK'
      BY <1>0, <1>3, <2>3 DEF StoreReset, UpdatePassword, Stored, TablesOK
    <3>2. QED
      BY <1>3, <2>1, <2>3, <3>1, Answered DEF StoreReset, UpdatePassword, Stored
  <2>4. QED
    BY <2>2, <2>3
<1>4. ASSUME NEW r \in Requests, ConfirmAccount(r) PROVE IInv'
  <2>1. CASE Throw(r)
    BY <1>4, <2>1, Thrown DEF ConfirmAccount
  <2>2. CASE ~Throw(r)
    <3> DEFINE f == [req[r] EXCEPT !.pc = "mail"]
    <3>1. FrameOK(req[r]) /\ req[r].pc = "confirm"
      BY <1>0, <1>4 DEF TypeOK, ConfirmAccount, At
    <3>2. /\ FrameOK(f) /\ f.account = req[r].account /\ f.password = req[r].password
          /\ f.pc \in Unmailed /\ f.pc \notin ChangeSteps
      BY <3>1 DEF FrameOK, ResetSteps, ChangeSteps, Unmailed
    <3>3. req' = [req EXCEPT ![r] = f] /\ UNCHANGED <<Stored, verification, next, known, lost>>
      BY <1>4, <2>2 DEF ConfirmAccount, Goto
    <3>4. TablesOK' /\ nextPassword' \in Nat \ {0}
      BY <1>0, <3>3 DEF Stored, next, TablesOK, IdsOK
    <3>5. QED
      BY <3>2, <3>3, <3>4, HandlerStep DEF Stored, next
  <2>3. QED
    BY <2>1, <2>2
<1>5. ASSUME NEW r \in Requests, Mail(r) PROVE IInv'
  <2>1. CASE Throw(r) /\ UNCHANGED known
    BY <1>5, <2>1, Thrown DEF Mail
  <2>2. CASE known' = known \cup {req[r].password} /\ Goto(r, "find") /\ UNCHANGED lost
    <3> DEFINE f == [req[r] EXCEPT !.pc = "find"]
    <3>1. FrameOK(req[r]) /\ req[r].pc = "mail"
      BY <1>0, <1>5 DEF TypeOK, Mail, At
    <3>2. FrameOK(f) /\ f.account = req[r].account /\ f.pc \notin ChangeSteps /\ req[r].password \in 1..MaxPasswords
      BY <3>1 DEF FrameOK, ResetSteps, ChangeSteps
    <3>3. req' = [req EXCEPT ![r] = f] /\ UNCHANGED <<Stored, verification, next>>
      BY <1>5, <2>2 DEF Mail, Goto
    <3>4. TablesOK' /\ nextPassword' \in Nat \ {0}
      BY <1>0, <2>2, <3>2, <3>3 DEF Stored, next, TablesOK, IdsOK
    <3>5. QED
      BY <2>2, <3>2, <3>3, <3>4, HandlerStep DEF Stored, next
  <2>3. QED
    BY <1>5, <2>1, <2>2 DEF Mail
<1>6. ASSUME NEW r \in Requests, FindVerification(r) PROVE IInv'
  <2>1. FrameOK(req[r]) /\ req[r].pc = "find" /\ req[r].pc \notin Unmailed
    BY <1>0, <1>6 DEF TypeOK, FindVerification, At, Unmailed
  <2>2. TablesOK' /\ nextPassword' \in Nat \ {0}
    BY <1>0, <1>6 DEF FindVerification, Stored, next, TablesOK, IdsOK
  <2>3. CASE verification = 0
    BY <1>6, <2>1, <2>2, <2>3, Answered DEF FindVerification, Stored
  <2>4. CASE verification # 0
    <3> DEFINE f == [req[r] EXCEPT !.pc = "delete", !.auth = verification]
    <3>1. FrameOK(f) /\ f.account = req[r].account /\ f.pc \notin ChangeSteps
      BY <2>1, <2>4 DEF FrameOK, ResetSteps, ChangeSteps
    <3>2. req' = [req EXCEPT ![r] = f]
      BY <1>6, <2>4 DEF FindVerification
    <3>3. QED
      BY <1>6, <2>1, <2>2, <3>1, <3>2, HandlerStep DEF FindVerification, Stored, next
  <2>5. QED
    BY <2>3, <2>4
<1>7. ASSUME NEW r \in Requests, DeleteVerification(r) PROVE IInv'
  <2>1. req[r].pc \notin Unmailed
    BY <1>7 DEF DeleteVerification, At, Unmailed
  <2>2. TablesOK'
    BY <1>0, <1>7 DEF DeleteVerification, Stored, TablesOK
  <2>3. QED
    BY <1>7, <2>1, <2>2, Answered DEF DeleteVerification, Stored
<1>8. ASSUME NEW r \in Requests, NEW p \in 1..MaxPasswords, Change(r, p) PROVE IInv'
  <2> DEFINE f == [Idle EXCEPT !.pc = "search", !.password = p]
  <2>1. FrameOK(f) /\ f.account = 0 /\ f.password = p
    BY DEF FrameOK, Idle, ResetSteps, ChangeSteps
  <2>2. req' = [req EXCEPT ![r] = f] /\ req[r].pc \notin Unmailed
    BY <1>8, IdleOK DEF Change, Unmailed
  <2>3. known' = known \cup {p} /\ nextPassword' \in Nat \ {0}
    BY <1>0, <1>8 DEF Change, Choose, FreshPassword, IdsOK
  <2>4. TablesOK'
    BY <1>0, <1>8, <2>3 DEF Change, Stored, TablesOK
  <2>5. f.password \in known' /\ known \subseteq known'
    BY <2>1, <2>3
  <2>6. QED
    BY <1>8, <2>1, <2>2, <2>3, <2>4, <2>5, HandlerStep DEF Change, Stored
<1>9. ASSUME NEW r \in Requests, SearchAccount(r) PROVE IInv'
  <2>1. FrameOK(req[r]) /\ req[r].pc = "search" /\ req[r].pc \notin Unmailed
    BY <1>0, <1>9 DEF TypeOK, SearchAccount, At, Unmailed
  <2>2. TablesOK' /\ nextPassword' \in Nat \ {0}
    BY <1>0, <1>9 DEF SearchAccount, Stored, next, TablesOK, IdsOK
  <2>3. CASE account.id = 0
    BY <1>9, <2>1, <2>2, <2>3, Answered DEF SearchAccount, Stored
  <2>4. CASE account.id # 0
    <3> DEFINE f == [req[r] EXCEPT !.pc = "change", !.account = account.id]
    <3>1. FrameOK(f) /\ f.account = account.id /\ f.password = req[r].password
      BY <2>1, <2>4 DEF FrameOK, ResetSteps, ChangeSteps
    <3>2. req' = [req EXCEPT ![r] = f] /\ req[r].password \in known
      BY <1>0, <1>9, <2>1, <2>4 DEF SearchAccount, ChosenIsKnown, ChangeSteps
    <3>3. f.password \in known'
      BY <1>9, <3>1, <3>2 DEF SearchAccount
    <3>4. QED
      BY <1>9, <2>1, <2>2, <3>1, <3>2, <3>3, HandlerStep DEF SearchAccount, Stored, next
  <2>5. QED
    BY <2>3, <2>4
<1>10. ASSUME NEW r \in Requests, StoreChange(r) PROVE IInv'
  <2>1. FrameOK(req[r]) /\ req[r].pc = "change" /\ req[r].pc \notin Unmailed
    BY <1>0, <1>10 DEF TypeOK, StoreChange, At, Unmailed
  <2>2. req[r].password \in 1..MaxPasswords /\ req[r].account # 0 /\ req[r].password \in known
    BY <1>0, <2>1 DEF FrameOK, ChosenIsKnown, ChangeSteps
  <2>3. /\ account' \in {account, [account EXCEPT !.password = req[r].password]}
        /\ account' # account => account.id = req[r].account
        /\ mustChange' \in {mustChange, TRUE}
    BY <1>10 DEF StoreChange, UpdatePassword, Stored
  <2>4. account'.id = account.id /\ account'.password \in {account.password, req[r].password}
    BY <1>0, <2>3 DEF TablesOK
  <2>5. TablesOK'
    <3>1. account' \in [id: 0..MaxAccounts, password: 0..MaxPasswords]
      BY <1>0, <2>2, <2>3 DEF TablesOK
    <3>2. account'.id = 0 <=> account'.password = 0
      BY <1>0, <2>2, <2>3, <2>4 DEF TablesOK
    <3>3. mustChange' \in BOOLEAN /\ UNCHANGED <<verification, known, lost>>
      BY <1>0, <1>10, <2>3 DEF StoreChange, TablesOK
    <3>4. QED
      BY <1>0, <3>1, <3>2, <3>3 DEF TablesOK
  <2>6. QED
    BY <1>10, <2>1, <2>2, <2>4, <2>5, Answered DEF StoreChange
<1>11. ASSUME NEW r \in Requests, Abort(r) PROVE IInv'
  BY <1>11, Thrown DEF Abort
<1>12. ASSUME UNCHANGED <<account, known, lost, req>>, TablesOK', IdsOK' PROVE IInv'
  BY <1>0, <1>12 DEF IInv, TypeOK, TablesOK, ChosenIsKnown, PasswordIsKnown
<1>13. CASE BeginVerification
  <2>1. nextVerification \in 0..MaxVerifications /\ nextVerification' \in Nat \ {0}
    BY <1>0, <1>13 DEF BeginVerification, IdsOK
  <2>2. UNCHANGED <<account, mustChange, nextPassword, nextAccount, known, lost, req>>
    BY <1>13 DEF BeginVerification, Stored
  <2>3. TablesOK' /\ IdsOK'
    BY <1>0, <1>13, <2>1, <2>2 DEF BeginVerification, TablesOK, IdsOK
  <2>4. QED
    BY <1>12, <2>2, <2>3
<1>14. CASE Withdraw
  <2>1. account' = [id |-> 0, password |-> 0] /\ mustChange' = FALSE /\ UNCHANGED <<verification, next, known, lost, req>>
    BY <1>14 DEF Withdraw
  <2>2. 0 \in 0..MaxAccounts /\ 0 \in 0..MaxPasswords
    OBVIOUS
  <2>3. TypeOK'
    BY <1>0, <2>1, <2>2 DEF TypeOK
  <2>4. IdsOK' /\ ChosenIsKnown' /\ PasswordIsKnown'
    BY <1>0, <2>1 DEF next, IdsOK, ChosenIsKnown, PasswordIsKnown
  <2>5. QED
    BY <2>3, <2>4 DEF IInv
<1>15. ASSUME NEW p \in 1..MaxPasswords, Register(p) PROVE IInv'
  <2>1. /\ account' = [id |-> nextAccount, password |-> p] /\ mustChange' = FALSE
        /\ UNCHANGED <<verification, nextVerification, lost, req>>
        /\ known' = known \cup {p} /\ nextPassword' \in Nat \ {0}
    BY <1>0, <1>15 DEF Register, Choose, FreshPassword, IdsOK
  <2>2. nextAccount \in 1..MaxAccounts /\ nextAccount' = nextAccount + 1
    BY <1>0, <1>15 DEF Register, IdsOK
  <2>3. TypeOK'
    <3>1. account' \in [id: 0..MaxAccounts, password: 0..MaxPasswords] /\ account'.id # 0 /\ account'.password # 0
      BY <2>1, <2>2
    <3>2. known' \subseteq 1..MaxPasswords
      BY <1>0, <2>1 DEF TypeOK
    <3>3. mustChange' \in BOOLEAN /\ UNCHANGED <<verification, lost, req>>
      BY <2>1
    <3>4. QED
      BY <1>0, <3>1, <3>2, <3>3 DEF TypeOK
  <2>4. IdsOK'
    BY <1>0, <2>1, <2>2 DEF IdsOK
  <2>5. ChosenIsKnown' /\ PasswordIsKnown'
    BY <1>0, <2>1 DEF ChosenIsKnown, PasswordIsKnown
  <2>6. QED
    BY <2>3, <2>4, <2>5 DEF IInv
<1>16. CASE UNCHANGED vars
  <2>1. UNCHANGED <<account, mustChange, verification, nextPassword, nextAccount, nextVerification, known, lost, req>>
    BY <1>16 DEF vars, next
  <2>2. TablesOK' /\ IdsOK'
    BY <1>0, <2>1 DEF TablesOK, IdsOK
  <2>3. QED
    BY <1>12, <2>1, <2>2
<1>17. QED
  BY <1>1, <1>2, <1>3, <1>4, <1>5, <1>6, <1>7, <1>8, <1>9, <1>10, <1>11, <1>13, <1>14, <1>15, <1>16
     DEF Next, Work

-----------------------------------------------------------------------------
(* Results                                                                 *)

(* What every handler of the address may rely on.                          *)
THEOREM InductiveInvariant == ASSUME PasswordsAssumption PROVE Spec => []IInv
BY InitIInv, NextIInv, PTL DEF Spec

(* The row, the verification and every handler keep their types.           *)
THEOREM TypeCorrect == ASSUME PasswordsAssumption PROVE Spec => []TypeOK
<1>1. IInv => TypeOK
  BY DEF IInv
<1>2. QED
  BY InductiveInvariant, <1>1, PTL

(* However many resets, changes and registrations race, a member is locked *)
(* out only by a reset that stored its password and failed to mail it.     *)
THEOREM PasswordIsKnownHolds == ASSUME PasswordsAssumption PROVE Spec => []PasswordIsKnown
<1>1. IInv => PasswordIsKnown
  BY DEF IInv
<1>2. QED
  BY InductiveInvariant, <1>1, PTL

(* A password is changed by a handler that read the account it is of ...   *)
THEOREM PasswordStaysWithItsAccountHolds ==
  ASSUME PasswordsAssumption PROVE Spec => PasswordStaysWithItsAccount
<1> DEFINE Stays == account'.id = account.id /\ account'.password # account.password =>
             \E r \in Requests : (At(r, "update") \/ At(r, "change")) /\ req[r].account = account.id
<1>1. IInv /\ [Next]_vars => [Stays]_vars
  <2> SUFFICES ASSUME IInv, [Next]_vars, account' # account, account'.id = account.id
               PROVE  \E r \in Requests : (At(r, "update") \/ At(r, "change")) /\ req[r].account = account.id
    OBVIOUS
  <2>1. CASE \E r \in Requests : StoreReset(r)
    BY <2>1 DEF StoreReset, UpdatePassword, Stored
  <2>2. CASE \E r \in Requests : StoreChange(r)
    BY <2>2 DEF StoreChange, UpdatePassword, Stored
  <2>3. ASSUME NEW p \in 1..MaxPasswords, Register(p) PROVE FALSE
    BY <2>3 DEF Register, IInv, IdsOK
  <2>4. CASE Withdraw
    BY <2>4 DEF Withdraw
  <2>5. ASSUME NEW r \in Requests,
               \/ Reset(r) \/ ReadAccount(r) \/ ConfirmAccount(r) \/ Mail(r) \/ FindVerification(r)
               \/ DeleteVerification(r) \/ SearchAccount(r) \/ Abort(r)
               \/ \E p \in 1..MaxPasswords : Change(r, p)
        PROVE  FALSE
    BY <2>5 DEF Reset, ReadAccount, ConfirmAccount, Mail, FindVerification, DeleteVerification,
                SearchAccount, Abort, Change, Stored
  <2>6. CASE BeginVerification \/ UNCHANGED vars
    BY <2>6 DEF BeginVerification, Stored, vars
  <2>7. QED
    BY <2>1, <2>2, <2>3, <2>4, <2>5, <2>6 DEF Next, Work
<1>2. QED
  BY InductiveInvariant, <1>1, PTL DEF Spec, PasswordStaysWithItsAccount

(* ... and not by one that read an account of the address that is gone: no *)
(* handler holds the id of an account registered later.                    *)
THEOREM NewAccountIsUnread ==
  ASSUME PasswordsAssumption
  PROVE  Spec => [][account'.id \notin {0, account.id} => \A r \in Requests : req'[r].account # account'.id]_vars
<1> DEFINE Unread == account'.id \notin {0, account.id} => \A r \in Requests : req'[r].account # account'.id
<1>1. IInv /\ [Next]_vars => [Unread]_vars
  <2> SUFFICES ASSUME IInv, Next, account'.id \notin {0, account.id}
               PROVE  \A r \in Requests : req'[r].account # account'.id
    OBVIOUS
  <2>1. ASSUME NEW p \in 1..MaxPasswords, Register(p)
        PROVE  \A r \in Requests : req'[r].account # account'.id
    BY <2>1 DEF Register, IInv, IdsOK
  <2>2. ASSUME NEW r \in Requests, StoreReset(r) \/ StoreChange(r) PROVE FALSE
    BY <2>2 DEF StoreReset, StoreChange, UpdatePassword, Stored, IInv, TypeOK
  <2>3. CASE Withdraw \/ BeginVerification
    BY <2>3 DEF Withdraw, BeginVerification, Stored
  <2>4. ASSUME NEW r \in Requests,
               \/ Reset(r) \/ ReadAccount(r) \/ ConfirmAccount(r) \/ Mail(r) \/ FindVerification(r)
               \/ DeleteVerification(r) \/ SearchAccount(r) \/ Abort(r)
               \/ \E p \in 1..MaxPasswords : Change(r, p)
        PROVE  FALSE
    BY <2>4 DEF Reset, ReadAccount, ConfirmAccount, Mail, FindVerification, DeleteVerification,
                SearchAccount, Abort, Change, Stored
  <2>5. QED
    BY <2>1, <2>2, <2>3, <2>4 DEF Next, Work
<1>2. QED
  BY InductiveInvariant, <1>1, PTL DEF Spec
=============================================================================
