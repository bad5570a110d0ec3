------------------------- MODULE Verification_proofs -------------------------
(***************************************************************************)
(* Type correctness of Verification, and its main property: an id that     *)
(* finish returned is good for as long as its row exists.                  *)
(***************************************************************************)
EXTENDS Verification, TLAPS

(* Ids come from an autoincrement: those in the table are below its next   *)
(* value and belong to one row each.                                       *)
RowIds ==
  /\ \A k \in Keys : auths[k].id < nextAuth
  /\ \A k, j \in Keys : auths[k].id = auths[j].id /\ auths[k].id # NoId => k = j

(* What finish returned was handed out before, and the row, while it is    *)
(* there, is the verified one.                                             *)
IssuedIds ==
  /\ \A p \in issued : p[2] # NoId /\ p[2] < nextAuth
  /\ IssuedIsDone

(* A handler that holds the id of a row read it under the key it works on; *)
(* a row past its mark is DONE.                                            *)
HeldIds ==
  \A r \in Requests : req[r] # Idle =>
    /\ req[r].auth < nextAuth
    /\ req[r].pc \in {"mark", "sync"} => req[r].auth # NoId
    /\ \A k \in Keys : auths[k].id = req[r].auth /\ req[r].auth # NoId =>
         /\ k = req[r].key
         /\ req[r].pc = "sync" => auths[k].done

IInv == TypeOK /\ RowIds /\ IssuedIds /\ HeldIds

-----------------------------------------------------------------------------

LEMMA IdleOK == FrameOK(Idle)
BY DEF FrameOK, Frames, Idle, NoId, NoUser, BeginSteps

(* A step of one handler keeps the type of req when its new frame is fine. *)
LEMMA FrameChange ==
  ASSUME TypeOK, NEW r \in Requests, NEW f, FrameOK(f), req' = [req EXCEPT ![r] = f]
  PROVE  req' \in [Requests -> Frames] /\ \A q \in Requests : FrameOK(req'[q])
BY DEF TypeOK, FrameOK

LEMMA InitIInv == Init => IInv
<1> SUFFICES ASSUME Init PROVE IInv
  OBVIOUS
<1>1. TypeOK
  <2>1. TablesOK
    BY DEF Init, RowsInit, TablesOK, RowsTypeOK, Rows, NoRow, NoId, NoUser
  <2>2. QED
    BY <2>1, IdleOK DEF Init, TypeOK, FrameOK
<1>2. RowIds /\ IssuedIds /\ HeldIds
  BY DEF Init, RowsInit, RowIds, IssuedIds, IssuedIsDone, HeldIds, NoRow, NoId, NoUser, Idle
<1>3. QED
  BY <1>1, <1>2 DEF IInv

(* Type correctness of every step: the tables, then the frame that changes. *)
LEMMA TypeStep == ASSUME VerificationAssumption PROVE TypeOK /\ [Next]_vars => TypeOK'
<1> SUFFICES ASSUME TypeOK, [Next]_vars PROVE TypeOK'
  OBVIOUS
<1> USE IdleOK
<1>1. ASSUME NEW r \in Requests, NEW k \in Keys, NEW c \in Codes, NEW taken \in BOOLEAN, Begin(r, k, c, taken)
      PROVE TypeOK'
  <2>1. FrameOK(req[r]) /\ req[r] \in Frames
    BY DEF TypeOK
  <2>2. FrameOK([pc |-> "mail", key |-> k, code |-> c, auth |-> NoId, user |-> NoUser])
    BY <1>1, <2>1 DEF FrameOK, Frames, BeginSteps, NoId, NoUser
  <2>3. req' \in [Requests -> Frames] /\ \A q \in Requests : FrameOK(req'[q])
    BY <1>1, <2>2, FrameChange DEF Begin, Goto, Respond
  <2>4. TablesOK'
    BY <1>1, <2>1 DEF Begin, Tables, TypeOK, TablesOK, RowsTypeOK
  <2>5. QED
    BY <2>3, <2>4 DEF TypeOK
<1>2. ASSUME NEW r \in Requests, SendCode(r)
      PROVE TypeOK'
  <2>1. FrameOK(req[r]) /\ req[r] \in Frames
    BY DEF TypeOK
  <2>2. FrameOK([req[r] EXCEPT !.pc = "find"])
    BY <1>2, <2>1 DEF FrameOK, SendCode, At, Frames, BeginSteps, FinishSteps, ResetSteps, TypeOK, TablesOK, RowsTypeOK, Rows, Idle
  <2>3. req' \in [Requests -> Frames] /\ \A q \in Requests : FrameOK(req'[q])
    BY <1>2, <2>2, FrameChange DEF SendCode, Goto, Respond
  <2>4. TablesOK'
    BY <1>2, <2>1 DEF SendCode, Tables, TypeOK, TablesOK, RowsTypeOK
  <2>5. QED
    BY <2>3, <2>4 DEF TypeOK
<1>3. ASSUME NEW r \in Requests, FindOld(r)
      PROVE TypeOK'
  <2>1. FrameOK(req[r]) /\ req[r] \in Frames
    BY DEF TypeOK
  <2>2. FrameOK([req[r] EXCEPT !.pc = "create"])
    BY <1>3, <2>1 DEF FrameOK, FindOld, At, Frames, BeginSteps, FinishSteps, ResetSteps, TypeOK, TablesOK, RowsTypeOK, Rows, Idle
  <2>3. FrameOK([req[r] EXCEPT !.pc = "delete", !.auth = auths[req[r].key].id])
    BY <1>3, <2>1 DEF FrameOK, FindOld, At, Frames, BeginSteps, FinishSteps, ResetSteps, TypeOK, TablesOK, RowsTypeOK, Rows, Idle
  <2>4. req' \in [Requests -> Frames] /\ \A q \in Requests : FrameOK(req'[q])
    BY <1>3, <2>2, <2>3, FrameChange DEF FindOld, Goto, Respond
  <2>5. TablesOK'
    BY <1>3, <2>1 DEF FindOld, Tables, TypeOK, TablesOK, RowsTypeOK
  <2>6. QED
    BY <2>4, <2>5 DEF TypeOK
<1>4. ASSUME NEW r \in Requests, DeleteOld(r)
      PROVE TypeOK'
  <2>1. FrameOK(req[r]) /\ req[r] \in Frames
    BY DEF TypeOK
  <2>2. FrameOK([req[r] EXCEPT !.pc = "create"])
    BY <1>4, <2>1 DEF FrameOK, DeleteOld, At, Frames, BeginSteps, FinishSteps, ResetSteps, TypeOK, TablesOK, RowsTypeOK, Rows, Idle
  <2>3. req' \in [Requests -> Frames] /\ \A q \in Requests : FrameOK(req'[q])
    BY <1>4, <2>2, FrameChange DEF DeleteOld, Goto, Respond
  <2>4. TablesOK'
    BY <1>4, <2>1 DEF DeleteOld, DeleteById, Rows, NoRow, NoId, NoUser, TypeOK, TablesOK, RowsTypeOK
  <2>5. QED
    BY <2>3, <2>4 DEF TypeOK
<1>5. ASSUME NEW r \in Requests, CreateRow(r)
      PROVE TypeOK'
  <2>1. FrameOK(req[r]) /\ req[r] \in Frames
    BY DEF TypeOK
  <2>2. FrameOK([req[r] EXCEPT !.pc = "history"])
    BY <1>5, <2>1 DEF FrameOK, CreateRow, At, Frames, BeginSteps, FinishSteps, ResetSteps, TypeOK, TablesOK, RowsTypeOK, Rows, Idle
  <2>3. req' \in [Requests -> Frames] /\ \A q \in Requests : FrameOK(req'[q])
    BY <1>5, <2>2, FrameChange DEF CreateRow, Goto, Respond
  <2>4. TablesOK'
    <3>1. req[r].key \in Keys /\ req[r].auth \in Nat
      BY <1>5, <2>1 DEF CreateRow, At, FrameOK, Frames, Idle
    <3>2. auths' \in [Keys -> Rows]
      BY <1>5, <3>1 DEF CreateRow, InsertRow, TypeOK, TablesOK, RowsTypeOK, Rows, NoId, NoUser
    <3>3. issued' \subseteq Keys \X Nat
      BY <1>5, <3>1 DEF CreateRow, TypeOK, TablesOK, RowsTypeOK
    <3>4. QED
      BY <1>5, <3>2, <3>3 DEF CreateRow, InsertRow, TypeOK, TablesOK, RowsTypeOK
  <2>5. QED
    BY <2>3, <2>4 DEF TypeOK
<1>6. ASSUME NEW r \in Requests, CreateRowFails(r)
      PROVE TypeOK'
  <2>1. FrameOK(req[r]) /\ req[r] \in Frames
    BY DEF TypeOK
  <2>2. req' \in [Requests -> Frames] /\ \A q \in Requests : FrameOK(req'[q])
    BY <1>6, FrameChange DEF CreateRowFails, Goto, Respond
  <2>3. TablesOK'
    BY <1>6, <2>1 DEF CreateRowFails, Tables, TypeOK, TablesOK, RowsTypeOK
  <2>4. QED
    BY <2>2, <2>3 DEF TypeOK
<1>7. ASSUME NEW r \in Requests, CreateHistory(r)
      PROVE TypeOK'
  <2>1. FrameOK(req[r]) /\ req[r] \in Frames
    BY DEF TypeOK
  <2>2. req' \in [Requests -> Frames] /\ \A q \in Requests : FrameOK(req'[q])
    BY <1>7, FrameChange DEF CreateHistory, Goto, Respond
  <2>3. [key |-> req[r].key, code |-> req[r].code, expiredAt |-> now + Lifetime] \in Histories
    BY <1>7, <2>1 DEF VerificationAssumption, CreateHistory, At, FrameOK, Idle, BeginSteps, Histories, TypeOK, TablesOK, RowsTypeOK
  <2>4. TablesOK'
    BY <1>7, <2>3 DEF CreateHistory, TypeOK, TablesOK, RowsTypeOK
  <2>5. QED
    BY <2>2, <2>4 DEF TypeOK
<1>8. ASSUME NEW r \in Requests, NEW h \in 0..MaxHistories, NEW c \in Codes \cup {NoCode}, NEW u \in Users \cup {NoUser}, Finish(r, h, c, u)
      PROVE TypeOK'
  <2>1. FrameOK(req[r]) /\ req[r] \in Frames
    BY DEF TypeOK
  <2>2. Valid(h, c) => FrameOK([pc |-> "lookup", key |-> histories[h].key, code |-> NoCode,
                                auth |-> NoId, user |-> u])
    <3>1. Valid(h, c) => histories[h] \in Histories
      BY DEF Valid, TypeOK, TablesOK, RowsTypeOK
    <3>2. QED
      BY <3>1 DEF FrameOK, Histories, Frames, BeginSteps, FinishSteps, NoId, NoUser
  <2>3. req' \in [Requests -> Frames] /\ \A q \in Requests : FrameOK(req'[q])
    BY <1>8, <2>2, FrameChange DEF Finish, Goto, Respond
  <2>4. TablesOK'
    BY <1>8, <2>1 DEF Finish, Tables, TypeOK, TablesOK, RowsTypeOK
  <2>5. QED
    BY <2>3, <2>4 DEF TypeOK
<1>9. ASSUME NEW r \in Requests, LookupRow(r)
      PROVE TypeOK'
  <2>1. FrameOK(req[r]) /\ req[r] \in Frames
    BY DEF TypeOK
  <2>2. FrameOK([req[r] EXCEPT !.pc = "mark", !.auth = auths[req[r].key].id])
    BY <1>9, <2>1 DEF FrameOK, LookupRow, At, Frames, BeginSteps, FinishSteps, ResetSteps, TypeOK, TablesOK, RowsTypeOK, Rows, Idle
  <2>3. req' \in [Requests -> Frames] /\ \A q \in Requests : FrameOK(req'[q])
    BY <1>9, <2>2, FrameChange DEF LookupRow, Goto, Respond
  <2>4. TablesOK'
    BY <1>9, <2>1 DEF LookupRow, Tables, TypeOK, TablesOK, RowsTypeOK
  <2>5. QED
    BY <2>3, <2>4 DEF TypeOK
<1>10. ASSUME NEW r \in Requests, MarkRow(r)
      PROVE TypeOK'
  <2>1. FrameOK(req[r]) /\ req[r] \in Frames
    BY DEF TypeOK
  <2>2. req[r].user # NoUser => FrameOK([req[r] EXCEPT !.pc = "sync"])
    BY <1>10, <2>1 DEF FrameOK, MarkRow, At, Frames, BeginSteps, FinishSteps, ResetSteps, TypeOK, TablesOK, RowsTypeOK, Rows, Idle
  <2>3. req' \in [Requests -> Frames] /\ \A q \in Requests : FrameOK(req'[q])
    BY <1>10, <2>2, FrameChange DEF MarkRow, Goto, Respond
  <2>4. TablesOK'
    <3>1. req[r].key \in Keys /\ req[r].auth \in Nat
      BY <1>10, <2>1 DEF MarkRow, At, FrameOK, Frames, Idle
    <3>2. auths' \in [Keys -> Rows]
      BY <1>10, <3>1 DEF MarkRow, SetDone, TypeOK, TablesOK, RowsTypeOK, Rows, NoId, NoUser
    <3>3. issued' \subseteq Keys \X Nat
      BY <1>10, <3>1 DEF MarkRow, TypeOK, TablesOK, RowsTypeOK
    <3>4. QED
      BY <1>10, <3>2, <3>3 DEF MarkRow, SetDone, TypeOK, TablesOK, RowsTypeOK
  <2>5. QED
    BY <2>3, <2>4 DEF TypeOK
<1>11. ASSUME NEW r \in Requests, BindUser(r)
      PROVE TypeOK'
  <2>1. FrameOK(req[r]) /\ req[r] \in Frames
    BY DEF TypeOK
  <2>2. req' \in [Requests -> Frames] /\ \A q \in Requests : FrameOK(req'[q])
    BY <1>11, FrameChange DEF BindUser, Goto, Respond
  <2>3. TablesOK'
    <3>1. req[r].key \in Keys /\ req[r].auth \in Nat /\ req[r].user \in Users
      BY <1>11, <2>1 DEF BindUser, At, FrameOK, Frames, Idle
    <3>2. auths' \in [Keys -> Rows]
      BY <1>11, <3>1 DEF BindUser, SetUser, TypeOK, TablesOK, RowsTypeOK, Rows
    <3>3. issued' \subseteq Keys \X Nat
      BY <1>11, <3>1 DEF BindUser, TypeOK, TablesOK, RowsTypeOK
    <3>4. QED
      BY <1>11, <3>2, <3>3 DEF BindUser, TypeOK, TablesOK, RowsTypeOK
  <2>4. QED
    BY <2>2, <2>3 DEF TypeOK
<1>12. ASSUME NEW r \in Requests, UpdateFails(r)
      PROVE TypeOK'
  <2>1. FrameOK(req[r]) /\ req[r] \in Frames
    BY DEF TypeOK
  <2>2. req' \in [Requests -> Frames] /\ \A q \in Requests : FrameOK(req'[q])
    BY <1>12, FrameChange DEF UpdateFails, Goto, Respond
  <2>3. TablesOK'
    BY <1>12, <2>1 DEF UpdateFails, Tables, TypeOK, TablesOK, RowsTypeOK
  <2>4. QED
    BY <2>2, <2>3 DEF TypeOK
<1>13. ASSUME NEW r \in Requests, NEW k \in Keys, Reset(r, k)
      PROVE TypeOK'
  <2>1. FrameOK(req[r]) /\ req[r] \in Frames
    BY DEF TypeOK
  <2>2. FrameOK([pc |-> "resetFind", key |-> k, code |-> NoCode, auth |-> NoId, user |-> NoUser])
    BY <1>13, <2>1 DEF FrameOK, Frames, BeginSteps, ResetSteps, NoId, NoUser
  <2>3. req' \in [Requests -> Frames] /\ \A q \in Requests : FrameOK(req'[q])
    BY <1>13, <2>2, FrameChange DEF Reset, Goto, Respond
  <2>4. TablesOK'
    BY <1>13, <2>1 DEF Reset, Tables, TypeOK, TablesOK, RowsTypeOK
  <2>5. QED
    BY <2>3, <2>4 DEF TypeOK
<1>14. ASSUME NEW r \in Requests, ResetFind(r)
      PROVE TypeOK'
  <2>1. FrameOK(req[r]) /\ req[r] \in Frames
    BY DEF TypeOK
  <2>2. FrameOK([req[r] EXCEPT !.pc = "resetDelete", !.auth = auths[req[r].key].id])
    BY <1>14, <2>1 DEF FrameOK, ResetFind, At, Frames, BeginSteps, FinishSteps, ResetSteps, TypeOK, TablesOK, RowsTypeOK, Rows, Idle
  <2>3. req' \in [Requests -> Frames] /\ \A q \in Requests : FrameOK(req'[q])
    BY <1>14, <2>2, FrameChange DEF ResetFind, Goto, Respond
  <2>4. TablesOK'
    BY <1>14, <2>1 DEF ResetFind, Tables, TypeOK, TablesOK, RowsTypeOK
  <2>5. QED
    BY <2>3, <2>4 DEF TypeOK
<1>15. ASSUME NEW r \in Requests, ResetDelete(r)
      PROVE TypeOK'
  <2>1. FrameOK(req[r]) /\ req[r] \in Frames
    BY DEF TypeOK
  <2>2. req' \in [Requests -> Frames] /\ \A q \in Requests : FrameOK(req'[q])
    BY <1>15, FrameChange DEF ResetDelete, Goto, Respond
  <2>3. TablesOK'
    BY <1>15, <2>1 DEF ResetDelete, DeleteById, Rows, NoRow, NoId, NoUser, TypeOK, TablesOK, RowsTypeOK
  <2>4. QED
    BY <2>2, <2>3 DEF TypeOK
<1>16. ASSUME NEW u \in Users, RemoveAll(u) PROVE TypeOK'
  BY <1>16 DEF RemoveAll, DeleteByUser, TypeOK, TablesOK, RowsTypeOK, Rows, NoRow, NoId, NoUser
<1>17. ASSUME NEW r \in Requests, Abort(r) PROVE TypeOK'
  BY <1>17, FrameChange DEF Abort, Respond, Tables, TypeOK, TablesOK, RowsTypeOK
<1>18. CASE Tick
  BY <1>18 DEF Tick, Tables, TypeOK, TablesOK, RowsTypeOK
<1>19. CASE UNCHANGED vars
  BY <1>19 DEF vars, TypeOK, TablesOK, RowsTypeOK
<1>20. QED
  BY <1>1, <1>2, <1>3, <1>4, <1>5, <1>6, <1>7, <1>8, <1>9, <1>10, <1>11, <1>12, <1>13,
     <1>14, <1>15, <1>16, <1>17, <1>18, <1>19 DEF Next, Work

(* A step of one request that writes no row: it holds the id it held, or   *)
(* the id of the row it has just read.                                      *)
LEMMA HeldFromRow ==
  ASSUME TypeOK, RowIds, HeldIds, NEW r \in Requests, UNCHANGED <<auths, nextAuth>>,
         \A q \in Requests \ {r} : req'[q] = req[q],
         req[r] # Idle, req[r].key \in Keys,
         \/ req'[r] = Idle
         \/ /\ req'[r].pc # "sync" /\ req'[r].key = req[r].key
            /\ \/ req'[r].pc # "mark" /\ req'[r].auth = req[r].auth
               \/ /\ req'[r].auth = auths[req[r].key].id
                  /\ req'[r].pc = "mark" => auths[req[r].key].id # NoId
  PROVE  HeldIds'
<1> DEFINE Held(f) == /\ f.auth < nextAuth
                      /\ f.pc \in {"mark", "sync"} => f.auth # NoId
                      /\ \A k \in Keys : auths[k].id = f.auth /\ f.auth # NoId =>
                           /\ k = f.key
                           /\ f.pc = "sync" => auths[k].done
<1>1. \A q \in Requests : req[q] # Idle => Held(req[q])
  BY DEF HeldIds
<1>2. ASSUME NEW q \in Requests, req'[q] # Idle PROVE Held(req'[q])
  <2>1. CASE q # r
    BY <1>1, <1>2, <2>1
  <2>2. CASE q = r
    <3>1. CASE req'[r].auth = req[r].auth /\ req'[r].pc \notin {"mark", "sync"} /\ req'[r].key = req[r].key
      BY <1>1, <2>2, <3>1
    <3>2. CASE /\ req'[r].auth = auths[req[r].key].id /\ req'[r].pc # "sync" /\ req'[r].key = req[r].key
               /\ req'[r].pc = "mark" => auths[req[r].key].id # NoId
      BY <2>2, <3>2 DEF RowIds
    <3>3. QED
      BY <1>2, <2>2, <3>1, <3>2
  <2>3. QED
    BY <2>1, <2>2
<1>3. QED
  BY <1>2 DEF HeldIds

LEMMA NextIInv == ASSUME VerificationAssumption PROVE IInv /\ [Next]_vars => IInv'
<1> SUFFICES ASSUME IInv, [Next]_vars PROVE IInv'
  OBVIOUS
<1>0. TypeOK /\ TypeOK' /\ RowIds /\ IssuedIds /\ HeldIds
  BY TypeStep DEF IInv
<1> DEFINE Ids == RowIds /\ IssuedIds /\ HeldIds
<1>1. ASSUME NEW r \in Requests, NEW k \in Keys, NEW c \in Codes, NEW taken \in BOOLEAN, Begin(r, k, c, taken)
      PROVE Ids'
  <2>1. RowIds' /\ IssuedIds'
    BY <1>0, <1>1 DEF Begin, Tables, NoRow, RowIds, IssuedIds, IssuedIsDone
  <2>2. HeldIds'
    BY <1>0, <1>1 DEF Begin, At, Goto, Respond, Idle, NoId, NoRow, Tables, HeldIds, RowIds, TypeOK, TablesOK, RowsTypeOK, Rows
  <2>3. QED
    BY <2>1, <2>2
<1>2. ASSUME NEW r \in Requests, SendCode(r)
      PROVE Ids'
  <2>1. /\ \A q \in Requests \ {r} : req'[q] = req[q]
       /\ \/ req'[r] = Idle
          \/ req'[r].pc = "find" /\ req'[r].key = req[r].key /\ req'[r].auth = req[r].auth
    BY <1>0, <1>2 DEF SendCode, Goto, Respond, TypeOK, FrameOK, Frames
  <2>2. req[r] # Idle /\ req[r].pc # "sync" /\ req[r].key \in Keys /\ req[r].auth \in Nat
    BY <1>0, <1>2 DEF SendCode, At, Idle, TypeOK, FrameOK, Frames
  <2>3. RowIds' /\ IssuedIds'
    BY <1>0, <1>2 DEF SendCode, Tables, NoRow, RowIds, IssuedIds, IssuedIsDone
  <2>4. HeldIds'
    BY <1>0, <1>2, <2>1, <2>2 DEF SendCode, Tables, HeldIds, RowIds, Idle, NoId, Absent, TypeOK, TablesOK, RowsTypeOK, Rows
  <2>5. QED
    BY <2>3, <2>4
<1>3. ASSUME NEW r \in Requests, FindOld(r)
      PROVE Ids'
  <2>1. /\ \A q \in Requests \ {r} : req'[q] = req[q]
       /\ \/ req'[r].pc = "create" /\ req'[r].key = req[r].key /\ req'[r].auth = req[r].auth
          \/ req'[r].pc = "delete" /\ req'[r].key = req[r].key /\ req'[r].auth = auths[req[r].key].id
    BY <1>0, <1>3 DEF FindOld, Goto, Respond, TypeOK, FrameOK, Frames
  <2>2. req[r] # Idle /\ req[r].pc # "sync" /\ req[r].key \in Keys /\ req[r].auth \in Nat
    BY <1>0, <1>3 DEF FindOld, At, Idle, TypeOK, FrameOK, Frames
  <2>3. RowIds' /\ IssuedIds'
    BY <1>0, <1>3 DEF FindOld, Tables, NoRow, RowIds, IssuedIds, IssuedIsDone
  <2>4. UNCHANGED <<auths, nextAuth>>
    BY <1>3 DEF FindOld, Tables
  <2>5. HeldIds'
    BY <1>0, <2>1, <2>2, <2>4, HeldFromRow
  <2>6. QED
    BY <2>3, <2>5
<1>4. ASSUME NEW r \in Requests, DeleteOld(r)
      PROVE Ids'
  <2>1. RowIds'
    BY <1>0, <1>4 DEF DeleteOld, DeleteById, At, Idle, HeldIds, NoRow, NoId, RowIds, TypeOK, TablesOK, RowsTypeOK, Rows
  <2>2. IssuedIds'
    BY <1>0, <1>4 DEF DeleteOld, DeleteById, At, Idle, NoId, NoRow, IssuedIds, IssuedIsDone, RowIds, HeldIds, TypeOK, TablesOK, RowsTypeOK, Rows
  <2>3. HeldIds'
    BY <1>0, <1>4 DEF DeleteOld, DeleteById, At, Goto, Respond, Idle, NoId, NoRow, HeldIds, RowIds, TypeOK, TablesOK, RowsTypeOK, Rows
  <2>4. QED
    BY <2>1, <2>2, <2>3
<1>5. ASSUME NEW r \in Requests, CreateRow(r)
      PROVE Ids'
  <2>1. /\ \A q \in Requests \ {r} : req'[q] = req[q]
       /\ \/ req'[r].pc = "history" /\ req'[r].key = req[r].key /\ req'[r].auth = req[r].auth
    BY <1>0, <1>5 DEF CreateRow, Goto, Respond, TypeOK, FrameOK, Frames
  <2>2. req[r] # Idle /\ req[r].pc # "sync" /\ req[r].key \in Keys /\ req[r].auth \in Nat
    BY <1>0, <1>5 DEF CreateRow, At, Idle, TypeOK, FrameOK, Frames
  <2>3. RowIds'
    BY <1>0, <1>5 DEF CreateRow, InsertRow, At, Idle, HeldIds, NoRow, NoId, RowIds, TypeOK, TablesOK, RowsTypeOK, Rows
  <2>4. IssuedIds'
    BY <1>0, <1>5 DEF CreateRow, InsertRow, NoId, NoRow, IssuedIds, IssuedIsDone, RowIds, TypeOK, TablesOK, RowsTypeOK, Rows
  <2>5. /\ nextAuth \in Nat /\ nextAuth' = nextAuth + 1
       /\ \A k \in Keys : auths'[k].id = nextAuth \/ auths'[k] = auths[k]
    BY <1>0, <1>5 DEF CreateRow, InsertRow, TypeOK, TablesOK, RowsTypeOK, Rows
  <2>6. \A q \in Requests : req[q].auth \in Nat
    BY <1>0 DEF TypeOK, Frames
  <2>7. HeldIds'
    BY <1>0, <2>1, <2>2, <2>5, <2>6 DEF HeldIds, Idle, NoId
  <2>8. QED
    BY <2>3, <2>4, <2>7
<1>6. ASSUME NEW r \in Requests, CreateRowFails(r)
      PROVE Ids'
  <2>1. RowIds' /\ IssuedIds'
    BY <1>0, <1>6 DEF CreateRowFails, Tables, NoRow, RowIds, IssuedIds, IssuedIsDone
  <2>2. HeldIds'
    BY <1>0, <1>6 DEF CreateRowFails, At, Goto, Respond, Idle, NoId, NoRow, Tables, HeldIds, RowIds, TypeOK, TablesOK, RowsTypeOK, Rows
  <2>3. QED
    BY <2>1, <2>2
<1>7. ASSUME NEW r \in Requests, CreateHistory(r)
      PROVE Ids'
  <2>1. RowIds' /\ IssuedIds'
    BY <1>0, <1>7 DEF CreateHistory, Tables, NoRow, RowIds, IssuedIds, IssuedIsDone
  <2>2. HeldIds'
    BY <1>0, <1>7 DEF CreateHistory, At, Goto, Respond, Idle, NoId, NoRow, Tables, HeldIds, RowIds, TypeOK, TablesOK, RowsTypeOK, Rows
  <2>3. QED
    BY <2>1, <2>2
<1>8. ASSUME NEW r \in Requests, NEW h \in 0..MaxHistories, NEW c \in Codes \cup {NoCode}, NEW u \in Users \cup {NoUser}, Finish(r, h, c, u)
      PROVE Ids'
  <2>1. RowIds' /\ IssuedIds'
    BY <1>0, <1>8 DEF Finish, Tables, NoRow, RowIds, IssuedIds, IssuedIsDone
  <2>2. HeldIds'
    BY <1>0, <1>8 DEF Finish, At, Goto, Respond, Idle, NoId, NoRow, Tables, HeldIds, RowIds, TypeOK, TablesOK, RowsTypeOK, Rows
  <2>3. QED
    BY <2>1, <2>2
<1>9. ASSUME NEW r \in Requests, LookupRow(r)
      PROVE Ids'
  <2>1. /\ \A q \in Requests \ {r} : req'[q] = req[q]
       /\ \/ req'[r] = Idle
          \/ ~Absent(req[r].key) /\ req'[r].pc = "mark" /\ req'[r].key = req[r].key /\ req'[r].auth = auths[req[r].key].id
    BY <1>0, <1>9 DEF LookupRow, Goto, Respond, TypeOK, FrameOK, Frames
  <2>2. req[r] # Idle /\ req[r].pc # "sync" /\ req[r].key \in Keys /\ req[r].auth \in Nat
    BY <1>0, <1>9 DEF LookupRow, At, Idle, TypeOK, FrameOK, Frames
  <2>3. RowIds' /\ IssuedIds'
    BY <1>0, <1>9 DEF LookupRow, Tables, NoRow, RowIds, IssuedIds, IssuedIsDone
  <2>4. UNCHANGED <<auths, nextAuth>> /\ (~Absent(req[r].key) => auths[req[r].key].id # NoId)
    BY <1>9 DEF LookupRow, Tables, Absent
  <2>5. HeldIds'
    BY <1>0, <2>1, <2>2, <2>4, HeldFromRow
  <2>6. QED
    BY <2>3, <2>5
<1>10. ASSUME NEW r \in Requests, MarkRow(r)
      PROVE Ids'
  <2>1. /\ \A q \in Requests \ {r} : req'[q] = req[q]
       /\ \/ req'[r] = Idle
          \/ req'[r].pc = "sync" /\ req'[r].key = req[r].key /\ req'[r].auth = req[r].auth
    BY <1>0, <1>10 DEF MarkRow, Goto, Respond, TypeOK, FrameOK, Frames
  <2>2. req[r] # Idle /\ req[r].pc # "sync" /\ req[r].key \in Keys /\ req[r].auth \in Nat
    BY <1>0, <1>10 DEF MarkRow, At, Idle, TypeOK, FrameOK, Frames
  <2>3. RowIds'
    BY <1>0, <1>10 DEF MarkRow, HasId, SetDone, At, Idle, HeldIds, NoRow, NoId, RowIds, TypeOK, TablesOK, RowsTypeOK, Rows
  <2>4. /\ req[r].auth # NoId /\ req[r].auth < nextAuth
       /\ \A k \in Keys : auths[k].id = req[r].auth => k = req[r].key
    BY <1>0, <2>2, <1>10 DEF MarkRow, At, HeldIds
  <2>5. \A k \in Keys : /\ auths'[k].id = auths[k].id
                        /\ auths[k].done => auths'[k].done
                        /\ auths[k].id = req[r].auth => auths'[k].done
    BY <1>0, <1>10 DEF MarkRow, SetDone, TypeOK, TablesOK, RowsTypeOK, Rows
  <2>6. nextAuth' = nextAuth /\ issued' \subseteq issued \cup {<<req[r].key, req[r].auth>>}
    BY <1>10 DEF MarkRow
  <2>7. IssuedIds'
    <3>1. SUFFICES ASSUME NEW p \in issued'
                   PROVE  /\ p[2] # NoId /\ p[2] < nextAuth'
                          /\ \A k \in Keys : auths'[k].id = p[2] => k = p[1] /\ auths'[k].done
      BY DEF IssuedIds, IssuedIsDone
    <3>2. CASE p \in issued
      BY <1>0, <2>5, <2>6, <3>2 DEF IssuedIds, IssuedIsDone
    <3>3. CASE p = <<req[r].key, req[r].auth>>
      BY <2>4, <2>5, <2>6, <3>3
    <3>4. QED
      BY <2>6, <3>2, <3>3
  <2>8. HeldIds'
    BY <1>0, <2>1, <2>2, <2>4, <2>5, <2>6 DEF HeldIds, Idle, NoId
  <2>9. QED
    BY <2>3, <2>7, <2>8
<1>11. ASSUME NEW r \in Requests, BindUser(r)
      PROVE Ids'
  <2>1. RowIds'
    BY <1>0, <1>11 DEF BindUser, HasId, SetUser, At, Idle, HeldIds, NoRow, NoId, RowIds, TypeOK, TablesOK, RowsTypeOK, Rows
  <2>2. IssuedIds'
    BY <1>0, <1>11 DEF BindUser, HasId, SetUser, At, Idle, NoId, NoRow, IssuedIds, IssuedIsDone, RowIds, HeldIds, TypeOK, TablesOK, RowsTypeOK, Rows
  <2>3. HeldIds'
    BY <1>0, <1>11 DEF BindUser, HasId, SetUser, At, Goto, Respond, Idle, NoId, NoRow, HeldIds, RowIds, TypeOK, TablesOK, RowsTypeOK, Rows
  <2>4. QED
    BY <2>1, <2>2, <2>3
<1>12. ASSUME NEW r \in Requests, UpdateFails(r)
      PROVE Ids'
  <2>1. RowIds' /\ IssuedIds'
    BY <1>0, <1>12 DEF UpdateFails, Tables, NoRow, RowIds, IssuedIds, IssuedIsDone
  <2>2. HeldIds'
    BY <1>0, <1>12 DEF UpdateFails, At, Goto, Respond, Idle, NoId, NoRow, Tables, HeldIds, RowIds, TypeOK, TablesOK, RowsTypeOK, Rows
  <2>3. QED
    BY <2>1, <2>2
<1>13. ASSUME NEW r \in Requests, NEW k \in Keys, Reset(r, k)
      PROVE Ids'
  <2>1. RowIds' /\ IssuedIds'
    BY <1>0, <1>13 DEF Reset, Tables, NoRow, RowIds, IssuedIds, IssuedIsDone
  <2>2. HeldIds'
    BY <1>0, <1>13 DEF Reset, At, Goto, Respond, Idle, NoId, NoRow, Tables, HeldIds, RowIds, TypeOK, TablesOK, RowsTypeOK, Rows
  <2>3. QED
    BY <2>1, <2>2
<1>14. ASSUME NEW r \in Requests, ResetFind(r)
      PROVE Ids'
  <2>1. /\ \A q \in Requests \ {r} : req'[q] = req[q]
       /\ \/ req'[r] = Idle
          \/ req'[r].pc = "resetDelete" /\ req'[r].key = req[r].key /\ req'[r].auth = auths[req[r].key].id
    BY <1>0, <1>14 DEF ResetFind, Goto, Respond, TypeOK, FrameOK, Frames
  <2>2. req[r] # Idle /\ req[r].pc # "sync" /\ req[r].key \in Keys /\ req[r].auth \in Nat
    BY <1>0, <1>14 DEF ResetFind, At, Idle, TypeOK, FrameOK, Frames
  <2>3. RowIds' /\ IssuedIds'
    BY <1>0, <1>14 DEF ResetFind, Tables, NoRow, RowIds, IssuedIds, IssuedIsDone
  <2>4. UNCHANGED <<auths, nextAuth>>
    BY <1>14 DEF ResetFind, Tables
  <2>5. HeldIds'
    BY <1>0, <2>1, <2>2, <2>4, HeldFromRow
  <2>6. QED
    BY <2>3, <2>5
<1>15. ASSUME NEW r \in Requests, ResetDelete(r)
      PROVE Ids'
  <2>1. RowIds'
    BY <1>0, <1>15 DEF ResetDelete, DeleteById, At, Idle, HeldIds, NoRow, NoId, RowIds, TypeOK, TablesOK, RowsTypeOK, Rows
  <2>2. IssuedIds'
    BY <1>0, <1>15 DEF ResetDelete, DeleteById, At, Idle, NoId, NoRow, IssuedIds, IssuedIsDone, RowIds, HeldIds, TypeOK, TablesOK, RowsTypeOK, Rows
  <2>3. HeldIds'
    BY <1>0, <1>15 DEF ResetDelete, DeleteById, At, Goto, Respond, Idle, NoId, NoRow, HeldIds, RowIds, TypeOK, TablesOK, RowsTypeOK, Rows
  <2>4. QED
    BY <2>1, <2>2, <2>3
<1>16. ASSUME NEW u \in Users, RemoveAll(u) PROVE Ids'
  BY <1>0, <1>16 DEF RemoveAll, DeleteByUser, NoRow, NoId, RowIds, IssuedIds, IssuedIsDone, HeldIds, TypeOK, TablesOK, RowsTypeOK, Rows
<1>17. ASSUME NEW r \in Requests, Abort(r) PROVE Ids'
  BY <1>0, <1>17 DEF Abort, Respond, Tables, Idle, NoId, RowIds, IssuedIds, IssuedIsDone, HeldIds, TypeOK, TablesOK, RowsTypeOK
<1>18. ASSUME Tick PROVE Ids'
  BY <1>0, <1>18 DEF Tick, Tables, RowIds, IssuedIds, IssuedIsDone, HeldIds
<1>19. ASSUME UNCHANGED vars PROVE Ids'
  BY <1>0, <1>19 DEF vars, RowIds, IssuedIds, IssuedIsDone, HeldIds
<1>20. QED
  BY <1>0, <1>1, <1>2, <1>3, <1>4, <1>5, <1>6, <1>7, <1>8, <1>9, <1>10, <1>11, <1>12, <1>13,
     <1>14, <1>15, <1>16, <1>17, <1>18, <1>19 DEF Next, Work, IInv

-----------------------------------------------------------------------------
(* Results                                                                 *)

(* What every handler may rely on.                                         *)
THEOREM InductiveInvariant == ASSUME VerificationAssumption PROVE Spec => []IInv
BY InitIInv, NextIInv, PTL DEF Spec

(* Every table, handler and response keeps its type.                       *)
THEOREM TypeCorrect == ASSUME VerificationAssumption PROVE Spec => []TypeOK
<1>1. IInv => TypeOK
  BY DEF IInv
<1>2. QED
  BY InductiveInvariant, <1>1, PTL

(* For any number of clients, keys and crashes: the row that has an id     *)
(* finish returned belongs to the verified key and is DONE.                *)
THEOREM IssuedIsDoneHolds == ASSUME VerificationAssumption PROVE Spec => []IssuedIsDone
<1>1. IInv => IssuedIsDone
  BY DEF IInv, IssuedIds
<1>2. QED
  BY InductiveInvariant, <1>1, PTL

-----------------------------------------------------------------------------
(* Every step of a handler is one the table promises, or leaves it alone.  *)
LEMMA StepKeepsPromise == IInv /\ [Next]_vars => [RowsNext]_rowVars
<1> SUFFICES ASSUME IInv, [Next]_vars PROVE [RowsNext]_rowVars
  OBVIOUS
<1>0. TypeOK /\ HeldIds
  BY DEF IInv
<1>1. ASSUME NEW r \in Requests, DeleteOld(r) \/ ResetDelete(r) PROVE RowsNext
  <2>1. Drop({k \in Keys : auths[k].id = req[r].auth})
    BY <1>1 DEF DeleteOld, ResetDelete, DeleteById, Drop
  <2>2. QED
    BY <2>1 DEF RowsNext
<1>2. ASSUME NEW r \in Requests, CreateRow(r) PROVE RowsNext
  <2>1. req[r].key \in Keys
    BY <1>0, <1>2 DEF TypeOK, FrameOK, CreateRow, At, Idle
  <2>2. QED
    BY <1>2, <2>1 DEF CreateRow, Open, RowsNext
<1>3. ASSUME NEW r \in Requests, MarkRow(r) \/ BindUser(r)
      PROVE  /\ req[r].key \in Keys /\ ~Absent(req[r].key)
             /\ auths[req[r].key].id = req[r].auth
  <2>1. req[r].key \in Keys /\ req[r] # Idle
    BY <1>0, <1>3 DEF TypeOK, FrameOK, MarkRow, BindUser, At, Idle
  <2>2. PICK k \in Keys : auths[k].id = req[r].auth /\ req[r].auth # NoId
    BY <1>3 DEF MarkRow, BindUser, HasId
  <2>3. k = req[r].key
    BY <1>0, <2>1, <2>2 DEF HeldIds
  <2>4. QED
    BY <2>1, <2>2, <2>3 DEF Absent
<1>4. ASSUME NEW r \in Requests, MarkRow(r) PROVE RowsNext
  <2>1. Verify(req[r].key)
    BY <1>3, <1>4 DEF MarkRow, Verify
  <2>2. QED
    BY <1>3, <1>4, <2>1 DEF RowsNext
<1>5. ASSUME NEW r \in Requests, BindUser(r) PROVE RowsNext
  <2>1. req[r].user \in Users /\ auths[req[r].key].done
    BY <1>0, <1>3, <1>5 DEF BindUser, At, TypeOK, FrameOK, HeldIds, Idle, Absent
  <2>2. Bind(req[r].key, req[r].user)
    BY <1>3, <1>5, <2>1 DEF BindUser, Bind
  <2>3. QED
    BY <1>3, <1>5, <2>1, <2>2 DEF RowsNext
<1>6. ASSUME NEW u \in Users, RemoveAll(u) PROVE RowsNext
  <2>1. Drop({k \in Keys : auths[k].user = u})
    BY <1>6 DEF RemoveAll, DeleteByUser, Drop
  <2>2. QED
    BY <2>1 DEF RowsNext
<1>7. ASSUME NEW r \in Requests,
             \/ SendCode(r) \/ FindOld(r) \/ CreateRowFails(r) \/ CreateHistory(r)
             \/ LookupRow(r) \/ UpdateFails(r) \/ ResetFind(r) \/ Abort(r)
             \/ \E k \in Keys, c \in Codes, taken \in BOOLEAN : Begin(r, k, c, taken)
             \/ \E h \in 0..MaxHistories, c \in Codes \cup {NoCode}, u \in Users \cup {NoUser} : Finish(r, h, c, u)
             \/ \E k \in Keys : Reset(r, k)
      PROVE  UNCHANGED rowVars
  BY <1>7 DEF SendCode, FindOld, CreateRowFails, CreateHistory, LookupRow, UpdateFails, ResetFind,
              Abort, Begin, Finish, Reset, Tables, rowVars
<1>8. CASE Tick \/ UNCHANGED vars
  BY <1>8 DEF Tick, Tables, vars, rowVars
<1>9. QED
  BY <1>1, <1>2, <1>4, <1>5, <1>6, <1>7, <1>8 DEF Next, Work

(* However the handlers interleave, lose races and die, the table keeps    *)
(* the promise Membership builds on: fresh ids, DONE for good, answered    *)
(* only when DONE.                                                         *)
THEOREM ImplementsRows == ASSUME VerificationAssumption PROVE Spec => RowsSpec
<1>1. Init => RowsInit
  BY DEF Init
<1>2. QED
  BY InductiveInvariant, StepKeepsPromise, <1>1, PTL DEF Spec, RowsSpec
=============================================================================
