-------------------------- MODULE Preferences_proofs --------------------------
(***************************************************************************)
(* What the arrays of bookmarked and excluded restaurants keep true, for   *)
(* any number of handlers, members and restaurants: an array that no two   *)
(* handlers met on is a set, and the arrays implement Marks.               *)
(***************************************************************************)
EXTENDS Preferences, SequenceTheorems, WellFoundedInduction, TLAPS

-----------------------------------------------------------------------------
(* Filtering an array.  The induction over its positions is stated with a  *)
(* set, since the provers cannot instantiate a theorem about P(_).         *)

LEMMA NatSetInduction ==
  ASSUME NEW S, 0 \in S, \A n \in Nat : n \in S => n + 1 \in S
  PROVE  Nat \subseteq S
<1> DEFINE Missing == Nat \ S
<1> SUFFICES ASSUME Missing # {} PROVE FALSE
  OBVIOUS
<1>1. PICK n \in Missing : \A m \in Missing : <<m, n>> \notin OpToRel(<, Nat)
  <2>1. Missing \subseteq Nat
    OBVIOUS
  <2> HIDE DEF Missing
  <2>2. QED
    BY <2>1, WFMin, NatLessThanWellFounded
<1>2. \A m \in Missing : ~(m < n)
  BY <1>1 DEF OpToRel
<1>3. n # 0 /\ n - 1 \in Nat /\ n - 1 < n /\ n = (n - 1) + 1
  OBVIOUS
<1>4. n - 1 \in S
  BY <1>2, <1>3
<1>5. QED
  BY <1>3, <1>4

KeepsTo(kept, n, list, x) ==
  kept = [m \in 0..n |-> IF m = 0 THEN << >>
                         ELSE IF list[m] = x THEN kept[m - 1] ELSE Append(kept[m - 1], list[m])]

LEMMA KeptExists ==
  ASSUME NEW list, Len(list) \in Nat, NEW x
  PROVE  \E kept : KeepsTo(kept, Len(list), list, x)
<1> DEFINE S == {n \in Nat : \E kept : KeepsTo(kept, n, list, x)}
<1>1. 0 \in S
  <2>1. KeepsTo([m \in 0..0 |-> << >>], 0, list, x)
    BY DEF KeepsTo
  <2>2. QED
    BY <2>1
<1>2. ASSUME NEW n \in Nat, n \in S PROVE n + 1 \in S
  <2>1. PICK kept : KeepsTo(kept, n, list, x)
    BY <1>2
  <2> DEFINE last == IF list[n + 1] = x THEN kept[n] ELSE Append(kept[n], list[n + 1])
             longer == [m \in 0..(n + 1) |-> IF m = n + 1 THEN last ELSE kept[m]]
  <2>2. KeepsTo(longer, n + 1, list, x)
    <3>1. \A m \in 0..n : kept[m] = IF m = 0 THEN << >>
                         ELSE IF list[m] = x THEN kept[m - 1] ELSE Append(kept[m - 1], list[m])
      BY <2>1 DEF KeepsTo
    <3>2. \A m \in 0..n : longer[m] = kept[m]
      OBVIOUS
    <3>3. longer[n + 1] = last
      OBVIOUS
    <3> HIDE DEF longer
    <3>4. \A m \in 0..(n + 1) : longer[m] = IF m = 0 THEN << >>
                         ELSE IF list[m] = x THEN longer[m - 1] ELSE Append(longer[m - 1], list[m])
      <4> SUFFICES ASSUME NEW m \in 0..(n + 1)
                   PROVE  longer[m] = IF m = 0 THEN << >>
                         ELSE IF list[m] = x THEN longer[m - 1] ELSE Append(longer[m - 1], list[m])
        OBVIOUS
      <4>1. CASE m = n + 1
        BY <3>2, <3>3, <4>1
      <4>2. CASE m \in 0..n
        BY <3>1, <3>2, <4>2
      <4>3. QED
        BY <4>1, <4>2
    <3>5. QED
      BY <3>4 DEF KeepsTo, longer
  <2>3. QED
    BY <2>2
<1>3. Nat \subseteq S
  BY <1>1, <1>2, NatSetInduction
<1>4. QED
  BY <1>3

LEMMA WithoutIsKept ==
  ASSUME NEW list, Len(list) \in Nat, NEW x
  PROVE  \E kept : KeepsTo(kept, Len(list), list, x) /\ Without(list, x) = kept[Len(list)]
<1> DEFINE K == CHOOSE kept : KeepsTo(kept, Len(list), list, x)
<1>1. KeepsTo(K, Len(list), list, x)
  BY KeptExists
<1>2. Without(list, x) = K[Len(list)]
  BY Zenon DEF Without, KeepsTo
<1> HIDE DEF K
<1>3. QED
  BY <1>1, <1>2

Upto(list, n) == {list[m] : m \in 1..n}

(* k holds the first n entries of the list, but not x.                     *)
Filtered(k, n, list, x) ==
  /\ \A i \in 1..Len(k) : k[i] \in Upto(list, n) \ {x}
  /\ \A y \in Upto(list, n) \ {x} : \E i \in 1..Len(k) : k[i] = y
  /\ IsInjective(list) => \A i, j \in 1..Len(k) : k[i] = k[j] => i = j

LEMMA FilteredMore ==
  ASSUME NEW Y, NEW list \in Seq(Y), NEW x, NEW n \in Nat, n + 1 <= Len(list),
         NEW k \in Seq(Y), Filtered(k, n, list, x),
         NEW longer, longer = IF list[n + 1] = x THEN k ELSE Append(k, list[n + 1])
  PROVE  longer \in Seq(Y) /\ Filtered(longer, n + 1, list, x)
<1> DEFINE next == list[n + 1]
<1>1. Len(list) \in Nat /\ DOMAIN list = 1..Len(list) /\ n + 1 \in 1..Len(list)
  BY LenProperties
<1>2. next \in Y
  BY <1>1, ElementOfSeq
<1>3. Upto(list, n + 1) = Upto(list, n) \cup {next}
  BY DEF Upto
<1>4. CASE next = x
  <2>1. Upto(list, n + 1) \ {x} = Upto(list, n) \ {x}
    BY <1>3, <1>4
  <2>2. QED
    BY <1>4, <2>1 DEF Filtered
<1>5. CASE next # x
  <2> DEFINE k1 == Append(k, next)
  <2>1. /\ k1 \in Seq(Y) /\ Len(k1) = Len(k) + 1 /\ Len(k) \in Nat
        /\ \A i \in 1..Len(k) : k1[i] = k[i]
        /\ k1[Len(k) + 1] = next
    BY <1>2, AppendProperties, LenProperties
  <2> HIDE DEF k1, next
  <2>2. \A i \in 1..Len(k1) : i \in 1..Len(k) \/ i = Len(k) + 1
    BY <2>1
  <2>3. \A i \in 1..Len(k1) : k1[i] \in Upto(list, n + 1) \ {x}
    BY <1>3, <1>5, <2>1, <2>2 DEF Filtered
  <2>4. ASSUME NEW y \in Upto(list, n + 1) \ {x} PROVE \E i \in 1..Len(k1) : k1[i] = y
    <3>1. CASE y = next
      BY <2>1, <3>1
    <3>2. CASE y \in Upto(list, n)
      <4>1. PICK i \in 1..Len(k) : k[i] = y
        BY <3>2 DEF Filtered
      <4>2. i \in 1..Len(k1) /\ k1[i] = y
        BY <2>1, <4>1
      <4>3. QED
        BY <4>2
    <3>3. QED
      BY <1>3, <3>1, <3>2
  <2>5. ASSUME IsInjective(list), NEW i \in 1..Len(k1), NEW j \in 1..Len(k1), k1[i] = k1[j] PROVE i = j
    <3>1. next \notin Upto(list, n)
      <4> SUFFICES ASSUME NEW m \in 1..n, list[m] = next PROVE FALSE
        BY DEF Upto
      <4>1. m \in DOMAIN list /\ n + 1 \in DOMAIN list /\ m # n + 1
        BY <1>1
      <4>2. QED
        BY <2>5, <4>1 DEF IsInjective, next
    <3>2. \A l \in 1..Len(k) : k1[l] # next
      BY <2>1, <3>1 DEF Filtered
    <3>3. \A l, m \in 1..Len(k) : k[l] = k[m] => l = m
      BY <2>5 DEF Filtered
    <3>4. QED
      BY <2>1, <2>2, <2>5, <3>2, <3>3
  <2>6. Filtered(k1, n + 1, list, x)
    BY <2>3, <2>4, <2>5 DEF Filtered
  <2>7. QED
    BY <1>5, <2>1, <2>6 DEF k1, next
<1>6. QED
  BY <1>4, <1>5

(* What is kept are the entries but x, each as often as before.            *)
LEMMA WithoutProperties ==
  ASSUME NEW Y, NEW list \in Seq(Y), NEW x
  PROVE  /\ Without(list, x) \in Seq(Y)
         /\ Range(Without(list, x)) = Range(list) \ {x}
         /\ IsInjective(list) => IsInjective(Without(list, x))
<1>0. Len(list) \in Nat /\ DOMAIN list = 1..Len(list)
  BY LenProperties
<1>1. PICK kept : KeepsTo(kept, Len(list), list, x) /\ Without(list, x) = kept[Len(list)]
  BY <1>0, WithoutIsKept
<1> DEFINE S == {n \in Nat : n <= Len(list) => kept[n] \in Seq(Y) /\ Filtered(kept[n], n, list, x)}
<1>2. 0 \in S
  <2>1. kept[0] = << >>
    BY <1>0, <1>1 DEF KeepsTo
  <2>2. Len(kept[0]) = 0 /\ kept[0] \in Seq(Y) /\ Upto(list, 0) = {}
    BY <2>1 DEF Upto
  <2>3. QED
    BY <2>2 DEF Filtered
<1>3. ASSUME NEW n \in Nat, n \in S PROVE n + 1 \in S
  <2> SUFFICES ASSUME n + 1 <= Len(list)
               PROVE  kept[n + 1] \in Seq(Y) /\ Filtered(kept[n + 1], n + 1, list, x)
    OBVIOUS
  <2>1. kept[n] \in Seq(Y) /\ Filtered(kept[n], n, list, x)
    BY <1>0, <1>3
  <2>2. \A m \in 0..Len(list) :
          kept[m] = IF m = 0 THEN << >>
                    ELSE IF list[m] = x THEN kept[m - 1] ELSE Append(kept[m - 1], list[m])
    BY <1>1 DEF KeepsTo
  <2>3. n + 1 \in 0..Len(list) /\ n + 1 # 0 /\ (n + 1) - 1 = n
    BY <1>0
  <2>4. kept[n + 1] = IF list[n + 1] = x THEN kept[n] ELSE Append(kept[n], list[n + 1])
    BY <2>2, <2>3
  <2>5. QED
    BY <2>1, <2>4, FilteredMore
<1>4. kept[Len(list)] \in Seq(Y) /\ Filtered(kept[Len(list)], Len(list), list, x)
  <2>1. Nat \subseteq S
    <3> HIDE DEF S
    <3>1. QED
      BY <1>2, <1>3, NatSetInduction
  <2>2. QED
    BY <1>0, <2>1
<1>5. Upto(list, Len(list)) = Range(list)
  BY <1>0 DEF Range, Upto
<1>6. Without(list, x) \in Seq(Y) /\ DOMAIN Without(list, x) = 1..Len(Without(list, x))
  BY <1>1, <1>4, LenProperties
<1>7. Range(Without(list, x)) = Range(list) \ {x}
  <2>1. Range(Without(list, x)) = {Without(list, x)[i] : i \in 1..Len(Without(list, x))}
    BY <1>6 DEF Range
  <2>2. Filtered(Without(list, x), Len(list), list, x)
    BY <1>1, <1>4
  <2>3. ASSUME NEW y \in Range(Without(list, x)) PROVE y \in Range(list) \ {x}
    BY <1>5, <2>1, <2>2, <2>3 DEF Filtered
  <2>4. ASSUME NEW y \in Range(list) \ {x} PROVE y \in Range(Without(list, x))
    BY <1>5, <2>1, <2>2, <2>4 DEF Filtered
  <2>5. QED
    BY <2>3, <2>4
<1>8. IsInjective(list) => IsInjective(Without(list, x))
  BY <1>1, <1>4, <1>6 DEF IsInjective, Filtered
<1>9. QED
  BY <1>6, <1>7, <1>8

-----------------------------------------------------------------------------
(* The inductive invariant.                                                *)

(* Two handlers are at work on one array of a member only if they met.     *)
Alone ==
  \A r, s \in Requests :
    /\ r # s /\ req[r].pc # "idle" /\ req[s].pc # "idle"
    /\ req[r].user = req[s].user /\ req[r].column = req[s].column
    => <<req[r].user, req[r].column>> \in contended

(* Of an array that no two handlers met on: an addition has not found its  *)
(* restaurant there, and a removal writes back what is there.  The row it  *)
(* has read stays.                                                         *)
HeldOK(r) ==
  /\ req[r].pc = "write" => req[r].user \in rows
  /\ req[r].pc # "idle" /\ <<req[r].user, req[r].column>> \notin contended =>
       /\ req[r].pc = "push" => req[r].restaurant \notin Range(lists[req[r].user][req[r].column])
       /\ req[r].pc = "write" => req[r].row[req[r].column] = lists[req[r].user][req[r].column]

IInv == TypeOK /\ NoDuplicates /\ Alone /\ \A r \in Requests : HeldOK(r)

LEMMA NoListsType == NoLists \in Lists
<1>1. << >> \in Seq(Restaurants)
  OBVIOUS
<1>2. QED
  BY <1>1 DEF NoLists, Lists

LEMMA IdleOK == FrameOK(Idle) /\ Idle.pc = "idle"
BY DEF FrameOK, Idle

LEMMA ArrayType ==
  ASSUME TypeOK, NEW u \in Users, NEW c \in Columns
  PROVE  lists[u] \in Lists /\ lists[u][c] \in Seq(Restaurants) /\ DOMAIN lists[u][c] = 1..Len(lists[u][c])
<1>1. lists[u] \in Lists /\ lists[u][c] \in Seq(Restaurants)
  BY DEF TypeOK, Lists
<1>2. QED
  BY <1>1, LenProperties

(* A handler goes on with the frame f, and changes no array but the one it *)
(* works on.                                                               *)
LEMMA HandlerStep ==
  ASSUME IInv, NEW r \in Requests, NEW f, req' = [req EXCEPT ![r] = f], FrameOK(f),
         contended \subseteq contended', contended' \subseteq Users \X Columns,
         received' \in 0..MaxReceived,
         rows \subseteq rows', rows' \subseteq Users,
         lists' \in [Users -> Lists],
         \A u \in Users \ rows' : lists'[u] = NoLists,
         \A u \in Users, c \in Columns :
           \/ lists'[u][c] = lists[u][c]
           \/ /\ req[r].pc # "idle" /\ u = req[r].user /\ c = req[r].column
              /\ <<u, c>> \in contended' \/ IsInjective(lists'[u][c]),
         f.pc # "idle" =>
           \/ <<f.user, f.column>> \in contended'
           \/ req[r].pc # "idle" /\ f.user = req[r].user /\ f.column = req[r].column
           \/ \A s \in Requests : ~(req[s].user = f.user /\ req[s].column = f.column),
         f.pc = "write" => f.user \in rows',
         f.pc \in {"push", "write"} /\ <<f.user, f.column>> \notin contended' =>
           /\ f.pc = "push" => f.restaurant \notin Range(lists'[f.user][f.column])
           /\ f.pc = "write" => f.row[f.column] = lists'[f.user][f.column]
  PROVE  IInv'
<1>0. TypeOK /\ NoDuplicates /\ Alone /\ \A s \in Requests : HeldOK(s)
  BY DEF IInv
<1>1. req'[r] = f /\ \A s \in Requests \ {r} : req'[s] = req[s]
  BY <1>0 DEF TypeOK
<1>2. \A s \in Requests : FrameOK(req'[s])
  BY <1>0, <1>1 DEF TypeOK
<1>3. ASSUME NEW s \in Requests PROVE FrameOK(req[s])'
  BY <1>2 DEF FrameOK
<1>4. TypeOK'
  BY <1>0, <1>3 DEF TypeOK
<1>5. NoDuplicates'
  <2> SUFFICES ASSUME NEW u \in Users, NEW c \in Columns, <<u, c>> \notin contended'
               PROVE  \A i, j \in DOMAIN lists'[u][c] : lists'[u][c][i] = lists'[u][c][j] => i = j
    BY DEF NoDuplicates
  <2>1. CASE lists'[u][c] = lists[u][c]
    BY <1>0, <2>1 DEF NoDuplicates
  <2>2. CASE IsInjective(lists'[u][c])
    BY <2>2 DEF IsInjective
  <2>3. QED
    BY <2>1, <2>2
<1>6. Alone'
  <2> SUFFICES ASSUME NEW s \in Requests, NEW t \in Requests, s # t,
                      req'[s].pc # "idle", req'[t].pc # "idle",
                      req'[s].user = req'[t].user, req'[s].column = req'[t].column
               PROVE  <<req'[s].user, req'[s].column>> \in contended'
    BY DEF Alone
  <2>1. CASE s # r /\ t # r
    BY <1>0, <1>1, <2>1 DEF Alone
  <2>2. CASE s = r
    BY <1>0, <1>1, <2>2 DEF Alone
  <2>3. CASE t = r
    BY <1>0, <1>1, <2>3 DEF Alone
  <2>4. QED
    BY <2>1, <2>2, <2>3
<1>7. ASSUME NEW s \in Requests PROVE HeldOK(s)'
  <2>1. CASE s = r
    BY <1>1, <2>1 DEF HeldOK
  <2>2. CASE s # r
    <3>1. HeldOK(s) /\ FrameOK(req[s]) /\ req'[s] = req[s]
      BY <1>0, <1>1, <2>2 DEF TypeOK
    <3>2. ASSUME req[s].pc # "idle", <<req[s].user, req[s].column>> \notin contended'
          PROVE  lists'[req[s].user][req[s].column] = lists[req[s].user][req[s].column]
      <4>1. req[s].user \in Users /\ req[s].column \in Columns
        BY <3>1, <3>2 DEF FrameOK
      <4>2. ~(req[r].pc # "idle" /\ req[s].user = req[r].user /\ req[s].column = req[r].column)
        BY <1>0, <2>2, <3>2 DEF Alone
      <4>3. QED
        BY <4>1, <4>2
    <3>3. QED
      BY <3>1, <3>2 DEF HeldOK
  <2>3. QED
    BY <2>1, <2>2
<1>8. QED
  BY <1>4, <1>5, <1>6, <1>7 DEF IInv

(* The same, when no array changes.                                        *)
LEMMA ReadingStep ==
  ASSUME IInv, NEW r \in Requests, NEW f, req' = [req EXCEPT ![r] = f], FrameOK(f),
         UNCHANGED <<rows, lists, observed>>,
         f.pc # "idle" => req[r].pc # "idle" /\ f.user = req[r].user /\ f.column = req[r].column,
         f.pc = "write" => f.user \in rows,
         f.pc \in {"push", "write"} /\ <<f.user, f.column>> \notin contended =>
           /\ f.pc = "push" => f.restaurant \notin Range(lists[f.user][f.column])
           /\ f.pc = "write" => f.row[f.column] = lists[f.user][f.column]
  PROVE  IInv'
BY HandlerStep DEF IInv, TypeOK, observed

-----------------------------------------------------------------------------

LEMMA InitIInv == ASSUME PreferencesAssumption PROVE Init => IInv
<1> SUFFICES ASSUME Init PROVE IInv
  OBVIOUS
<1>1. \A r \in Requests : req[r] = Idle
  BY DEF Init
<1>2. \A u \in Users, c \in Columns : lists[u][c] = << >>
  BY DEF Init, NoLists
<1>3. TypeOK
  BY <1>1, IdleOK, NoListsType DEF Init, TypeOK, PreferencesAssumption
<1>4. NoDuplicates /\ Alone
  BY <1>1, <1>2, IdleOK DEF NoDuplicates, Alone
<1>5. QED
  BY <1>1, <1>3, <1>4, IdleOK DEF IInv, HeldOK

(* A handler has set an array anew.                                        *)
LEMMA WritingStep ==
  ASSUME IInv, NEW r \in Requests, req[r].pc # "idle", NEW array \in Seq(Restaurants),
         lists' = [lists EXCEPT ![req[r].user][req[r].column] = array],
         <<req[r].user, req[r].column>> \notin contended => IsInjective(array),
         rows' = rows \cup {req[r].user}, Respond(r), UNCHANGED observed
  PROVE  IInv'
<1> DEFINE u == req[r].user
           c == req[r].column
<1>0. TypeOK
  BY DEF IInv
<1>1. u \in Users /\ c \in Columns
  BY <1>0 DEF TypeOK, FrameOK
<1>2. lists \in [Users -> [Columns -> Seq(Restaurants)]]
  BY <1>0 DEF TypeOK, Lists
<1>3. /\ lists' \in [Users -> Lists] /\ lists'[u][c] = array
      /\ \A v \in Users \ {u} : lists'[v] = lists[v]
      /\ \A d \in Columns \ {c} : lists'[u][d] = lists[u][d]
  BY <1>1, <1>2 DEF Lists
<1>4. \A v \in Users \ rows' : lists'[v] = NoLists
  BY <1>0, <1>3 DEF TypeOK
<1>5. req' = [req EXCEPT ![r] = Idle] /\ contended' = contended /\ received' = received
  BY DEF Respond, observed
<1>6. rows \subseteq rows' /\ rows' \subseteq Users /\ contended \subseteq Users \X Columns
      /\ received \in 0..MaxReceived
  BY <1>0, <1>1 DEF TypeOK
<1> HIDE DEF u, c
<1>7. \A v \in Users, d \in Columns :
        \/ lists'[v][d] = lists[v][d]
        \/ v = u /\ d = c /\ (<<v, d>> \in contended' \/ IsInjective(lists'[v][d]))
  BY <1>3, <1>5 DEF u, c
<1>8. /\ \A v \in Users, d \in Columns :
           \/ lists'[v][d] = lists[v][d]
           \/ /\ req[r].pc # "idle" /\ v = req[r].user /\ d = req[r].column
              /\ <<v, d>> \in contended' \/ IsInjective(lists'[v][d])
      /\ lists' \in [Users -> Lists] /\ contended \subseteq contended'
      /\ contended' \subseteq Users \X Columns /\ received' \in 0..MaxReceived
  BY <1>3, <1>5, <1>6, <1>7 DEF u, c
<1>9. QED
  BY <1>4, <1>5, <1>6, <1>8, IdleOK, HandlerStep

LEMMA NextIInv == ASSUME PreferencesAssumption PROVE IInv /\ [Next]_vars => IInv'
<1> SUFFICES ASSUME IInv, [Next]_vars PROVE IInv'
  OBVIOUS
<1>0. TypeOK /\ NoDuplicates /\ Alone /\ \A s \in Requests : HeldOK(s)
  BY DEF IInv
<1>1. ASSUME NEW r \in Requests, NEW u \in Users, NEW c \in Columns, NEW x \in Restaurants,
             NEW step \in {"readToAdd", "readToDelete"}, Receive(r, step, u, c, x)
      PROVE  IInv'
  <2> DEFINE f == [pc |-> step, user |-> u, column |-> c, restaurant |-> x, row |-> NoLists]
  <2>1. FrameOK(f) /\ f.pc = step /\ f.user = u /\ f.column = c
    BY NoListsType DEF FrameOK
  <2>2. /\ req' = [req EXCEPT ![r] = f] /\ UNCHANGED <<rows, lists>>
        /\ received < MaxReceived /\ received' = received + 1
        /\ contended' = IF \E s \in Requests : req[s].user = u /\ req[s].column = c
                        THEN contended \cup {<<u, c>>} ELSE contended
    BY <1>1 DEF Receive
  <2>3. received' \in 0..MaxReceived
    BY <1>0, <2>2 DEF TypeOK, PreferencesAssumption
  <2>4. contended \subseteq contended' /\ contended' \subseteq Users \X Columns
    BY <1>0, <2>2 DEF TypeOK
  <2>5. rows \subseteq Users /\ lists \in [Users -> Lists] /\ \A v \in Users \ rows : lists[v] = NoLists
    BY <1>0 DEF TypeOK
  <2>6. \/ <<f.user, f.column>> \in contended'
        \/ \A s \in Requests : ~(req[s].user = f.user /\ req[s].column = f.column)
    BY <2>1, <2>2
  <2> HIDE DEF f
  <2>7. QED
    BY <2>1, <2>2, <2>3, <2>4, <2>5, <2>6, HandlerStep
<1>2. ASSUME NEW r \in Requests, Respond(r), UNCHANGED <<rows, lists, observed>> PROVE IInv'
  BY <1>2, IdleOK, ReadingStep DEF Respond
<1>3. ASSUME NEW r \in Requests, CheckAdd(r) PROVE IInv'
  <2>1. /\ FrameOK(req[r]) /\ req[r].pc = "readToAdd" /\ UNCHANGED <<rows, lists, observed>>
        /\ req[r].user \in Users /\ req[r].column \in Columns
    BY <1>0, <1>3 DEF CheckAdd, At, TypeOK, FrameOK
  <2>2. CASE Respond(r)
    BY <1>2, <2>1, <2>2
  <2>3. CASE ~Respond(r)
    <3> DEFINE f == [req[r] EXCEPT !.pc = "push"]
    <3>1. /\ req' = [req EXCEPT ![r] = f]
          /\ ~(req[r].user \in rows /\ req[r].restaurant \in Range(lists[req[r].user][req[r].column]))
      BY <1>3, <2>3 DEF CheckAdd
    <3>2. /\ FrameOK(f) /\ f.pc = "push" /\ f.user = req[r].user /\ f.column = req[r].column
          /\ f.restaurant = req[r].restaurant
      BY <2>1 DEF FrameOK
    <3>3. req[r].user \notin rows => lists[req[r].user][req[r].column] = << >>
      BY <1>0, <2>1 DEF TypeOK, NoLists
    <3>4. req[r].restaurant \notin Range(lists[req[r].user][req[r].column])
      <4>1. PICK list : list = lists[req[r].user][req[r].column]
        OBVIOUS
      <4>2. CASE req[r].user \in rows
        BY <3>1, <4>2
      <4>3. CASE req[r].user \notin rows
        <5>1. list = << >> /\ DOMAIN list = {}
          BY <3>3, <4>1, <4>3
        <5>2. Range(list) = {}
          BY <5>1 DEF Range
        <5>3. QED
          BY <4>1, <5>2
      <4>4. QED
        BY <4>2, <4>3
    <3> HIDE DEF f
    <3>5. QED
      BY <2>1, <3>1, <3>2, <3>4, ReadingStep
  <2>4. QED
    BY <2>2, <2>3
<1>4. ASSUME NEW r \in Requests, Push(r) PROVE IInv'
  <2> DEFINE u == req[r].user
             c == req[r].column
             x == req[r].restaurant
  <2>1. u \in Users /\ c \in Columns /\ x \in Restaurants /\ req[r].pc = "push" /\ HeldOK(r)
    BY <1>0, <1>4 DEF Push, At, TypeOK, FrameOK
  <2>2. lists[u][c] \in Seq(Restaurants) /\ DOMAIN lists[u][c] = 1..Len(lists[u][c])
    BY <1>0, <2>1, ArrayType
  <2>3. /\ Append(lists[u][c], x) \in Seq(Restaurants)
        /\ <<u, c>> \notin contended => IsInjective(Append(lists[u][c], x))
    <3> DEFINE old == lists[u][c]
               new == Append(old, x)
    <3>1. /\ new \in Seq(Restaurants) /\ Len(new) = Len(old) + 1 /\ Len(old) \in Nat
          /\ \A i \in 1..Len(old) : new[i] = old[i]
          /\ new[Len(old) + 1] = x /\ DOMAIN new = 1..(Len(old) + 1)
      <4> HIDE DEF u, c, x, old
      <4>1. old \in Seq(Restaurants) /\ Len(old) \in Nat
        BY <2>2, LenProperties DEF old
      <4>2. /\ new \in Seq(Restaurants) /\ Len(new) = Len(old) + 1
            /\ \A i \in 1..Len(old) : new[i] = old[i]
            /\ new[Len(old) + 1] = x
        BY <2>1, <4>1, AppendProperties
      <4>3. QED
        BY <4>1, <4>2, LenProperties
    <3>2. ASSUME <<u, c>> \notin contended PROVE IsInjective(new)
      <4>1. x \notin Range(old) /\ \A i, j \in DOMAIN old : old[i] = old[j] => i = j
        BY <1>0, <2>1, <3>2 DEF HeldOK, NoDuplicates
      <4> HIDE DEF u, c, x, old, new
      <4>2. \A i \in DOMAIN new : i \in DOMAIN old \/ i = Len(old) + 1
        BY <2>2, <3>1 DEF old
      <4>3. \A i \in DOMAIN old : new[i] = old[i] /\ old[i] # x
        BY <2>2, <3>1, <4>1 DEF Range, old
      <4>4. QED
        BY <3>1, <4>1, <4>2, <4>3 DEF IsInjective
    <3>3. QED
      BY <3>1, <3>2
  <2>4. /\ lists' = [lists EXCEPT ![u][c] = Append(lists[u][c], x)]
        /\ rows' = rows \cup {u} /\ Respond(r) /\ UNCHANGED observed
    BY <1>4, <2>1, <1>0 DEF Push, TypeOK, Lists
  <2>5. QED
    BY <2>1, <2>3, <2>4, WritingStep
<1>5. ASSUME NEW r \in Requests, ReadToDelete(r) PROVE IInv'
  <2>1. /\ FrameOK(req[r]) /\ req[r].pc = "readToDelete" /\ UNCHANGED <<rows, lists, observed>>
        /\ req[r].user \in Users /\ req[r].column \in Columns
    BY <1>0, <1>5 DEF ReadToDelete, At, TypeOK, FrameOK
  <2>2. CASE req[r].user \notin rows
    BY <1>2, <1>5, <2>1, <2>2 DEF ReadToDelete
  <2>3. CASE req[r].user \in rows
    <3> DEFINE f == [[req[r] EXCEPT !.pc = "write"] EXCEPT !.row = lists[req[r].user]]
    <3>1. req' = [req EXCEPT ![r] = f]
      BY <1>5, <2>3 DEF ReadToDelete
    <3>2. lists[req[r].user] \in Lists
      BY <1>0, <2>1 DEF TypeOK
    <3>3. /\ FrameOK(f) /\ f.pc = "write" /\ f.user = req[r].user /\ f.column = req[r].column
          /\ f.row = lists[req[r].user]
      BY <2>1, <3>2 DEF FrameOK
    <3> HIDE DEF f
    <3>4. QED
      BY <2>1, <2>3, <3>1, <3>3, ReadingStep
  <2>4. QED
    BY <2>2, <2>3
<1>6. ASSUME NEW r \in Requests, Write(r) PROVE IInv'
  <2> DEFINE u == req[r].user
             c == req[r].column
             new == Without(req[r].row[c], req[r].restaurant)
  <2>1. /\ u \in Users /\ c \in Columns /\ req[r].row \in Lists /\ req[r].pc = "write" /\ HeldOK(r)
    BY <1>0, <1>6 DEF Write, At, TypeOK, FrameOK
  <2>2. req[r].row[c] \in Seq(Restaurants)
    BY <2>1 DEF Lists
  <2>3. new \in Seq(Restaurants) /\ (IsInjective(req[r].row[c]) => IsInjective(new))
    BY <2>2, WithoutProperties
  <2>4. <<u, c>> \notin contended => IsInjective(req[r].row[c])
    <3>1. <<u, c>> \notin contended => req[r].row[c] = lists[u][c]
      BY <2>1 DEF HeldOK
    <3>2. <<u, c>> \notin contended => IsInjective(lists[u][c])
      BY <1>0, <2>1 DEF NoDuplicates, IsInjective
    <3>3. QED
      BY <3>1, <3>2, Zenon
  <2>5. /\ lists' = [lists EXCEPT ![u][c] = new]
        /\ rows' = rows \cup {u} /\ Respond(r) /\ UNCHANGED observed
    BY <1>6, <2>1 DEF Write, HeldOK
  <2> HIDE DEF new
  <2>6. QED
    BY <2>1, <2>3, <2>4, <2>5, WritingStep
<1>7. CASE UNCHANGED vars
  <2>1. UNCHANGED <<rows, lists, req, contended, received>>
    BY <1>7 DEF vars
  <2>2. TypeOK'
    BY <1>0, <2>1 DEF TypeOK, FrameOK
  <2>3. QED
    BY <1>0, <2>1, <2>2 DEF IInv, NoDuplicates, Alone, HeldOK
<1>8. ASSUME NEW r \in Requests, NEW u \in Users, NEW c \in Columns, NEW x \in Restaurants,
             Add(r, u, c, x) \/ Delete(r, u, c, x)
      PROVE  IInv'
  BY <1>1, <1>8 DEF Add, Delete
<1>9. ASSUME NEW r \in Requests, Abort(r) PROVE IInv'
  BY <1>2, <1>9 DEF Abort
<1>10. QED
  BY <1>3, <1>4, <1>5, <1>6, <1>7, <1>8, <1>9 DEF Next

-----------------------------------------------------------------------------
(* The refinement: an array is the set of what it lists.                   *)

Marked == [u \in Users |-> [c \in Columns |-> Range(lists[u][c])]]

LEMMA MarkedStep ==
  ASSUME TypeOK, NEW u \in Users, NEW c \in Columns, NEW array,
         lists' = [lists EXCEPT ![u][c] = array]
  PROVE  Marked' = [Marked EXCEPT ![u][c] = Range(array)]
<1>1. lists \in [Users -> [Columns -> Seq(Restaurants)]]
  BY DEF TypeOK, Lists
<1>2. \A v \in Users, d \in Columns : lists'[v][d] = IF v = u /\ d = c THEN array ELSE lists[v][d]
  BY <1>1
<1>3. Marked' = [v \in Users |-> [d \in Columns |-> Range(lists'[v][d])]]
  BY DEF Marked
<1>4. \A v \in Users : [d \in Columns |-> Range(lists'[v][d])]
                       = IF v = u THEN [Marked[v] EXCEPT ![c] = Range(array)] ELSE Marked[v]
  BY <1>2 DEF Marked
<1>5. [Marked EXCEPT ![u][c] = Range(array)]
      = [v \in Users |-> IF v = u THEN [Marked[v] EXCEPT ![c] = Range(array)] ELSE Marked[v]]
  BY DEF Marked
<1>6. QED
  BY <1>3, <1>4, <1>5

LEMMA AppendRange ==
  ASSUME NEW list \in Seq(Restaurants), NEW x \in Restaurants
  PROVE  Range(Append(list, x)) = Range(list) \cup {x}
<1>1. /\ Append(list, x) \in Seq(Restaurants) /\ Len(list) \in Nat
      /\ Len(Append(list, x)) = Len(list) + 1
      /\ \A i \in 1..Len(list) : Append(list, x)[i] = list[i]
      /\ Append(list, x)[Len(list) + 1] = x
  BY AppendProperties, LenProperties
<1>2. DOMAIN list = 1..Len(list) /\ DOMAIN Append(list, x) = 1..(Len(list) + 1)
  BY <1>1, LenProperties
<1>3. ASSUME NEW y \in Range(Append(list, x)) PROVE y \in Range(list) \cup {x}
  <2>1. PICK i \in 1..(Len(list) + 1) : y = Append(list, x)[i]
    BY <1>2, <1>3 DEF Range
  <2>2. i \in 1..Len(list) \/ i = Len(list) + 1
    BY <1>1
  <2>3. QED
    BY <1>1, <1>2, <2>1, <2>2 DEF Range
<1>4. ASSUME NEW y \in Range(list) \cup {x} PROVE y \in Range(Append(list, x))
  <2>1. CASE y = x
    <3>1. Len(list) + 1 \in 1..(Len(list) + 1)
      BY <1>1
    <3>2. QED
      BY <1>1, <1>2, <2>1, <3>1 DEF Range
  <2>2. CASE y \in Range(list)
    <3>1. PICK i \in 1..Len(list) : y = list[i]
      BY <1>2, <2>2 DEF Range
    <3>2. i \in 1..(Len(list) + 1)
      BY <1>1
    <3>3. QED
      BY <1>1, <1>2, <3>1, <3>2 DEF Range
  <2>3. QED
    BY <1>4, <2>1, <2>2
<1>5. QED
  BY <1>3, <1>4

LEMMA InitMarks == Init => AsSets!MarksInit
<1> SUFFICES ASSUME Init PROVE AsSets!MarksInit
  OBVIOUS
<1>1. \A u \in Users, c \in Columns : Range(lists[u][c]) = {}
  BY DEF Init, NoLists, Range
<1>2. QED
  BY <1>1 DEF Init, AsSets!MarksInit

LEMMA NextMarks == IInv /\ [Next]_vars => [AsSets!MarksNext]_<<Marked, contended>>
<1> SUFFICES ASSUME IInv, [Next]_vars, ~UNCHANGED <<Marked, contended>> PROVE AsSets!MarksNext
  OBVIOUS
<1>0. TypeOK /\ \A s \in Requests : HeldOK(s)
  BY DEF IInv
<1>1. UNCHANGED lists => UNCHANGED Marked
  BY DEF Marked
<1>2. ASSUME NEW r \in Requests, NEW u \in Users, NEW c \in Columns, NEW x \in Restaurants,
             NEW step, Receive(r, step, u, c, x)
      PROVE  AsSets!MarksNext
  <2>1. UNCHANGED Marked /\ contended' = contended \cup {<<u, c>>}
    BY <1>1, <1>2 DEF Receive
  <2>2. AsSets!Contend(u, c)
    BY <2>1 DEF AsSets!Contend, Marked
  <2>3. QED
    BY <2>2 DEF AsSets!MarksNext
<1>3. ASSUME NEW u \in Users, NEW c \in Columns, NEW array \in Seq(Restaurants),
             lists' = [lists EXCEPT ![u][c] = array], UNCHANGED contended,
             <<u, c>> \in contended
      PROVE  AsSets!MarksNext
  <2>1. Marked' = [Marked EXCEPT ![u][c] = Range(array)]
    BY <1>0, <1>3, MarkedStep
  <2>2. Range(array) \in SUBSET Restaurants
    BY ElementOfSeq, LenProperties DEF Range
  <2>3. AsSets!Overwrite(u, c)
    BY <1>3, <2>1, <2>2 DEF AsSets!Overwrite, Marked
  <2>4. QED
    BY <2>3 DEF AsSets!MarksNext
<1>4. ASSUME NEW r \in Requests, Push(r) PROVE AsSets!MarksNext
  <2> DEFINE u == req[r].user
             c == req[r].column
             x == req[r].restaurant
             new == Append(lists[u][c], x)
  <2>1. u \in Users /\ c \in Columns /\ x \in Restaurants /\ req[r].pc = "push" /\ HeldOK(r)
    BY <1>0, <1>4 DEF Push, At, TypeOK, FrameOK
  <2>2. lists[u][c] \in Seq(Restaurants)
    BY <1>0, <2>1, ArrayType
  <2>3. lists' = [lists EXCEPT ![u][c] = new] /\ UNCHANGED contended
    BY <1>0, <1>4, <2>1 DEF Push, TypeOK, Lists, observed
  <2>4. new \in Seq(Restaurants) /\ Range(new) = Range(lists[u][c]) \cup {x}
    BY <2>1, <2>2, AppendProperties, AppendRange
  <2> HIDE DEF new
  <2>5. ASSUME <<u, c>> \notin contended PROVE AsSets!Mark(u, c, x)
    <3>1. x \notin Range(lists[u][c])
      BY <2>1, <2>5 DEF HeldOK
    <3>2. Marked' = [Marked EXCEPT ![u][c] = Range(new)] /\ Marked[u][c] = Range(lists[u][c])
      <4>1. Marked' = [Marked EXCEPT ![u][c] = Range(new)]
        BY <1>0, <2>1, <2>3, MarkedStep, ZenonT(60)
      <4>2. Marked[u][c] = Range(lists[u][c])
        BY <2>1 DEF Marked
      <4>3. QED
        BY <4>1, <4>2
    <3>3. Range(new) = Marked[u][c] \cup {x} /\ x \notin Marked[u][c]
      BY <2>4, <3>1, <3>2
    <3>4. Marked' = [Marked EXCEPT ![u][c] = Marked[u][c] \cup {x}]
      BY <3>2, <3>3
    <3>5. QED
      BY <2>3, <3>3, <3>4 DEF AsSets!Mark, Marked
  <2>6. QED
    BY <1>3, <2>1, <2>3, <2>4, <2>5 DEF AsSets!MarksNext, AsSets!MarkOrUnmark
<1>5. ASSUME NEW r \in Requests, Write(r) PROVE AsSets!MarksNext
  <2> DEFINE u == req[r].user
             c == req[r].column
             x == req[r].restaurant
             new == Without(req[r].row[c], x)
  <2>1. /\ u \in Users /\ c \in Columns /\ x \in Restaurants /\ req[r].row \in Lists
        /\ req[r].pc = "write" /\ HeldOK(r)
    BY <1>0, <1>5 DEF Write, At, TypeOK, FrameOK
  <2>2. req[r].row[c] \in Seq(Restaurants)
    BY <2>1 DEF Lists
  <2>3. new \in Seq(Restaurants) /\ Range(new) = Range(req[r].row[c]) \ {x}
    BY <2>2, WithoutProperties
  <2>4. lists' = [lists EXCEPT ![u][c] = new] /\ UNCHANGED contended
    BY <1>5 DEF Write, observed
  <2> HIDE DEF new
  <2>5. ASSUME <<u, c>> \notin contended PROVE AsSets!Unmark(u, c, x)
    <3>1. Range(new) = Range(lists[u][c]) \ {x}
      BY <2>1, <2>3, <2>5 DEF HeldOK
    <3>2. Marked' = [Marked EXCEPT ![u][c] = Range(new)] /\ Marked[u][c] = Range(lists[u][c])
      <4>1. Marked' = [Marked EXCEPT ![u][c] = Range(new)]
        BY <1>0, <2>1, <2>4, MarkedStep, ZenonT(60)
      <4>2. Marked[u][c] = Range(lists[u][c])
        BY <2>1 DEF Marked
      <4>3. QED
        BY <4>1, <4>2
    <3>3. x \in Marked[u][c]
      <4> SUFFICES ASSUME x \notin Marked[u][c] PROVE UNCHANGED Marked
        BY <2>4
      <4>1. Marked[u][c] \ {x} = Marked[u][c]
        OBVIOUS
      <4>2. [Marked EXCEPT ![u][c] = Marked[u][c]] = Marked
        BY <2>1 DEF Marked
      <4>3. QED
        BY <3>1, <3>2, <4>1, <4>2
    <3>4. Marked' = [Marked EXCEPT ![u][c] = Marked[u][c] \ {x}]
      BY <3>1, <3>2
    <3>5. QED
      BY <2>4, <3>3, <3>4 DEF AsSets!Unmark, Marked
  <2>6. QED
    BY <1>3, <2>1, <2>3, <2>4, <2>5 DEF AsSets!MarksNext, AsSets!MarkOrUnmark
<1>6. ASSUME UNCHANGED <<lists, contended>> PROVE FALSE
  BY <1>1, <1>6
<1>7. ASSUME NEW r \in Requests, CheckAdd(r) \/ ReadToDelete(r) \/ Abort(r) PROVE FALSE
  BY <1>6, <1>7 DEF CheckAdd, ReadToDelete, Abort, observed
<1>8. CASE UNCHANGED vars
  BY <1>6, <1>8 DEF vars
<1>9. ASSUME NEW r \in Requests, NEW u \in Users, NEW c \in Columns, NEW x \in Restaurants,
             Add(r, u, c, x) \/ Delete(r, u, c, x)
      PROVE  AsSets!MarksNext
  BY <1>2, <1>9 DEF Add, Delete
<1>10. QED
  BY <1>4, <1>5, <1>7, <1>8, <1>9 DEF Next

-----------------------------------------------------------------------------
(* Results.                                                                *)

(* The inductive invariant holds of every behaviour.                       *)
THEOREM InductiveInvariant == ASSUME PreferencesAssumption PROVE Spec => []IInv
BY InitIInv, NextIInv, PTL DEF Spec

(* The arrays and the frames are of their types: a member without a row    *)
(* has no array.                                                           *)
THEOREM TypeCorrect == ASSUME PreferencesAssumption PROVE Spec => []TypeOK
<1>1. IInv => TypeOK
  BY DEF IInv
<1>2. QED
  BY <1>1, InductiveInvariant, PTL

(* createPreferenceRestaurant keeps an array free of duplicates, unless    *)
(* two handlers met on it.                                                 *)
THEOREM NoDuplicatesHolds == ASSUME PreferencesAssumption PROVE Spec => []NoDuplicates
<1>1. IInv => NoDuplicates
  BY DEF IInv
<1>2. QED
  BY <1>1, InductiveInvariant, PTL

(* The arrays implement the sets that the routes promise: every step marks *)
(* or unmarks one restaurant, unless two handlers met on the array.        *)
THEOREM ImplementsMarks == ASSUME PreferencesAssumption PROVE Spec => OneMarkAtATime
<1>1. IInv /\ [Next]_vars => [AsSets!MarksNext]_<<[u \in Users |-> [c \in Columns |-> Range(lists[u][c])]], contended>>
  BY NextMarks DEF Marked
<1>2. QED
  BY <1>1, InitMarks, InductiveInvariant, PTL DEF Spec, OneMarkAtATime, AsSets!MarksSpec
=============================================================================
