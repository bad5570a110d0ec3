--------------------------- MODULE Common_proofs ----------------------------
(***************************************************************************)
(* The counter of the rate limit, for any number of racing requests, any   *)
(* limit and any time to live: its key always has an expiry, or a request  *)
(* that is about to give it one, unless a request died; and no Ttl ticks   *)
(* let more than twice the limit pass.  Then the connections to Redis, the *)
(* log and what it shows of a body, and all of them as behaviours of       *)
(* Common.                                                                 *)
(***************************************************************************)
EXTENDS Common, Integers, Sequences, WellFoundedInduction, TLAPS

LEMMA InitIsTyped == Init => TypeOK
  BY RateLimitAssumption DEF Init, TypeOK, Idle, Ages

(* One leaf for each action; the clock moves the observed ages by one.     *)
LEMMA StepIsTyped == TypeOK /\ [Next]_vars => TypeOK'
<1> SUFFICES ASSUME TypeOK, [Next]_vars PROVE TypeOK'
  OBVIOUS
<1> USE RateLimitAssumption
<1>1. CASE Tick
  <2>1. recent' \in [Ages -> Nat]
    <3>1. ASSUME NEW a \in Ages, a # 0 PROVE a - 1 \in Ages
      BY <3>1 DEF Ages
    <3> QED BY <1>1, <3>1 DEF Tick, TypeOK
  <2>2. count' \in 0..Limit + 1 /\ ttl' \in 0..Ttl /\ (count' = 0 => ttl' = 0)
    BY <1>1 DEF Tick, TypeOK
  <2> QED BY <1>1, <2>1, <2>2 DEF Tick, TypeOK
<1>2. ASSUME NEW r \in Requests, Incr(r) PROVE TypeOK'
  <2>1. count' \in 1..Limit + 1
    BY <1>2 DEF Incr, TypeOK, AtMost
  <2>2. recent' \in [Ages -> Nat]
    BY <1>2 DEF Incr, TypeOK, Ages
  <2>3. req' \in [Requests -> {Idle} \cup [pc: {"expire", "judge"}, count: 1..Limit + 1]]
    BY <1>2, <2>1 DEF Incr, TypeOK
  <2> QED BY <1>2, <2>1, <2>2, <2>3 DEF Incr, TypeOK
<1>3. ASSUME NEW r \in Requests, Expire(r) PROVE TypeOK'
  <2>1. req[r] \in [pc: {"expire", "judge"}, count: 1..Limit + 1]
    BY <1>3 DEF Expire, TypeOK, Idle
  <2>2. req' \in [Requests -> {Idle} \cup [pc: {"expire", "judge"}, count: 1..Limit + 1]]
    BY <1>3, <2>1 DEF Expire, TypeOK
  <2> QED BY <1>3, <2>2 DEF Expire, TypeOK
<1>4. ASSUME NEW r \in Requests, Judge(r) \/ Abort(r) PROVE TypeOK'
  BY <1>4 DEF Judge, Abort, TypeOK
<1>5. CASE UNCHANGED vars
  BY <1>5 DEF vars, TypeOK
<1> QED BY <1>1, <1>2, <1>3, <1>4, <1>5 DEF Next

(* The state of the guard keeps its types, whatever the constants.         *)
THEOREM TypeCorrect == Spec => []TypeOK
  BY InitIsTyped, StepIsTyped, PTL DEF Spec

LEMMA StepKeepsExpiry == TypeOK /\ KeyExpires /\ [Next]_vars => KeyExpires'
<1> SUFFICES ASSUME TypeOK, KeyExpires, [Next]_vars, aborts' = 0, count' > 0
             PROVE  ttl' > 0 \/ \E r \in Requests : req'[r].pc = "expire"
  BY DEF KeyExpires
<1> USE RateLimitAssumption
<1>1. CASE Tick
  BY <1>1 DEF Tick, TypeOK, KeyExpires
<1>2. ASSUME NEW r \in Requests, Incr(r)
      PROVE  ttl' > 0 \/ \E q \in Requests : req'[q].pc = "expire"
  <2>1. CASE count = 0
    <3>1. count' = 1
      BY <1>2, <2>1 DEF Incr, AtMost, TypeOK
    <3> QED BY <1>2, <3>1 DEF Incr, TypeOK
  <2>2. CASE count > 0 /\ ttl > 0
    BY <1>2, <2>2 DEF Incr
  <2>3. CASE count > 0 /\ ttl = 0
    <3>1. PICK q \in Requests : req[q].pc = "expire"
      BY <1>2, <2>3 DEF Incr, KeyExpires
    <3>2. q # r
      BY <1>2, <3>1 DEF Incr, Idle
    <3> QED BY <1>2, <3>1, <3>2 DEF Incr, TypeOK
  <2> QED BY <2>1, <2>2, <2>3 DEF TypeOK
<1>3. ASSUME NEW r \in Requests, Expire(r)
      PROVE  ttl' > 0 \/ \E q \in Requests : req'[q].pc = "expire"
  BY <1>3 DEF Expire, TypeOK
<1>4. ASSUME NEW r \in Requests, Judge(r)
      PROVE  ttl' > 0 \/ \E q \in Requests : req'[q].pc = "expire"
  BY <1>4 DEF Judge, TypeOK, KeyExpires
<1>5. ASSUME NEW r \in Requests, Abort(r) PROVE FALSE
  BY <1>5 DEF Abort, TypeOK
<1>6. CASE UNCHANGED vars
  BY <1>6 DEF vars, KeyExpires
<1> QED BY <1>1, <1>2, <1>3, <1>4, <1>5, <1>6 DEF Next

(* While no request died between INCR and EXPIRE, no caller is locked out  *)
(* by a key that never expires.                                            *)
THEOREM KeyExpiresHolds == Spec => []KeyExpires
<1>1. Init => KeyExpires
  BY DEF Init, KeyExpires
<1> QED BY <1>1, InitIsTyped, StepIsTyped, StepKeepsExpiry, PTL DEF Spec

(* What is left of a block: the requests about to set the expiry, then the *)
(* time to live.  While the caller stays blocked and no request dies,      *)
(* neither grows but for an expiry that one of them sets, and each tick    *)
(* takes from the second unless such a request is still on its way.        *)
Blocked == count > Limit /\ aborts = 0
Pending == {r \in Requests : req[r].pc = "expire"}
Shorter ==
  \/ count' <= Limit \/ aborts' > 0
  \/ Pending' \subseteq Pending /\ Pending' # Pending
  \/ Pending' = Pending /\ ttl' <= ttl /\ (Tick => ttl' < ttl \/ Pending # {})

LEMMA StepShortens == TypeOK /\ KeyExpires /\ [Next]_vars => (Blocked => Shorter)
<1> SUFFICES ASSUME TypeOK, KeyExpires, [Next]_vars, Blocked PROVE Shorter
  OBVIOUS
<1>0. /\ Limit \in Nat \ {0} /\ count \in 0..Limit + 1 /\ ttl \in 0..Ttl /\ aborts = 0 /\ Ttl \in Nat
      /\ count > Limit /\ count > 0
  BY RateLimitAssumption DEF TypeOK, Blocked
<1>1. CASE Tick
  <2>1. Pending' = Pending
    BY <1>1 DEF Tick, Pending
  <2>2. CASE ttl = 0
    <3>1. Pending # {}
      BY <1>0, <2>2 DEF KeyExpires, Pending
    <3>2. ttl' = 0
      BY <1>1, <2>2 DEF Tick
    <3>3. QED
      BY <2>1, <2>2, <3>1, <3>2 DEF Shorter
  <2>3. CASE ttl > 0
    <3>1. ttl' < ttl
      BY <1>0, <1>1, <2>3 DEF Tick
    <3>2. ttl' <= ttl
      BY <1>0, <1>1, <2>3 DEF Tick
    <3>3. QED
      BY <2>1, <3>1, <3>2 DEF Shorter
  <2>4. QED
    BY <1>0, <2>2, <2>3
<1>2. ASSUME ~Tick, UNCHANGED ttl, Pending' \subseteq Pending PROVE Shorter
  BY <1>0, <1>2 DEF Shorter
<1>3. ASSUME NEW r \in Requests, Incr(r), ~Tick PROVE Shorter
  <2>1. count' = Limit + 1
    BY <1>0, <1>3 DEF Incr, AtMost
  <2>2. req'[r].pc = "judge" /\ \A s \in Requests \ {r} : req'[s] = req[s]
    BY <1>0, <1>3, <2>1 DEF Incr, TypeOK
  <2>3. Pending' \subseteq Pending
    BY <2>2 DEF Pending
  <2>4. QED
    BY <1>2, <1>3, <2>3 DEF Incr
<1>4. ASSUME NEW r \in Requests, Expire(r) PROVE Shorter
  <2>1. r \in Pending /\ req'[r].pc = "judge" /\ \A s \in Requests \ {r} : req'[s] = req[s]
    BY <1>4 DEF Expire, TypeOK, Pending, Idle
  <2>2. Pending' \subseteq Pending /\ r \notin Pending'
    BY <2>1 DEF Pending
  <2>3. QED
    BY <2>1, <2>2 DEF Shorter
<1>5. ASSUME NEW r \in Requests, Judge(r), ~Tick PROVE Shorter
  <2>1. req'[r].pc = "idle" /\ \A s \in Requests \ {r} : req'[s] = req[s]
    BY <1>5 DEF Judge, TypeOK, Idle
  <2>2. Pending' \subseteq Pending
    BY <2>1 DEF Pending
  <2>3. QED
    BY <1>2, <1>5, <2>2 DEF Judge
<1>6. ASSUME NEW r \in Requests, Abort(r) PROVE Shorter
  BY <1>0, <1>6 DEF Abort, Shorter
<1>7. CASE UNCHANGED vars /\ ~Tick
  BY <1>2, <1>7 DEF vars, Pending
<1>8. QED
  BY <1>1, <1>3, <1>4, <1>5, <1>6, <1>7 DEF Next

(* While no request dies, a block wears off whatever the blocked caller    *)
(* sends: the safety that NoPermanentBlock rests on.                       *)
THEOREM BlocksGetShorter == Spec => [][Blocked => Shorter]_vars
<1>1. Init => KeyExpires
  BY DEF Init, KeyExpires
<1>2. QED
  BY <1>1, InitIsTyped, StepIsTyped, StepKeepsExpiry, StepShortens, PTL DEF Spec

-----------------------------------------------------------------------------
(* The sum over the last ticks.  The induction over their number is stated *)
(* with a set, since the provers cannot instantiate a theorem about P(_).  *)

LEMMA NatSetInduction ==
  ASSUME NEW S, 0 \in S, \A n \in Nat : n \in S => n + 1 \in S
  PROVE  Nat \subseteq S
<1> DEFINE Missing == Nat \ S
<1> SUFFICES ASSUME Missing # {} PROVE FALSE
  OBVIOUS
<1>1. PICK n \in Missing : \A m \in Missing : <<m, n>> \notin OpToRel(<, Nat)
  <2>1. Missing \subseteq Nat
    OBVIOUS
  <2> HIDE DEF Missing
  <2>2. QED
    BY <2>1, WFMin, NatLessThanWellFounded
<1>2. \A m \in Missing : ~(m < n)
  BY <1>1 DEF OpToRel
<1>3. n # 0 /\ n - 1 \in Nat /\ n - 1 < n /\ n = (n - 1) + 1
  OBVIOUS
<1>4. n - 1 \in S
  BY <1>2, <1>3
<1>5. QED
  BY <1>3, <1>4

SumsTo(sum, n, counts) ==
  sum = [a \in 0..n |-> IF a = 0 THEN 0 ELSE sum[a - 1] + counts[a - 1]]

LEMMA SumExists ==
  ASSUME NEW counts, NEW last \in Nat
  PROVE  \E sum : SumsTo(sum, last, counts)
<1> DEFINE S == {n \in Nat : \E sum : SumsTo(sum, n, counts)}
<1>1. 0 \in S
  <2>1. SumsTo([a \in 0..0 |-> 0], 0, counts)
    BY DEF SumsTo
  <2>2. QED
    BY <2>1
<1>2. ASSUME NEW n \in Nat, n \in S PROVE n + 1 \in S
  <2>1. PICK sum : SumsTo(sum, n, counts)
    BY <1>2
  <2> DEFINE longer == [a \in 0..(n + 1) |-> IF a = n + 1 THEN sum[n] + counts[n] ELSE sum[a]]
  <2>2. \A a \in 0..n : sum[a] = IF a = 0 THEN 0 ELSE sum[a - 1] + counts[a - 1]
    BY <2>1 DEF SumsTo
  <2>3. longer[n + 1] = sum[n] + counts[n] /\ \A a \in 0..n : longer[a] = sum[a]
    OBVIOUS
  <2> HIDE DEF longer
  <2>4. ASSUME NEW a \in 0..(n + 1)
        PROVE  longer[a] = IF a = 0 THEN 0 ELSE longer[a - 1] + counts[a - 1]
    <3>1. CASE a = n + 1
      BY <2>3, <3>1
    <3>2. CASE a \in 0..n
      BY <2>2, <2>3, <3>2
    <3>3. QED
      BY <3>1, <3>2
  <2>5. SumsTo(longer, n + 1, counts)
    BY <2>4 DEF SumsTo, longer
  <2>6. QED
    BY <2>5
<1>3. Nat \subseteq S
  <2> HIDE DEF S
  <2>1. QED
    BY <1>1, <1>2, NatSetInduction
<1>4. QED
  BY <1>3

(* The sums are natural numbers that grow with the number of ticks.        *)
LEMMA Sums ==
  ASSUME NEW counts, counts \in [Ages -> Nat], NEW sum, SumsTo(sum, Ttl, counts)
  PROVE  /\ sum[0] = 0
         /\ \A a \in Ages : sum[a + 1] = sum[a] + counts[a]
         /\ \A a \in 0..Ttl : sum[a] \in Nat
<1>0. \A a \in 0..Ttl : sum[a] = IF a = 0 THEN 0 ELSE sum[a - 1] + counts[a - 1]
  BY DEF SumsTo
<1>1. sum[0] = 0
  BY <1>0, RateLimitAssumption
<1>2. ASSUME NEW a \in Ages PROVE sum[a + 1] = sum[a] + counts[a]
  <2>1. a + 1 \in 0..Ttl /\ a + 1 # 0 /\ (a + 1) - 1 = a
    BY RateLimitAssumption DEF Ages
  <2>2. QED
    BY <1>0, <2>1
<1> DEFINE S == {n \in Nat : n <= Ttl => sum[n] \in Nat}
<1>3. 0 \in S
  BY <1>1
<1>4. ASSUME NEW n \in Nat, n \in S PROVE n + 1 \in S
  <2>1. CASE n + 1 <= Ttl
    <3>1. n \in Ages /\ sum[n] \in Nat /\ counts[n] \in Nat
      BY <1>4, <2>1, RateLimitAssumption DEF Ages
    <3>2. QED
      BY <1>2, <3>1
  <2>2. QED
    BY <2>1
<1>5. Nat \subseteq S
  <2> HIDE DEF S
  <2>1. QED
    BY <1>3, <1>4, NatSetInduction
<1>6. QED
  BY <1>1, <1>2, <1>5, RateLimitAssumption

LEMMA SumsGrow ==
  ASSUME NEW counts, counts \in [Ages -> Nat], NEW sum, SumsTo(sum, Ttl, counts), NEW a \in 0..Ttl
  PROVE  \A b \in 0..Ttl : a <= b => sum[a] <= sum[b]
<1> DEFINE S == {n \in Nat : n <= Ttl /\ a <= n => sum[a] <= sum[n]}
<1>0. /\ \A b \in Ages : sum[b + 1] = sum[b] + counts[b]
      /\ \A b \in 0..Ttl : sum[b] \in Nat
  BY Sums
<1>1. 0 \in S
  BY <1>0, RateLimitAssumption
<1>2. ASSUME NEW n \in Nat, n \in S PROVE n + 1 \in S
  <2>1. CASE n + 1 <= Ttl /\ a <= n
    <3>1. /\ n \in Ages /\ sum[n] \in Nat /\ counts[n] \in Nat /\ sum[a] \in Nat
          /\ sum[a] <= sum[n]
      BY <1>0, <1>2, <2>1, RateLimitAssumption DEF Ages
    <3>2. QED
      BY <1>0, <3>1
  <2>2. CASE a = n + 1
    BY <1>0, <2>2
  <2>3. QED
    BY <2>1, <2>2, RateLimitAssumption
<1>3. Nat \subseteq S
  <2> HIDE DEF S
  <2>1. QED
    BY <1>1, <1>2, NatSetInduction
<1>4. QED
  BY <1>3, RateLimitAssumption

LEMMA CountedInSums == SumsTo(CountedIn, Ttl, recent)
<1> DEFINE K == CHOOSE sum : SumsTo(sum, Ttl, recent)
<1>1. SumsTo(K, Ttl, recent)
  BY SumExists, RateLimitAssumption
<1>2. CountedIn = K
  BY Zenon DEF CountedIn, SumsTo
<1> HIDE DEF K
<1>3. QED
  BY <1>1, <1>2

LEMMA CountedInSumsNext == SumsTo(CountedIn', Ttl, recent')
<1> DEFINE K == CHOOSE sum : SumsTo(sum, Ttl, recent')
<1>1. SumsTo(K, Ttl, recent')
  BY SumExists, RateLimitAssumption
<1>2. CountedIn' = K
  BY Zenon DEF CountedIn, SumsTo
<1> HIDE DEF K
<1>3. QED
  BY <1>1, <1>2

(* One more in this tick is one more in every sum.                         *)
LEMMA OneMore ==
  ASSUME NEW counts, counts \in [Ages -> Nat], NEW sum, SumsTo(sum, Ttl, counts),
         NEW more, more \in [Ages -> Nat], NEW sum2, SumsTo(sum2, Ttl, more),
         more[0] = counts[0] + 1, \A a \in Ages \ {0} : more[a] = counts[a]
  PROVE  \A a \in 1..Ttl : sum2[a] = sum[a] + 1
<1>0. 0 \in Ages
  BY RateLimitAssumption DEF Ages
<1>1. /\ sum[0] = 0 /\ sum2[0] = 0
      /\ \A a \in Ages : sum[a + 1] = sum[a] + counts[a] /\ sum2[a + 1] = sum2[a] + more[a]
      /\ \A a \in 0..Ttl : sum[a] \in Nat /\ sum2[a] \in Nat
  <2>1. /\ sum[0] = 0 /\ \A a \in Ages : sum[a + 1] = sum[a] + counts[a]
        /\ \A a \in 0..Ttl : sum[a] \in Nat
    BY Sums
  <2>2. /\ sum2[0] = 0 /\ \A a \in Ages : sum2[a + 1] = sum2[a] + more[a]
        /\ \A a \in 0..Ttl : sum2[a] \in Nat
    BY Sums
  <2>3. QED
    BY <2>1, <2>2
<1> DEFINE S == {n \in Nat : n + 1 <= Ttl => sum2[n + 1] = sum[n + 1] + 1}
<1>2. 0 \in S
  <2>1. sum2[0 + 1] = 0 + more[0] /\ sum[0 + 1] = 0 + counts[0]
    BY <1>0, <1>1
  <2>2. QED
    BY <1>0, <2>1
<1>3. ASSUME NEW n \in Nat, n \in S PROVE n + 1 \in S
  <2>1. CASE (n + 1) + 1 <= Ttl
    <3>1. /\ n + 1 \in Ages /\ n + 1 # 0 /\ sum2[n + 1] = sum[n + 1] + 1
          /\ sum[n + 1] \in Nat /\ counts[n + 1] \in Nat /\ more[n + 1] = counts[n + 1]
      BY <1>0, <1>1, <1>3, <2>1, RateLimitAssumption DEF Ages
    <3>2. QED
      BY <1>1, <3>1
  <2>2. QED
    BY <2>1
<1>4. Nat \subseteq S
  <2> HIDE DEF S
  <2>1. QED
    BY <1>2, <1>3, NatSetInduction
<1>5. ASSUME NEW a \in 1..Ttl PROVE sum2[a] = sum[a] + 1
  <2>1. a - 1 \in Nat /\ (a - 1) + 1 = a /\ a <= Ttl
    BY RateLimitAssumption
  <2>2. QED
    BY <1>4, <2>1
<1>6. QED
  BY <1>5

(* After a tick, one tick more counts what was counted.                    *)
LEMMA OneTick ==
  ASSUME NEW counts, counts \in [Ages -> Nat], NEW sum, SumsTo(sum, Ttl, counts),
         NEW older, older = [a \in Ages |-> IF a = 0 THEN 0 ELSE counts[a - 1]],
         NEW sum2, SumsTo(sum2, Ttl, older)
  PROVE  \A a \in Ages : sum2[a + 1] = sum[a]
<1>0. /\ 0 \in Ages /\ older[0] = 0
      /\ \A a \in Ages : a # 0 => a - 1 \in Ages /\ older[a] = counts[a - 1]
  BY RateLimitAssumption DEF Ages
<1>1. older \in [Ages -> Nat]
  BY <1>0
<1>2. /\ sum[0] = 0 /\ sum2[0] = 0
      /\ \A a \in Ages : sum[a + 1] = sum[a] + counts[a] /\ sum2[a + 1] = sum2[a] + older[a]
      /\ \A a \in 0..Ttl : sum[a] \in Nat /\ sum2[a] \in Nat
  BY <1>1, Sums
<1> DEFINE S == {n \in Nat : n \in Ages => sum2[n + 1] = sum[n]}
<1>3. 0 \in S
  <2>1. sum2[0 + 1] = 0 + older[0]
    BY <1>0, <1>2
  <2>2. QED
    BY <1>0, <1>2, <2>1
<1>4. ASSUME NEW n \in Nat, n \in S PROVE n + 1 \in S
  <2>1. CASE n + 1 \in Ages
    <3>1. n \in Ages /\ n + 1 # 0 /\ (n + 1) - 1 = n
      BY <2>1, RateLimitAssumption DEF Ages
    <3>2. sum2[n + 1] = sum[n] /\ older[n + 1] = counts[n]
      BY <1>0, <1>4, <2>1, <3>1
    <3>3. QED
      BY <1>2, <2>1, <3>1, <3>2
  <2>2. QED
    BY <2>1
<1>5. Nat \subseteq S
  <2> HIDE DEF S
  <2>1. QED
    BY <1>3, <1>4, NatSetInduction
<1>6. QED
  BY <1>5, RateLimitAssumption DEF Ages

-----------------------------------------------------------------------------
(* Who was let in.                                                         *)

(* At some time within the last Ttl ticks the key that is there was made,  *)
(* or could be: since then no more were let in than it counts; before, and *)
(* still within the Ttl ticks, there was one other key at most.  That time *)
(* is no later than the last EXPIRE.                                       *)
TwoKeys ==
  \E since \in 1..Ttl :
    /\ CountedIn[since] <= AtMost(count, Limit)
    /\ CountedIn[Ttl] <= CountedIn[since] + Limit
    /\ ttl > 0 => Ttl <= since + ttl

LEMMA InitTwoKeys == Init => TwoKeys
<1> SUFFICES ASSUME Init PROVE TwoKeys
  OBVIOUS
<1>1. recent \in [Ages -> Nat] /\ \A a \in Ages : recent[a] = 0
  BY DEF Init
<1>2. /\ CountedIn[0] = 0
      /\ \A a \in Ages : CountedIn[a + 1] = CountedIn[a] + recent[a]
  BY <1>1, CountedInSums, Sums
<1> DEFINE S == {n \in Nat : n <= Ttl => CountedIn[n] = 0}
<1>3. 0 \in S
  BY <1>2
<1>4. ASSUME NEW n \in Nat, n \in S PROVE n + 1 \in S
  <2>1. CASE n + 1 <= Ttl
    <3>1. n \in Ages /\ CountedIn[n] = 0
      BY <1>4, <2>1, RateLimitAssumption DEF Ages
    <3>2. QED
      BY <1>1, <1>2, <3>1
  <2>2. QED
    BY <2>1
<1>5. Nat \subseteq S
  <2> HIDE DEF S
  <2>1. QED
    BY <1>3, <1>4, NatSetInduction
<1>6. CountedIn[1] = 0 /\ CountedIn[Ttl] = 0 /\ 1 \in 1..Ttl
  BY <1>5, RateLimitAssumption
<1>7. AtMost(count, Limit) = 0 /\ ttl = 0
  BY RateLimitAssumption DEF Init, AtMost
<1>8. QED
  BY <1>6, <1>7, RateLimitAssumption DEF TwoKeys

LEMMA StepKeepsTwoKeys == TypeOK /\ TwoKeys /\ [Next]_vars => TwoKeys'
<1> SUFFICES ASSUME TypeOK, TwoKeys, [Next]_vars PROVE TwoKeys'
  OBVIOUS
<1> USE RateLimitAssumption
<1>0. TypeOK'
  BY StepIsTyped
<1>1. PICK since \in 1..Ttl :
        /\ CountedIn[since] <= AtMost(count, Limit)
        /\ CountedIn[Ttl] <= CountedIn[since] + Limit
        /\ ttl > 0 => Ttl <= since + ttl
  BY DEF TwoKeys
<1>2. /\ count \in Nat /\ ttl \in 0..Ttl /\ recent \in [Ages -> Nat]
      /\ count' \in Nat /\ ttl' \in 0..Ttl /\ recent' \in [Ages -> Nat]
  BY <1>0 DEF TypeOK
<1>3. \A a \in 0..Ttl : CountedIn[a] \in Nat /\ CountedIn'[a] \in Nat
  BY <1>2, CountedInSums, CountedInSumsNext, Sums
<1>10. AtMost(count, Limit) \in Nat /\ AtMost(count', Limit) \in Nat
  BY <1>2 DEF AtMost
<1>4. CASE Tick
  <2>1. \A a \in Ages : CountedIn'[a + 1] = CountedIn[a]
    BY <1>2, <1>4, CountedInSums, CountedInSumsNext, OneTick DEF Tick
  <2>2. \A a \in 0..Ttl : CountedIn[a] <= CountedIn[Ttl]
    BY <1>2, CountedInSums, SumsGrow
  <2>3. Ttl - 1 \in Ages /\ CountedIn'[Ttl] = CountedIn[Ttl - 1]
    BY <2>1 DEF Ages
  <2>4. CASE ttl # 1 /\ since < Ttl
    <3>1. since \in Ages /\ CountedIn'[since + 1] = CountedIn[since] /\ since + 1 \in 1..Ttl
      BY <2>1, <2>4 DEF Ages
    <3>2. CountedIn[Ttl - 1] <= CountedIn[Ttl]
      BY <2>2, <2>3
    <3>3. count' = count /\ (ttl' > 0 => ttl > 0 /\ ttl' = ttl - 1)
      BY <1>2, <1>4, <2>4 DEF Tick
    <3>4. /\ CountedIn'[since + 1] <= AtMost(count', Limit)
          /\ CountedIn'[Ttl] <= CountedIn'[since + 1] + Limit
          /\ ttl' > 0 => Ttl <= (since + 1) + ttl'
      <4>1. /\ CountedIn[since] \in Nat /\ CountedIn[Ttl] \in Nat /\ CountedIn[Ttl - 1] \in Nat
            /\ AtMost(count', Limit) = AtMost(count, Limit) /\ since \in Nat
        BY <1>3, <2>3, <3>3 DEF Ages
      <4>2. CountedIn'[since + 1] <= AtMost(count', Limit)
        BY <1>1, <3>1, <4>1
      <4>3. CountedIn'[Ttl] <= CountedIn'[since + 1] + Limit
        BY <1>1, <2>3, <3>1, <3>2, <4>1
      <4>4. ttl' > 0 => Ttl <= (since + 1) + ttl'
        BY <1>1, <1>2, <3>3, <4>1
      <4>5. QED
        BY <4>2, <4>3, <4>4
    <3>5. QED
      BY <3>1, <3>4 DEF TwoKeys
  <2>5. CASE ttl # 1 /\ since = Ttl
    <3>1. CountedIn[Ttl - 1] <= CountedIn[Ttl]
      BY <2>2, <2>3
    <3>2. count' = count
      BY <1>2, <1>4, <2>5 DEF Tick
    <3>3. /\ CountedIn'[Ttl] <= AtMost(count', Limit)
          /\ CountedIn'[Ttl] <= CountedIn'[Ttl] + Limit
          /\ ttl' > 0 => Ttl <= Ttl + ttl'
      <4>1. /\ CountedIn[Ttl] \in Nat /\ CountedIn[Ttl - 1] \in Nat
            /\ AtMost(count', Limit) = AtMost(count, Limit)
        BY <1>3, <2>3, <3>2 DEF Ages
      <4>2. CountedIn'[Ttl] <= AtMost(count', Limit)
        BY <1>1, <1>10, <2>3, <2>5, <3>1, <4>1
      <4>3. ASSUME NEW n \in Nat PROVE n <= n + Limit
        OBVIOUS
      <4>4. ASSUME NEW n \in 0..Ttl PROVE Ttl <= Ttl + n
        OBVIOUS
      <4>5. QED
        BY <1>2, <2>3, <4>1, <4>2, <4>3, <4>4
    <3>4. QED
      BY <3>3 DEF TwoKeys
  <2>6. CASE ttl = 1
    <3>1. count' = 0 /\ ttl' = 0
      BY <1>4, <2>6 DEF Tick
    <3>2. CountedIn'[1] = 0
      <4>1. 0 \in Ages /\ CountedIn'[0 + 1] = CountedIn[0] /\ CountedIn[0] = 0
        BY <1>2, <2>1, CountedInSums, Sums DEF Ages
      <4>2. QED
        BY <4>1
    <3>3. since \in Nat /\ Ttl - 1 <= since
      BY <1>1, <2>6
    <3>4. CountedIn[Ttl - 1] <= CountedIn[since]
      BY <1>2, <2>3, <3>3, CountedInSums, SumsGrow DEF Ages
    <3>5. CountedIn[Ttl - 1] <= Limit
      <4>1. CountedIn[since] <= Limit
        <5>1. CountedIn[since] <= AtMost(count, Limit) /\ AtMost(count, Limit) \in Nat /\ Limit \in Nat
          BY <1>1, <1>10, <2>3
        <5>2. AtMost(count, Limit) <= Limit
          BY <1>2, <2>3 DEF AtMost
        <5>3. CountedIn[since] \in Nat
          BY <1>2, <3>3, CountedInSums, Sums
        <5>4. PICK x \in Nat, y \in Nat : x = CountedIn[since] /\ y = AtMost(count, Limit)
          BY <5>1, <5>3
        <5>5. x <= y /\ y <= Limit
          BY <5>1, <5>2, <5>4
        <5>6. QED
          BY <5>1, <5>4, <5>5
      <4>2. CountedIn[Ttl - 1] \in Nat /\ CountedIn[since] \in Nat /\ Limit \in Nat
        BY <1>2, <2>3, <3>3, CountedInSums, Sums
      <4>3. QED
        BY <3>4, <4>1, <4>2
    <3>6. /\ 1 \in 1..Ttl /\ CountedIn'[1] <= AtMost(count', Limit)
          /\ CountedIn'[Ttl] <= CountedIn'[1] + Limit /\ ~(ttl' > 0)
      BY <2>3, <3>1, <3>2, <3>5 DEF AtMost
    <3>7. QED
      BY <3>6 DEF TwoKeys
  <2>7. QED
    BY <2>4, <2>5, <2>6
<1>5. ASSUME NEW r \in Requests, Incr(r) PROVE TwoKeys'
  <2>1. count' = AtMost(count + 1, Limit + 1) /\ ttl' = ttl
    BY <1>5 DEF Incr
  <2>2. CASE count' <= Limit
    <3>1. \A a \in 1..Ttl : CountedIn'[a] = CountedIn[a] + 1
      <4>1. recent' = [recent EXCEPT ![0] = @ + 1]
        BY <1>5, <2>2 DEF Incr
      <4>2. recent'[0] = recent[0] + 1 /\ \A a \in Ages \ {0} : recent'[a] = recent[a]
        BY <1>2, <4>1 DEF Ages
      <4>3. QED
        BY <1>2, <4>2, CountedInSums, CountedInSumsNext, OneMore
    <3>2. AtMost(count', Limit) = AtMost(count, Limit) + 1
      BY <1>2, <2>1, <2>2 DEF AtMost
    <3>3. AtMost(count, Limit) \in Nat
      BY <1>2 DEF AtMost
    <3>4. /\ CountedIn'[since] <= AtMost(count', Limit)
          /\ CountedIn'[Ttl] <= CountedIn'[since] + Limit
          /\ ttl' > 0 => Ttl <= since + ttl'
      BY <1>1, <1>3, <2>1, <3>1, <3>2, <3>3
    <3>5. QED
      BY <3>4 DEF TwoKeys
  <2>3. CASE ~(count' <= Limit)
    <3>1. CountedIn' = CountedIn
      BY <1>5, <2>3 DEF Incr, CountedIn
    <3>2. AtMost(count, Limit) = AtMost(count', Limit)
      BY <1>2, <2>1, <2>3 DEF AtMost
    <3>3. QED
      BY <1>1, <2>1, <3>1, <3>2 DEF TwoKeys
  <2>4. QED
    BY <2>2, <2>3
<1>6. ASSUME count' = count, recent' = recent, ttl' \in {0, ttl, Ttl} PROVE TwoKeys'
  <2>0. recent' = recent
    BY <1>6
  <2>1. CountedIn' = CountedIn
    BY <2>0 DEF CountedIn
  <2>2. ttl' > 0 => Ttl <= since + ttl'
    <3>1. CASE ttl' = ttl
      BY <1>1, <3>1
    <3>2. CASE ttl' = Ttl
      BY <3>2
    <3>3. CASE ttl' = 0
      BY <3>3
    <3>4. QED
      BY <1>6, <3>1, <3>2, <3>3
  <2>3. QED
    BY <1>1, <1>6, <2>1, <2>2 DEF TwoKeys
<1>7. ASSUME NEW r \in Requests, Expire(r) \/ Judge(r) \/ Abort(r) PROVE TwoKeys'
  BY <1>6, <1>7 DEF Expire, Judge, Abort
<1>8. CASE UNCHANGED vars
  BY <1>6, <1>8 DEF vars
<1>9. QED
  BY <1>4, <1>5, <1>7, <1>8 DEF Next

(* However INCR, EXPIRE and the death of the key interleave, no Ttl ticks  *)
(* let more than twice the limit pass.                                     *)
THEOREM AtMostTwiceLimitHolds == Spec => []AtMostTwiceLimit
<1>1. TypeOK /\ TwoKeys => AtMostTwiceLimit
  <2> SUFFICES ASSUME TypeOK, TwoKeys PROVE CountedIn[Ttl] <= 2 * Limit
    BY DEF AtMostTwiceLimit
  <2>1. PICK since \in 1..Ttl :
          CountedIn[since] <= AtMost(count, Limit) /\ CountedIn[Ttl] <= CountedIn[since] + Limit
    BY DEF TwoKeys
  <2>2. CountedIn[since] \in Nat /\ CountedIn[Ttl] \in Nat /\ AtMost(count, Limit) <= Limit
    BY CountedInSums, Sums, RateLimitAssumption DEF TypeOK, AtMost
  <2>3. CountedIn[since] <= Limit
    BY <2>1, <2>2, RateLimitAssumption DEF TypeOK, AtMost
  <2>4. QED
    BY <2>1, <2>2, <2>3, RateLimitAssumption
<1>2. QED
  BY <1>1, InitIsTyped, InitTwoKeys, StepIsTyped, StepKeepsTwoKeys, PTL DEF Spec

-----------------------------------------------------------------------------
(* The clients of Redis (RedisClient)                                      *)

ConnectingCall(r) == call[r].pc = "connect"

(* A client that is being connected is one call's alone and is not open    *)
(* yet; two of them, or one beside a client that is kept, have raced.      *)
ConnectionsOK ==
  \A r \in Callers : ConnectingCall(r) =>
    /\ call[r].client \notin open
    /\ current # 0 => current \in raced /\ call[r].client \in raced
    /\ \A s \in Callers \ {r} : ConnectingCall(s) =>
         call[s].client # call[r].client /\ call[r].client \in raced

ClientInv == C!TypeOK /\ ConnectionsOK /\ C!OneClientUnlessRaced

LEMMA ClientInit == C!Init => ClientInv
<1> SUFFICES ASSUME C!Init PROVE ClientInv
  OBVIOUS
<1>1. C!TypeOK
  BY DEF C!Init, C!TypeOK
<1>2. ConnectionsOK
  BY DEF C!Init, C!Idle, ConnectionsOK, ConnectingCall
<1>3. C!OneClientUnlessRaced
  BY DEF C!Init, C!OneClientUnlessRaced
<1>4. QED
  BY <1>1, <1>2, <1>3 DEF ClientInv

(* A step that only ends a call, or gives it a client that is kept.        *)
LEMMA CallGoesOn ==
  ASSUME ClientInv, NEW r \in Callers, NEW f,
         call' = [call EXCEPT ![r] = f], f.pc # "connect",
         f \in {C!Idle, [pc |-> "service", client |-> 0]} \cup [pc: {"connect", "command"}, client: C!Clients],
         UNCHANGED <<up, service, current, open, raced>>
  PROVE  ClientInv'
<1>0. C!TypeOK /\ ConnectionsOK /\ C!OneClientUnlessRaced
  BY DEF ClientInv
<1>1. call'[r] = f /\ \A s \in Callers \ {r} : call'[s] = call[s]
  BY <1>0 DEF C!TypeOK
<1>2. C!TypeOK'
  BY <1>0 DEF C!TypeOK
<1>3. ConnectionsOK'
  BY <1>0, <1>1 DEF ConnectionsOK, ConnectingCall
<1>4. C!OneClientUnlessRaced'
  BY <1>0 DEF C!OneClientUnlessRaced
<1>5. QED
  BY <1>2, <1>3, <1>4 DEF ClientInv

LEMMA ClientMade ==
  ASSUME ClientInv, NEW r \in Callers, call[r] = C!Idle, current = 0, C!Make(r),
         UNCHANGED <<up, service, current, open>>
  PROVE  ClientInv'
<1>0. C!TypeOK /\ ConnectionsOK /\ C!OneClientUnlessRaced
  BY DEF ClientInv
<1>1. PICK c \in C!Unused :
        /\ call' = [call EXCEPT ![r] = [pc |-> "connect", client |-> c]]
        /\ raced' = IF C!Connecting = {} THEN raced \ {c} ELSE raced \cup C!Connecting \cup {c}
  BY DEF C!Make
<1>2. c \in C!Clients /\ c \notin open /\ \A s \in Callers : call[s].client # c
  BY DEF C!Unused
<1>3. /\ call'[r].pc = "connect" /\ call'[r].client = c
      /\ \A s \in Callers \ {r} : call'[s] = call[s]
      /\ call' \in [Callers -> {C!Idle, [pc |-> "service", client |-> 0]}
                               \cup [pc: {"connect", "command"}, client: C!Clients]]
  BY <1>0, <1>1, <1>2 DEF C!TypeOK
<1>4. \A s \in Callers : ConnectingCall(s) => call[s].client \in C!Connecting /\ call[s].client \in C!Clients
  BY <1>0 DEF C!Connecting, C!At, ConnectingCall, C!TypeOK, C!Idle
<1>5. C!Connecting \subseteq C!Clients
  BY <1>0 DEF C!Connecting, C!At, C!TypeOK, C!Idle
<1>6. C!TypeOK'
  BY <1>0, <1>1, <1>2, <1>3, <1>5 DEF C!TypeOK
<1>7. ConnectionsOK'
  <2> SUFFICES ASSUME NEW s \in Callers, ConnectingCall(s)'
               PROVE  /\ call'[s].client \notin open
                      /\ \A o \in Callers \ {s} : ConnectingCall(o)' =>
                           call'[o].client # call'[s].client /\ call'[s].client \in raced'
    BY DEF ConnectionsOK
  <2>1. \A o \in Callers : ConnectingCall(o) => call[o].client \in raced'
    BY <1>1, <1>4
  <2>2. CASE s = r
    BY <1>1, <1>2, <1>3, <1>4, <2>2 DEF ConnectingCall
  <2>3. CASE s # r
    <3>1. ConnectingCall(s) /\ call'[s] = call[s]
      BY <1>3, <2>3 DEF ConnectingCall
    <3>2. QED
      BY <1>0, <1>2, <1>3, <2>1, <2>3, <3>1 DEF ConnectionsOK, ConnectingCall
  <2>4. QED
    BY <2>2, <2>3
<1>8. C!OneClientUnlessRaced'
  BY <1>0, <1>1, <1>2 DEF C!OneClientUnlessRaced
<1>9. QED
  BY <1>6, <1>7, <1>8 DEF ClientInv

LEMMA ClientKept == ASSUME ClientInv, NEW r \in Callers, C!Connected(r) PROVE ClientInv'
<1>0. C!TypeOK /\ ConnectionsOK /\ C!OneClientUnlessRaced
  BY DEF ClientInv
<1> DEFINE c == call[r].client
<1>1. /\ ConnectingCall(r) /\ current' = c /\ open' = open \cup {c}
      /\ call' = [call EXCEPT ![r].pc = "command"] /\ UNCHANGED <<up, service, raced>>
  BY DEF C!Connected, C!At, ConnectingCall
<1>2. c \in C!Clients /\ call[r] \in [pc: {"connect", "command"}, client: C!Clients] /\ 0 \notin C!Clients
  BY <1>0, <1>1 DEF C!TypeOK, C!Idle, ConnectingCall, C!Clients
<1>3. /\ call'[r].pc = "command" /\ \A s \in Callers \ {r} : call'[s] = call[s]
      /\ call' \in [Callers -> {C!Idle, [pc |-> "service", client |-> 0]}
                               \cup [pc: {"connect", "command"}, client: C!Clients]]
  BY <1>0, <1>1, <1>2 DEF C!TypeOK
<1>4. C!TypeOK'
  BY <1>0, <1>1, <1>2, <1>3 DEF C!TypeOK
<1>5. ConnectionsOK'
  <2> SUFFICES ASSUME NEW s \in Callers, ConnectingCall(s)'
               PROVE  /\ call'[s].client \notin open'
                      /\ current' \in raced' /\ call'[s].client \in raced'
                      /\ \A o \in Callers \ {s} : ConnectingCall(o)' =>
                           call'[o].client # call'[s].client /\ call'[s].client \in raced'
    BY DEF ConnectionsOK
  <2>1. s # r /\ ConnectingCall(s) /\ call'[s] = call[s]
    BY <1>3 DEF ConnectingCall
  <2>2. call[s].client \notin open /\ call[s].client # c /\ {c, call[s].client} \subseteq raced
    BY <1>0, <1>1, <2>1 DEF ConnectionsOK
  <2>3. \A o \in Callers \ {s} : ConnectingCall(o)' => ConnectingCall(o) /\ call'[o] = call[o]
    BY <1>3 DEF ConnectingCall
  <2>4. QED
    BY <1>0, <1>1, <2>1, <2>2, <2>3 DEF ConnectionsOK
<1>6. C!OneClientUnlessRaced'
  BY <1>0, <1>1, <1>2 DEF C!OneClientUnlessRaced, ConnectionsOK, C!TypeOK
<1>7. QED
  BY <1>4, <1>5, <1>6 DEF ClientInv

LEMMA ClientNext == ClientInv /\ [C!Next]_C!vars => ClientInv'
<1> SUFFICES ASSUME ClientInv, [C!Next]_C!vars PROVE ClientInv'
  OBVIOUS
<1>0. C!TypeOK /\ ConnectionsOK /\ C!OneClientUnlessRaced
  BY DEF ClientInv
<1>1. ASSUME NEW r \in Callers, C!CallService(r) PROVE ClientInv'
  <2> DEFINE f == [C!Idle EXCEPT !.pc = "service"]
  <2>1. f = [pc |-> "service", client |-> 0] /\ f.pc # "connect"
    BY DEF C!Idle
  <2>2. call' = [call EXCEPT ![r] = f] /\ UNCHANGED <<up, service, current, open, raced>>
    BY <1>1 DEF C!CallService
  <2> HIDE DEF f
  <2>3. QED
    BY <2>1, <2>2, CallGoesOn
<1>2. ASSUME NEW r \in Callers, C!Call(r) PROVE ClientInv'
  <2>1. CASE current # 0
    <3> DEFINE f == [pc |-> "command", client |-> current]
    <3>1. f \in [pc: {"connect", "command"}, client: C!Clients] /\ f.pc # "connect"
      BY <1>0, <2>1 DEF C!TypeOK
    <3>2. call' = [call EXCEPT ![r] = f] /\ UNCHANGED <<up, service, current, open, raced>>
      BY <1>2, <2>1 DEF C!Call
    <3> HIDE DEF f
    <3>3. QED
      BY <3>1, <3>2, CallGoesOn
  <2>2. CASE current = 0
    BY <1>2, <2>2, ClientMade DEF C!Call
  <2>3. QED
    BY <2>1, <2>2
<1>3. ASSUME NEW r \in Callers, C!AnswerService(r) \/ C!Answer(r) \/ C!Lose(r) PROVE ClientInv'
  <2>1. /\ call' = [call EXCEPT ![r] = C!Idle] /\ UNCHANGED <<up, service, current, open, raced>>
        /\ C!Idle.pc # "connect"
    BY <1>3 DEF C!AnswerService, C!Answer, C!Lose, C!Respond, C!Idle
  <2>2. QED
    BY <2>1, CallGoesOn
<1>4. CASE C!Shutdown
  <2>1. /\ service' = "connecting" /\ current' = 0
        /\ open' = open \ {current} /\ raced' = raced \ {current} /\ UNCHANGED <<up, call>>
    BY <1>4 DEF C!Shutdown
  <2>2. C!TypeOK'
    BY <1>0, <2>1 DEF C!TypeOK
  <2>3. \A r \in Callers : ConnectingCall(r) => call[r].client # current
    BY <1>0 DEF ConnectionsOK, ConnectingCall, C!TypeOK, C!Idle, C!Clients
  <2>4. ConnectionsOK'
    BY <1>0, <2>1, <2>3 DEF ConnectionsOK, ConnectingCall
  <2>5. C!OneClientUnlessRaced'
    BY <1>0, <2>1 DEF C!OneClientUnlessRaced
  <2>6. QED
    BY <2>2, <2>4, <2>5 DEF ClientInv
<1>5. CASE C!Boot \/ C!Quit \/ C!Redis \/ UNCHANGED C!vars
  <2>1. /\ UNCHANGED <<current, open, call, raced>>
        /\ up' \in BOOLEAN /\ service' \in {"connecting", "open", "quit"}
    BY <1>0, <1>5 DEF C!Boot, C!Quit, C!Redis, C!vars, C!TypeOK
  <2>2. C!TypeOK'
    BY <1>0, <2>1 DEF C!TypeOK
  <2>3. ConnectionsOK' /\ C!OneClientUnlessRaced'
    BY <1>0, <2>1 DEF ConnectionsOK, ConnectingCall, C!OneClientUnlessRaced
  <2>4. QED
    BY <2>2, <2>3 DEF ClientInv
<1>6. QED
  BY <1>1, <1>2, <1>3, <1>4, <1>5, ClientKept DEF C!Next, C!Work

-----------------------------------------------------------------------------
(* The log of requests (RequestLog)                                        *)

ErrorOf(outcome) == IF outcome \in {"ok", "empty"} THEN L!None ELSE outcome
Reported == {"rule", "internal", "unavailable", "unknown"}

(* What a line says is what its store held, which is about its request.    *)
LineOK(l) ==
  LET q == lreq[l.by] IN
    /\ l.context.id = q.header
    /\ l.kind \in {"event", "report"} => l.context.user = IF q.path = "guarded" THEN l.by ELSE L!None
    /\ l.kind \in {"access", "report"} => q.pc \in {"sent", "done", "closed"}
    /\ l.kind = "access" => l.status = L!Status[q.outcome] /\ l.context.error = ErrorOf(q.outcome)

(* The store of a request, and its report, at each step of it.             *)
RequestOK(r) ==
  LET q == lreq[r] IN
    /\ store[r].id = q.header
    /\ q.pc = "guard" => q.path = "guarded"
    /\ q.pc = "filter" => q.outcome # "ok"
    /\ q.path # "guarded" => store[r].user = L!None
    /\ q.path = "guarded" /\ (q.pc = "handler" \/ (q.pc = "filter" /\ q.outcome # "unauthorized")) =>
         store[r].user = r
    /\ q.pc \in {"idle", "guard", "handler", "filter"} => store[r].error = L!None
    /\ q.pc = "sent" => store[r].error = ErrorOf(q.outcome)
    /\ q.pc \in {"sent", "done", "closed"} =>
         ((\E l \in log : l.by = r /\ l.kind = "report") <=> q.outcome \in Reported)

LogInv == L!TypeOK /\ (\A l \in log : LineOK(l)) /\ \A r \in Callers : RequestOK(r)

LEMMA LogInit == L!Init => LogInv
<1> SUFFICES ASSUME L!Init PROVE LogInv
  OBVIOUS
<1>1. L!TypeOK
  BY DEF L!Init, L!TypeOK, L!Idle, L!NoStore, L!Stores, L!Names, L!Outcomes, L!Status, L!Steps, L!Paths
<1>2. \A r \in Callers : RequestOK(r)
  BY DEF L!Init, L!Idle, L!NoStore, RequestOK
<1>3. QED
  BY <1>1, <1>2 DEF L!Init, LogInv

LEMMA LogImplies == LogInv => L!LogIsTrue
<1> SUFFICES ASSUME LogInv PROVE L!LogIsTrue
  OBVIOUS
<1>1. ASSUME NEW l \in log
      PROVE  /\ l.context.id = lreq[l.by].header
             /\ l.kind \in {"event", "report"} =>
                  l.context.user = IF lreq[l.by].path = "guarded" THEN l.by ELSE L!None
             /\ l.kind = "access" =>
                  /\ l.status = L!Status[lreq[l.by].outcome]
                  /\ l.context.error = IF lreq[l.by].outcome \in {"ok", "empty"} THEN L!None
                                       ELSE lreq[l.by].outcome
  BY <1>1 DEF LogInv, LineOK, ErrorOf
<1>2. ASSUME NEW r \in Callers, lreq[r].pc \in {"sent", "done", "closed"}
      PROVE  /\ lreq[r].outcome \in {"internal", "unavailable", "unknown"} => L!Lines(r, "report") # {}
             /\ lreq[r].outcome \in {"ok", "empty", "usage", "unauthorized", "http"} =>
                  L!Lines(r, "report") = {}
  BY <1>2 DEF LogInv, RequestOK, L!Lines, Reported
<1>3. QED
  BY <1>1, <1>2 DEF L!LogIsTrue

Frames == [pc: L!Steps, path: L!Paths, header: L!Names \cup {L!ClientId}, outcome: L!Outcomes]
Kinds == {"event", "warning", "report", "access"}
Levels == {"log", "warn", "error"}

LEMMA OutcomesAre ==
  L!Outcomes = {"ok", "empty", "usage", "rule", "internal", "unauthorized", "http", "unavailable",
                "unknown"}
BY DEF L!Outcomes, L!Status

(* A step of the request r, all whose lines are true after it.             *)
LEMMA RequestGoesOn ==
  ASSUME LogInv, NEW r \in Callers,
         lreq' \in [Callers -> Frames], \A s \in Callers \ {r} : lreq'[s] = lreq[s],
         store' \in [Callers -> L!Stores], \A s \in Callers \ {r} : store'[s] = store[s],
         \A l \in log : l.by # r => l \in log',
         \A l \in log' : l \in log \/ (l.by = r /\ l.kind \in Kinds /\ l.context \in L!Stores
                                       /\ l.level \in Levels),
         \A l \in log' : l.by = r => LineOK(l)',
         RequestOK(r)'
  PROVE  LogInv'
<1>0. L!TypeOK /\ (\A l \in log : LineOK(l)) /\ \A s \in Callers : RequestOK(s)
  BY DEF LogInv
<1>1. L!TypeOK'
  BY <1>0 DEF L!TypeOK, Frames, Kinds, Levels
<1>2. ASSUME NEW l \in log', l.by # r PROVE LineOK(l)'
  <2>1. l \in log /\ l.by \in Callers /\ LineOK(l)
    BY <1>0, <1>2 DEF L!TypeOK
  <2>2. lreq'[l.by] = lreq[l.by]
    BY <1>2, <2>1
  <2>3. QED
    BY <2>1, <2>2 DEF LineOK, ErrorOf
<1>3. ASSUME NEW s \in Callers, s # r PROVE RequestOK(s)'
  <2>1. (\E l \in log' : l.by = s /\ l.kind = "report") <=> \E l \in log : l.by = s /\ l.kind = "report"
    BY <1>3
  <2>2. lreq'[s] = lreq[s] /\ store'[s] = store[s] /\ RequestOK(s)
    BY <1>0, <1>3
  <2>3. QED
    BY <2>1, <2>2 DEF RequestOK, ErrorOf
<1>4. QED
  BY <1>1, <1>2, <1>3 DEF LogInv

(* The lines that a request has stay true: it is not answered yet, or its  *)
(* outcome is settled.                                                     *)
LEMMA LinesStayTrue ==
  ASSUME LogInv, NEW r \in Callers,
         lreq'[r].header = lreq[r].header, lreq'[r].path = lreq[r].path,
         \/ lreq[r].pc \in {"idle", "guard", "handler", "filter"}
         \/ lreq'[r].outcome = lreq[r].outcome /\ lreq'[r].pc \in {"sent", "done", "closed"},
         NEW l \in log, l.by = r
  PROVE  LineOK(l)'
<1>1. LineOK(l)
  BY DEF LogInv
<1>2. CASE lreq[r].pc \in {"idle", "guard", "handler", "filter"}
  BY <1>1, <1>2 DEF LineOK, ErrorOf
<1>3. CASE lreq'[r].outcome = lreq[r].outcome /\ lreq'[r].pc \in {"sent", "done", "closed"}
  BY <1>1, <1>3 DEF LineOK, ErrorOf
<1>4. QED
  BY <1>2, <1>3

LEMMA NotReportedYet ==
  ASSUME LogInv, NEW r \in Callers, lreq[r].pc \in {"idle", "guard", "handler", "filter"}
  PROVE  \A l \in log : l.by = r => l.kind \notin {"access", "report"}
BY DEF LogInv, LineOK

LEMMA Typed ==
  ASSUME LogInv, NEW r \in Callers
  PROVE  /\ lreq \in [Callers -> Frames] /\ store \in [Callers -> L!Stores]
         /\ lreq[r].pc \in L!Steps /\ lreq[r].path \in L!Paths /\ lreq[r].outcome \in L!Outcomes
         /\ RequestOK(r)
<1>1. L!TypeOK /\ RequestOK(r)
  BY DEF LogInv
<1>2. lreq \in [Callers -> Frames] /\ store \in [Callers -> L!Stores]
  BY <1>1 DEF L!TypeOK, Frames
<1>3. lreq[r] \in Frames
  BY <1>2
<1>4. QED
  BY <1>1, <1>2, <1>3 DEF Frames

LEMMA Received ==
  ASSUME LogInv, NEW r \in Callers, NEW path \in L!Paths, NEW header \in {L!None, L!ClientId},
         L!Receive(r, path, header)
  PROVE  LogInv'
<1> DEFINE id == IF header = L!ClientId THEN L!ClientId ELSE r
           step == IF path = "guarded" THEN "guard" ELSE "handler"
           f == [[[L!Idle EXCEPT !.pc = step] EXCEPT !.path = path] EXCEPT !.header = id]
           c == [L!NoStore EXCEPT !.id = id]
<1>1. f \in Frames /\ f.pc = step /\ f.path = path /\ f.header = id
  BY OutcomesAre DEF L!Idle, Frames, L!Steps, L!Names
<1>2. c \in L!Stores /\ c.id = id /\ c.user = L!None /\ c.error = L!None
  BY DEF L!NoStore, L!Stores, L!Names
<1>3. /\ lreq' = [lreq EXCEPT ![r] = f] /\ store' = [store EXCEPT ![r] = c]
      /\ log' = {l \in log : l.by # r}
  BY DEF L!Receive
<1> HIDE DEF f, c, id
<1>4. /\ lreq' \in [Callers -> Frames] /\ store' \in [Callers -> L!Stores]
      /\ lreq'[r] = f /\ \A s \in Callers \ {r} : lreq'[s] = lreq[s]
      /\ store'[r] = c /\ \A s \in Callers \ {r} : store'[s] = store[s]
  BY <1>1, <1>2, <1>3, Typed
<1>5. RequestOK(r)'
  BY <1>1, <1>2, <1>4 DEF RequestOK
<1>6. QED
  BY <1>3, <1>4, <1>5, RequestGoesOn

(* A step of a request that gives it an outcome. *)
LEMMA FrameMoves ==
  ASSUME LogInv, NEW r \in Callers, NEW step \in L!Steps, NEW o \in L!Outcomes,
         lreq' = [lreq EXCEPT ![r].pc = step, ![r].outcome = o]
  PROVE  /\ lreq' \in [Callers -> Frames] /\ \A s \in Callers \ {r} : lreq'[s] = lreq[s]
         /\ lreq'[r].pc = step /\ lreq'[r].outcome = o
         /\ lreq'[r].path = lreq[r].path /\ lreq'[r].header = lreq[r].header
<1>1. lreq \in [Callers -> Frames]
  BY Typed
<1>2. lreq[r] \in Frames /\ lreq'[r] = [lreq[r] EXCEPT !.pc = step, !.outcome = o]
  BY <1>1
<1>3. /\ [lreq[r] EXCEPT !.pc = step, !.outcome = o] \in Frames
      /\ lreq'[r].pc = step /\ lreq'[r].outcome = o
      /\ lreq'[r].path = lreq[r].path /\ lreq'[r].header = lreq[r].header
  BY <1>2 DEF Frames
<1>4. QED
  BY <1>1, <1>2, <1>3

LEMMA Guarded == ASSUME LogInv, NEW r \in Callers, L!Guard(r) PROVE LogInv'
<1>0. RequestOK(r) /\ lreq[r].pc = "guard" /\ log' = log
  BY Typed DEF L!Guard, L!At
<1>1. CASE L!Goto(r, "handler") /\ store' = [store EXCEPT ![r].user = r]
  <2>1. /\ lreq' \in [Callers -> Frames] /\ \A s \in Callers \ {r} : lreq'[s] = lreq[s]
        /\ lreq'[r].pc = "handler" /\ lreq'[r].path = lreq[r].path /\ lreq'[r].header = lreq[r].header
    BY <1>1, Typed DEF L!Goto, Frames, L!Steps
  <2>2. /\ store' \in [Callers -> L!Stores] /\ \A s \in Callers \ {r} : store'[s] = store[s]
        /\ store'[r].id = store[r].id /\ store'[r].user = r /\ store'[r].error = store[r].error
    BY <1>1, Typed DEF L!Stores, L!Names
  <2>3. RequestOK(r)'
    BY <1>0, <2>1, <2>2 DEF RequestOK
  <2>4. QED
    BY <1>0, <2>1, <2>2, <2>3, LinesStayTrue, RequestGoesOn
<1>2. CASE lreq' = [lreq EXCEPT ![r].pc = "filter", ![r].outcome = "unauthorized"] /\ store' = store
  <2>1. /\ lreq' \in [Callers -> Frames] /\ \A s \in Callers \ {r} : lreq'[s] = lreq[s]
        /\ lreq'[r].pc = "filter" /\ lreq'[r].path = lreq[r].path /\ lreq'[r].header = lreq[r].header
        /\ lreq'[r].outcome = "unauthorized"
    BY <1>2, OutcomesAre, FrameMoves DEF L!Steps
  <2>2. /\ lreq[r].path = "guarded"
        /\ store[r].id = lreq[r].header /\ store[r].error = L!None
    BY <1>0 DEF RequestOK
  <2>3. RequestOK(r)'
    BY <1>2, <2>1, <2>2 DEF RequestOK
  <2>4. QED
    BY <1>0, <1>2, <2>1, <2>3, Typed, LinesStayTrue, RequestGoesOn
<1>3. QED
  BY <1>1, <1>2 DEF L!Guard

LEMMA EventWritten == ASSUME LogInv, NEW r \in Callers, L!Event(r) PROVE LogInv'
<1>0. PICK new : new = L!Line(r, "event", "log", 0)
  OBVIOUS
<1>1. /\ RequestOK(r) /\ lreq[r].pc = "handler" /\ lreq' = lreq /\ store' = store
      /\ log' = log \cup {new}
  BY <1>0, Typed DEF L!Event, L!At, L!Write
<1>2. /\ new.by = r /\ new.kind = "event" /\ new.level = "log" /\ new.context = store[r]
      /\ store[r] \in L!Stores
  BY <1>0, Typed DEF L!Line, L!Context
<1>3. LineOK(new)'
  <2>1. /\ store[r].id = lreq[r].header
        /\ store[r].user = IF lreq[r].path = "guarded" THEN r ELSE L!None
    BY <1>1 DEF RequestOK
  <2>2. QED
    BY <1>1, <1>2, <2>1 DEF LineOK
<1>4. RequestOK(r)'
  BY <1>1, <1>2 DEF RequestOK
<1>5. \A l \in log' : l.by = r => LineOK(l)'
  BY <1>1, <1>3, LinesStayTrue
<1>6. new.kind \in Kinds /\ new.level \in Levels /\ new.context \in L!Stores
  BY <1>2 DEF Kinds, Levels
<1>7. QED
  BY <1>1, <1>2, <1>4, <1>5, <1>6, Typed, RequestGoesOn

LEMMA Handled == ASSUME LogInv, NEW r \in Callers, L!Handle(r) PROVE LogInv'
<1>1. PICK o \in L!Outcomes :
        /\ lreq' = [lreq EXCEPT ![r].pc = IF o = "ok" THEN "sent" ELSE "filter", ![r].outcome = o]
        /\ lreq[r].pc = "handler" /\ store' = store /\ log' = log
  BY OutcomesAre DEF L!Handle, L!At
<1>2. /\ lreq' \in [Callers -> Frames] /\ \A s \in Callers \ {r} : lreq'[s] = lreq[s]
      /\ lreq'[r].pc = (IF o = "ok" THEN "sent" ELSE "filter") /\ lreq'[r].outcome = o
      /\ lreq'[r].path = lreq[r].path /\ lreq'[r].header = lreq[r].header
  <2>1. PICK step \in L!Steps : step = IF o = "ok" THEN "sent" ELSE "filter"
    BY DEF L!Steps
  <2>2. lreq' = [lreq EXCEPT ![r].pc = step, ![r].outcome = o]
    BY <1>1, <2>1
  <2>3. /\ lreq' \in [Callers -> Frames] /\ \A s \in Callers \ {r} : lreq'[s] = lreq[s]
        /\ lreq'[r].pc = step /\ lreq'[r].outcome = o
        /\ lreq'[r].path = lreq[r].path /\ lreq'[r].header = lreq[r].header
    BY <2>2, FrameMoves
  <2>4. QED
    BY <2>1, <2>3
<1>3. RequestOK(r)'
  <2>1. /\ store[r].id = lreq[r].header /\ store[r].error = L!None
        /\ store[r].user = IF lreq[r].path = "guarded" THEN r ELSE L!None
    BY <1>1, Typed DEF RequestOK
  <2>2. ~\E l \in log : l.by = r /\ l.kind = "report"
    BY <1>1, NotReportedYet
  <2>3. lreq'[r].outcome = "ok" => lreq'[r].outcome \notin Reported
    BY DEF Reported
  <2>4. QED
    BY <1>1, <1>2, <2>1, <2>2, <2>3 DEF RequestOK, ErrorOf
<1>4. QED
  BY <1>1, <1>2, <1>3, Typed, LinesStayTrue, RequestGoesOn

(* The exception filter and the middleware, which end a request: a step to *)
(* the store c that may write one line, with the store that it found.      *)
LEMMA RequestEnds ==
  ASSUME LogInv, NEW r \in Callers, NEW step \in {"sent", "done", "closed"}, NEW c \in L!Stores,
         L!Goto(r, step), store' = [store EXCEPT ![r] = c],
         (lreq[r].pc = "filter" /\ step = "sent") \/ (lreq[r].pc = "sent" /\ step # "sent"),
         c.id = store[r].id, c.user = store[r].user,
         step = "sent" => c.error = ErrorOf(lreq[r].outcome),
         NEW l, l.by = r, l.context = store[r], l.kind \in Kinds \ {"event"}, l.level \in Levels,
         l.kind = "access" => l.status = L!Status[lreq[r].outcome] /\ lreq[r].pc = "sent",
         log' = log \/ (log' = log \cup {l} /\ (l.kind = "report" => lreq[r].outcome # "unauthorized")),
         lreq[r].pc = "filter" =>
           ((log' = log \cup {l} /\ l.kind = "report") <=> lreq[r].outcome \in Reported),
         lreq[r].pc = "sent" => l.kind # "report"
  PROVE  LogInv'
<1>0. RequestOK(r) /\ store[r] \in L!Stores
  BY Typed
<1>1. /\ lreq' \in [Callers -> Frames] /\ \A s \in Callers \ {r} : lreq'[s] = lreq[s]
      /\ lreq'[r].pc = step /\ lreq'[r].path = lreq[r].path
      /\ lreq'[r].header = lreq[r].header /\ lreq'[r].outcome = lreq[r].outcome
  <2>1. lreq \in [Callers -> Frames] /\ step \in L!Steps
    BY Typed DEF L!Steps
  <2>2. lreq' = [lreq EXCEPT ![r].pc = step]
    BY DEF L!Goto
  <2>3. [lreq[r] EXCEPT !.pc = step] \in Frames
    BY <2>1 DEF Frames
  <2>4. lreq'[r] = [lreq[r] EXCEPT !.pc = step]
    BY <2>1, <2>2
  <2>5. /\ lreq'[r].pc = step /\ lreq'[r].path = lreq[r].path
        /\ lreq'[r].header = lreq[r].header /\ lreq'[r].outcome = lreq[r].outcome
    BY <2>1, <2>4 DEF Frames
  <2>6. QED
    BY <2>1, <2>2, <2>3, <2>5
<1>2. /\ store' \in [Callers -> L!Stores] /\ \A s \in Callers \ {r} : store'[s] = store[s]
      /\ store'[r] = c
  BY Typed
<1>3. log' # log => LineOK(l)'
  <2>1. log' # log /\ l.kind = "report" => store[r].user = IF lreq[r].path = "guarded" THEN r ELSE L!None
    BY <1>0 DEF RequestOK
  <2>2. QED
    BY <1>0, <1>1, <2>1 DEF LineOK, RequestOK, ErrorOf
<1>4. \A m \in log' : m.by = r => LineOK(m)'
  BY <1>1, <1>3, LinesStayTrue
<1>5. (\E m \in log' : m.by = r /\ m.kind = "report") <=> lreq[r].outcome \in Reported
  <2>1. CASE lreq[r].pc = "filter"
    BY <2>1, NotReportedYet
  <2>2. CASE lreq[r].pc = "sent"
    BY <1>0, <2>2 DEF RequestOK
  <2>3. QED
    BY <2>1, <2>2
<1>6. RequestOK(r)'
  BY <1>0, <1>1, <1>2, <1>5 DEF RequestOK, ErrorOf
<1>7. \A m \in log' : m \in log \/ (m.by = r /\ m.kind \in Kinds /\ m.context \in L!Stores
                                    /\ m.level \in Levels)
  BY <1>0
<1>8. QED
  BY <1>1, <1>2, <1>4, <1>6, <1>7, RequestGoesOn

LEMMA NoContentSent == ASSUME LogInv, NEW r \in Callers, L!SendNoContent(r) PROVE LogInv'
<1>0. PICK l : l = L!Line(r, "warning", "warn", 0)
  OBVIOUS
<1>1. /\ lreq[r].pc = "filter" /\ lreq[r].outcome = "empty" /\ L!Goto(r, "sent") /\ store' = store
      /\ log' = log \/ log' = log \cup {l}
  BY <1>0 DEF L!SendNoContent, L!At, L!Write
<1>2. l.by = r /\ l.kind = "warning" /\ l.level = "warn" /\ l.context = store[r]
  BY <1>0 DEF L!Line, L!Context
<1>3. l.kind \in Kinds \ {"event"} /\ l.kind # "access" /\ l.kind # "report" /\ l.level \in Levels
  BY <1>2 DEF Kinds, Levels
<1>4. /\ store[r].error = ErrorOf(lreq[r].outcome) /\ lreq[r].outcome \notin Reported
      /\ store[r] \in L!Stores /\ store' = [store EXCEPT ![r] = store[r]]
  BY <1>1, Typed DEF RequestOK, ErrorOf, Reported
<1>5. QED
  BY <1>1, <1>2, <1>3, <1>4, RequestEnds

LEMMA ReportedAre == \A o \in L!Outcomes : L!IsServerError(o) <=> o \in Reported
BY OutcomesAre DEF L!IsServerError, L!BaseExceptions, L!Status, Reported

LEMMA ErrorSent == ASSUME LogInv, NEW r \in Callers, L!SendError(r) PROVE LogInv'
<1>0. PICK l, c : /\ l = L!Line(r, "report", "error", L!Status[lreq[r].outcome])
                  /\ c = [store[r] EXCEPT !.error = lreq[r].outcome]
  OBVIOUS
<1>1. /\ lreq[r].pc = "filter" /\ lreq[r].outcome # "empty" /\ L!Goto(r, "sent")
      /\ store' = [store EXCEPT ![r].error = lreq[r].outcome]
      /\ log' = IF L!IsServerError(lreq[r].outcome) THEN log \cup {l} ELSE log
  BY <1>0 DEF L!SendError, L!At, L!Write
<1>2. lreq[r].outcome \in L!Outcomes /\ RequestOK(r) /\ store[r] \in L!Stores
  BY Typed
<1>3. c \in L!Stores /\ c.id = store[r].id /\ c.user = store[r].user /\ c.error = lreq[r].outcome
  BY <1>0, <1>2 DEF L!Stores
<1>4. store' = [store EXCEPT ![r] = c]
  BY <1>0, <1>1
<1>5. l.by = r /\ l.kind = "report" /\ l.level = "error" /\ l.context = store[r]
  BY <1>0 DEF L!Line, L!Context
<1>6. l.kind \in Kinds \ {"event"} /\ l.kind # "access" /\ l.level \in Levels
  BY <1>5 DEF Kinds, Levels
<1>7. (log' = log \cup {l} /\ l.kind = "report") <=> lreq[r].outcome \in Reported
  <2>1. l \notin log
    BY <1>1, <1>5, NotReportedYet
  <2>2. QED
    BY <1>1, <1>2, <1>5, <2>1, ReportedAre
<1>8. c.error = ErrorOf(lreq[r].outcome)
  BY <1>1, <1>2, <1>3 DEF ErrorOf, RequestOK
<1>9. /\ lreq[r].pc = "filter" /\ L!Goto(r, "sent")
      /\ log' = log \/ (log' = log \cup {l} /\ lreq[r].outcome # "unauthorized")
  BY <1>1, <1>2, ReportedAre DEF Reported
<1>10. QED
  BY <1>3, <1>4, <1>5, <1>6, <1>7, <1>8, <1>9, RequestEnds

LEMMA Finished == ASSUME LogInv, NEW r \in Callers, L!Finish(r) PROVE LogInv'
<1> DEFINE status == L!Status[lreq[r].outcome]
<1>0. PICK level, l :
        /\ level = (IF status >= 500 THEN "error" ELSE IF status >= 400 THEN "warn" ELSE "log")
        /\ l = L!Line(r, "access", level, status)
  OBVIOUS
<1>1. /\ lreq[r].pc = "sent" /\ L!Goto(r, "done") /\ store' = store
      /\ log' = log \/ log' = log \cup {l}
  BY <1>0 DEF L!Finish, L!At, L!Write
<1>2. l.by = r /\ l.kind = "access" /\ l.level = level /\ l.status = status /\ l.context = store[r]
  BY <1>0 DEF L!Line, L!Context
<1>3. level \in Levels
  BY <1>0 DEF Levels
<1>4. l.kind \in Kinds \ {"event"} /\ l.kind # "report" /\ l.level \in Levels
  BY <1>2, <1>3 DEF Kinds
<1>5. store[r] \in L!Stores /\ store' = [store EXCEPT ![r] = store[r]]
  BY <1>1, Typed
<1>6. QED
  BY <1>1, <1>2, <1>4, <1>5, RequestEnds

LEMMA GivenUp == ASSUME LogInv, NEW r \in Callers, L!GiveUp(r) PROVE LogInv'
<1>0. PICK l : l = L!Line(r, "warning", "warn", 0)
  OBVIOUS
<1>1. lreq[r].pc = "sent" /\ L!Goto(r, "closed") /\ store' = store /\ log' = log
  BY DEF L!GiveUp, L!At
<1>2. l.by = r /\ l.kind = "warning" /\ l.level = "warn" /\ l.context = store[r]
  BY <1>0 DEF L!Line, L!Context
<1>3. l.kind \in Kinds \ {"event"} /\ l.kind # "report" /\ l.kind # "access" /\ l.level \in Levels
  BY <1>2 DEF Kinds, Levels
<1>4. store[r] \in L!Stores /\ store' = [store EXCEPT ![r] = store[r]]
  BY <1>1, Typed
<1>5. QED
  BY <1>1, <1>2, <1>3, <1>4, RequestEnds

LEMMA LogNext == LogInv /\ [L!Next]_L!vars => LogInv'
<1> SUFFICES ASSUME LogInv, [L!Next]_L!vars PROVE LogInv'
  OBVIOUS
<1>1. ASSUME NEW r \in Callers, NEW path \in L!Paths, NEW header \in {L!None, L!ClientId},
             L!Receive(r, path, header)
      PROVE  LogInv'
  BY <1>1, Received
<1>2. ASSUME NEW r \in Callers, L!Event(r) \/ L!Work(r) \/ L!GiveUp(r) PROVE LogInv'
  BY <1>2, Guarded, EventWritten, Handled, NoContentSent, ErrorSent, Finished, GivenUp DEF L!Work
<1>3. CASE UNCHANGED L!vars
  <2>1. lreq' = lreq /\ store' = store /\ log' = log
    BY <1>3 DEF L!vars
  <2>2. L!TypeOK'
    BY <2>1 DEF L!TypeOK, LogInv
  <2>3. (\A l \in log : LineOK(l))' /\ (\A r \in Callers : RequestOK(r))'
    BY <2>1 DEF LogInv, LineOK, RequestOK
  <2>4. QED
    BY <2>2, <2>3 DEF LogInv
<1>4. QED
  BY <1>1, <1>2, <1>3 DEF L!Next

(* A request whose answer was sent has its access line and no second one;  *)
(* any other request has none.                                             *)
Healthy(r) == lreq[r].path = "health" /\ lreq[r].outcome = "ok"
IsAccess(l, r) == l.by = r /\ l.kind = "access"
LoggedOnce(r) ==
  /\ (\E l \in log : IsAccess(l, r)) <=> lreq[r].pc = "done" /\ ~Healthy(r)
  /\ \A l, m \in log : IsAccess(l, r) /\ IsAccess(m, r) => l = m
HealthOutcome(r) ==
  lreq[r].path = "health" /\ lreq[r].pc \in {"filter", "sent", "done", "closed"} =>
    lreq[r].outcome \in {"ok", "unavailable"}
AccessInv == \A r \in Callers : LoggedOnce(r) /\ HealthOutcome(r)

(* A step of the request r that writes no access line.                     *)
LEMMA NoAccess ==
  ASSUME LogInv, AccessInv, NEW r \in Callers, \A s \in Callers \ {r} : lreq'[s] = lreq[s],
         \A l, s : s \in Callers /\ s # r /\ IsAccess(l, s) => (l \in log' <=> l \in log),
         \A l \in log' : ~IsAccess(l, r),
         lreq'[r].pc # "done" \/ Healthy(r)', HealthOutcome(r)'
  PROVE  AccessInv'
<1>1. LoggedOnce(r)'
  BY DEF LoggedOnce, IsAccess
<1>2. ASSUME NEW s \in Callers, s # r PROVE (LoggedOnce(s) /\ HealthOutcome(s))'
  <2>1. lreq'[s] = lreq[s] /\ LoggedOnce(s) /\ HealthOutcome(s)
    BY <1>2 DEF AccessInv
  <2>2. \A l : IsAccess(l, s) => (l \in log' <=> l \in log)
    BY <1>2
  <2>3. QED
    BY <2>1, <2>2 DEF LoggedOnce, HealthOutcome, Healthy, IsAccess
<1>3. QED
  BY <1>1, <1>2 DEF AccessInv

LEMMA AccessInit == L!Init => AccessInv
BY DEF L!Init, L!Idle, AccessInv, LoggedOnce, HealthOutcome, IsAccess

LEMMA AccessNext == LogInv /\ AccessInv /\ [L!Next]_L!vars => AccessInv'
<1> SUFFICES ASSUME LogInv, AccessInv, [L!Next]_L!vars PROVE AccessInv'
  OBVIOUS
<1>0. lreq \in [Callers -> Frames] /\ \A r \in Callers : LoggedOnce(r) /\ HealthOutcome(r)
  BY Typed DEF AccessInv, LogInv, L!TypeOK, Frames
<1>1. ASSUME NEW r \in Callers, NEW path \in L!Paths, NEW header \in {L!None, L!ClientId},
             L!Receive(r, path, header)
      PROVE  AccessInv'
  <2>1. /\ log' = {l \in log : l.by # r} /\ \A s \in Callers \ {r} : lreq'[s] = lreq[s]
        /\ lreq'[r].pc \in {"guard", "handler"}
    BY <1>0, <1>1 DEF L!Receive, L!Idle, Frames
  <2>2. QED
    BY <2>1, NoAccess DEF IsAccess, HealthOutcome
<1>2. ASSUME NEW r \in Callers, lreq[r].pc \in {"guard", "handler", "filter", "sent"} PROVE \A l \in log : ~IsAccess(l, r)
  BY <1>0, <1>2 DEF LoggedOnce
<1>3. ASSUME NEW r \in Callers, L!Guard(r) PROVE AccessInv'
  <2>1. /\ log' = log /\ lreq[r].pc = "guard" /\ lreq[r].path = "guarded"
    BY <1>3, Typed DEF L!Guard, L!At, RequestOK
  <2>2. /\ \A s \in Callers \ {r} : lreq'[s] = lreq[s]
        /\ lreq'[r].pc \in {"handler", "filter"} /\ lreq'[r].path = lreq[r].path
    BY <1>0, <1>3 DEF L!Guard, L!Goto, Frames
  <2>3. QED
    BY <1>2, <2>1, <2>2, NoAccess DEF HealthOutcome
<1>4. ASSUME NEW r \in Callers, L!Event(r) PROVE AccessInv'
  <2>1. PICK new : new = L!Line(r, "event", "log", 0)
    OBVIOUS
  <2>2. /\ log' = log \cup {new} /\ lreq' = lreq /\ lreq[r].pc = "handler" /\ new.by = r /\ new.kind = "event"
    BY <1>4, <2>1 DEF L!Event, L!At, L!Write, L!Line
  <2>3. QED
    BY <1>2, <2>2, NoAccess DEF IsAccess, HealthOutcome
<1>5. ASSUME NEW r \in Callers, L!Handle(r) PROVE AccessInv'
  <2>1. PICK o : /\ o \in IF lreq[r].path = "health" THEN {"ok", "unavailable"} ELSE L!Outcomes \ {"unavailable"}
                 /\ lreq' = [lreq EXCEPT ![r].pc = IF o = "ok" THEN "sent" ELSE "filter", ![r].outcome = o]
    BY <1>5 DEF L!Handle
  <2>2. /\ \A s \in Callers \ {r} : lreq'[s] = lreq[s]
        /\ lreq'[r].pc \in {"sent", "filter"} /\ lreq'[r].path = lreq[r].path /\ lreq'[r].outcome = o
    BY <1>0, <2>1 DEF Frames
  <2>3. log' = log /\ lreq[r].pc = "handler"
    BY <1>5 DEF L!Handle, L!At
  <2>4. HealthOutcome(r)'
    BY <2>1, <2>2 DEF HealthOutcome
  <2>5. QED
    BY <1>2, <2>2, <2>3, <2>4, NoAccess
<1>6. ASSUME NEW r \in Callers, L!SendNoContent(r) \/ L!SendError(r) \/ L!GiveUp(r) PROVE AccessInv'
  <2>1. PICK kind, level, status, new :
          /\ kind \in {"warning", "report"}
          /\ new = L!Line(r, kind, level, status)
          /\ log' = log \/ log' = log \cup {new}
    BY <1>6 DEF L!SendNoContent, L!SendError, L!GiveUp, L!Write
  <2>2. new.by = r /\ new.kind \in {"warning", "report"}
    BY <2>1 DEF L!Line
  <2>3. lreq[r].pc \in {"filter", "sent"} /\ (L!Goto(r, "sent") \/ L!Goto(r, "closed"))
    BY <1>6 DEF L!SendNoContent, L!SendError, L!GiveUp, L!At
  <2>4. /\ \A s \in Callers \ {r} : lreq'[s] = lreq[s]
        /\ lreq'[r].pc \in {"sent", "closed"} /\ lreq'[r].path = lreq[r].path /\ lreq'[r].outcome = lreq[r].outcome
    BY <1>0, <2>3 DEF L!Goto, Frames
  <2>5. HealthOutcome(r)'
    BY <1>0, <2>3, <2>4 DEF HealthOutcome
  <2>6. \A l \in log' : ~IsAccess(l, r)
    BY <1>2, <2>1, <2>2, <2>3 DEF IsAccess
  <2>7. \A l, s : s \in Callers /\ s # r /\ IsAccess(l, s) => (l \in log' <=> l \in log)
    BY <2>1, <2>2 DEF IsAccess
  <2>8. QED
    BY <2>4, <2>5, <2>6, <2>7, NoAccess
<1>7. ASSUME NEW r \in Callers, L!Finish(r) PROVE AccessInv'
  <2>1. /\ lreq[r].pc = "sent" /\ L!Goto(r, "done")
    BY <1>7 DEF L!Finish, L!At
  <2>2. /\ \A s \in Callers \ {r} : lreq'[s] = lreq[s]
        /\ lreq'[r].pc = "done" /\ lreq'[r].path = lreq[r].path /\ lreq'[r].outcome = lreq[r].outcome
    BY <1>0, <2>1 DEF L!Goto, Frames
  <2>3. HealthOutcome(r)' /\ \A l \in log : ~IsAccess(l, r)
    BY <1>0, <1>2, <2>1, <2>2 DEF HealthOutcome
  <2>4. lreq[r].outcome \in L!Outcomes
    BY Typed
  <2>5. L!Status[lreq[r].outcome] < 400 /\ lreq[r].path = "health" <=> Healthy(r)
    BY <1>0, <2>1, <2>4, OutcomesAre DEF HealthOutcome, Healthy, L!Status
  <2>6. CASE Healthy(r)
    <3>1. log' = log
      BY <1>7, <2>5, <2>6 DEF L!Finish
    <3>2. Healthy(r)'
      BY <2>2, <2>6 DEF Healthy
    <3>3. QED
      BY <2>2, <2>3, <3>1, <3>2, NoAccess
  <2>7. CASE ~Healthy(r)
    <3>1. PICK level, new : /\ new = L!Line(r, "access", level, L!Status[lreq[r].outcome])
                            /\ log' = log \cup {new}
      BY <1>7, <2>5, <2>7 DEF L!Finish, L!Write
    <3>2. IsAccess(new, r) /\ \A s \in Callers \ {r} : ~IsAccess(new, s)
      BY <3>1 DEF L!Line, IsAccess
    <3>3. LoggedOnce(r)'
      BY <2>2, <2>3, <2>7, <3>1, <3>2 DEF LoggedOnce, Healthy, IsAccess
    <3>4. ASSUME NEW s \in Callers, s # r PROVE (LoggedOnce(s) /\ HealthOutcome(s))'
      <4>1. lreq'[s] = lreq[s] /\ LoggedOnce(s) /\ HealthOutcome(s)
        BY <1>0, <2>2, <3>4
      <4>2. \A l : IsAccess(l, s) => (l \in log' <=> l \in log)
        BY <3>1, <3>2, <3>4
      <4>3. QED
        BY <4>1, <4>2 DEF LoggedOnce, HealthOutcome, Healthy, IsAccess
    <3>5. QED
      BY <2>3, <3>3, <3>4 DEF AccessInv
  <2>8. QED
    BY <2>6, <2>7
<1>8. CASE UNCHANGED L!vars
  BY <1>8 DEF L!vars, AccessInv, LoggedOnce, HealthOutcome, Healthy, IsAccess
<1>9. QED
  BY <1>1, <1>3, <1>4, <1>5, <1>6, <1>7, <1>8 DEF L!Next, L!Work

-----------------------------------------------------------------------------
(* What is shown of a body (Redact)                                        *)

(* The prover knows of a recursive function only that it is chosen, so its *)
(* existence comes first; then a walk along any path of keys, in the value *)
(* and in its redaction, a key at a time.                                  *)

LEMMA RedactInit == X!Init => X!TypeOK
BY DEF X!Init, X!TypeOK

(* What is nested stays nested, so that whatever holds it still does.      *)
LEMMA RedactNext == X!TypeOK /\ [X!Next]_X!vars => X!TypeOK'
<1> SUFFICES ASSUME X!TypeOK, [X!Next]_X!vars PROVE X!TypeOK'
  OBVIOUS
<1> DEFINE From(v, S) ==
             \/ v = X!Leaf
             \/ \E I \in SUBSET Indices : \E items \in [I -> S] : v = X!Array(items)
             \/ \E N \in SUBSET Labels : \E entries \in [N -> S] : v = X!Object(entries)
<1>0. ASSUME NEW w, From(w, nested), X!Hold(w) PROVE X!TypeOK'
  <2>1. nested \subseteq nested' /\ value' = w /\ nested' = nested \cup {w}
    BY <1>0 DEF X!Hold
  <2>2. \A K : [K -> nested] \subseteq [K -> nested']
    BY <2>1
  <2>3. \A v : From(v, nested) => From(v, nested')
    BY <2>2
  <2>4. \A v \in nested : From(v, nested)
    BY DEF X!TypeOK
  <2> HIDE DEF From
  <2>5. value' \in nested' /\ \A v \in nested' : From(v, nested')
    BY <1>0, <2>1, <2>3, <2>4
  <2>6. QED
    BY <2>5 DEF From, X!TypeOK
<1>1. ASSUME NEW I \in SUBSET Indices, NEW items \in [I -> nested], X!Hold(X!Array(items))
      PROVE  X!TypeOK'
  BY <1>0, <1>1
<1>2. ASSUME NEW N \in SUBSET Labels, NEW entries \in [N -> nested], X!Hold(X!Object(entries))
      PROVE  X!TypeOK'
  BY <1>0, <1>2
<1>3. CASE X!Another
  BY <1>3 DEF X!TypeOK, X!Another
<1>4. CASE UNCHANGED X!vars
  BY <1>4 DEF X!TypeOK, X!vars
<1>5. QED
  BY <1>1, <1>2, <1>3, <1>4 DEF X!Next, X!Grow

(* A step of redactSensitive, with what the calls below it give.           *)
RedactStep(answers, depth) ==
  [v \in nested |->
     CASE X!IsPrimitive(v) -> v
       [] ~X!IsPrimitive(v) /\ depth >= MaxDepth -> X!Redacted
       [] ~X!IsPrimitive(v) /\ depth < MaxDepth /\ v.kind = "array" ->
            X!Array([i \in DOMAIN v.fields |-> answers[depth + 1][v.fields[i]]])
       [] OTHER ->
            X!Object([key \in DOMAIN v.fields |->
                        IF key \in Sensitive THEN X!Redacted ELSE answers[depth + 1][v.fields[key]]])]

IsRedaction(answers) == answers = [depth \in Nat |-> RedactStep(answers, depth)]

LEMMA RedactionIs == X!Redaction = CHOOSE answers : IsRedaction(answers)
BY DEF X!Redaction, IsRedaction, RedactStep, X!IsPrimitive

(* It is defined from the deepest calls up, which call no other.            *)
LEMMA RedactionExists == IsRedaction(X!Redaction)
<1> DEFINE Deeper(n) == {depth \in Nat : depth + n >= MaxDepth}
           S == {n \in Nat : \E answers : answers = [depth \in Deeper(n) |-> RedactStep(answers, depth)]}
<1>1. 0 \in S
  <2>1. \A answers, others : \A depth \in Deeper(0) : RedactStep(answers, depth) = RedactStep(others, depth)
    BY CommonAssumption DEF X!RedactAssumption, RedactStep
  <2> DEFINE answers == [depth \in Deeper(0) |-> RedactStep(0, depth)]
  <2>2. answers = [depth \in Deeper(0) |-> RedactStep(answers, depth)]
    <3> HIDE DEF answers
    <3>1. \A depth \in Deeper(0) : RedactStep(0, depth) = RedactStep(answers, depth)
      BY <2>1
    <3>2. QED
      BY <3>1 DEF answers
  <2>3. QED
    BY <2>2
<1>2. ASSUME NEW n \in Nat, n \in S PROVE n + 1 \in S
  <2>1. PICK answers : answers = [depth \in Deeper(n) |-> RedactStep(answers, depth)]
    BY <1>2
  <2> DEFINE more == [depth \in Deeper(n + 1) |->
                        IF depth \in Deeper(n) THEN answers[depth] ELSE RedactStep(answers, depth)]
  <2>2. ASSUME NEW depth \in Deeper(n + 1) PROVE depth + 1 \in Deeper(n) /\ depth + 1 \in Deeper(n + 1)
    BY CommonAssumption DEF X!RedactAssumption
  <2>3. \A depth \in Deeper(n) : depth \in Deeper(n + 1) /\ more[depth] = answers[depth]
    BY CommonAssumption DEF X!RedactAssumption
  <2>4. ASSUME NEW depth \in Deeper(n + 1) PROVE more[depth] = RedactStep(answers, depth)
    BY <2>1
  <2> HIDE DEF more
  <2>5. ASSUME NEW depth \in Deeper(n + 1) PROVE RedactStep(answers, depth) = RedactStep(more, depth)
    <3>1. answers[depth + 1] = more[depth + 1]
      BY <2>2, <2>3
    <3>2. QED
      BY <3>1 DEF RedactStep
  <2>6. more = [depth \in Deeper(n + 1) |-> RedactStep(more, depth)]
    <3>1. more = [depth \in Deeper(n + 1) |-> RedactStep(answers, depth)]
      BY <2>4 DEF more
    <3>2. QED
      BY <2>5, <3>1
  <2>7. QED
    BY <2>6
<1>3. Nat \subseteq S
  <2> HIDE DEF S
  <2>1. QED
    BY <1>1, <1>2, NatSetInduction
<1>4. MaxDepth \in S
  BY <1>3, CommonAssumption DEF X!RedactAssumption
<1>5. Deeper(MaxDepth) = Nat
  BY CommonAssumption DEF X!RedactAssumption
<1>6. \E answers : IsRedaction(answers)
  BY <1>4, <1>5 DEF IsRedaction
<1>7. QED
  BY <1>6, RedactionIs

(* What lies along a path of n keys.                                       *)
WalksTo(at, n, v, path) ==
  at = [i \in 0..n |-> IF i = 0 THEN v ELSE X!Child(at[i - 1], path[i])]

LEMMA WalkIs ==
  \A v, path : X!Walk(v, path) = CHOOSE at : WalksTo(at, Len(path), v, path)
BY DEF X!Walk, WalksTo

LEMMA WalkExists ==
  ASSUME NEW v, NEW path, Len(path) \in Nat
  PROVE  WalksTo(X!Walk(v, path), Len(path), v, path)
<1> DEFINE S == {n \in Nat : \E at : WalksTo(at, n, v, path)}
<1>1. 0 \in S
  <2>1. WalksTo([i \in 0..0 |-> v], 0, v, path)
    BY DEF WalksTo
  <2>2. QED
    BY <2>1
<1>2. ASSUME NEW n \in Nat, n \in S PROVE n + 1 \in S
  <2>1. PICK at : WalksTo(at, n, v, path)
    BY <1>2
  <2> DEFINE longer == [i \in 0..(n + 1) |-> IF i = n + 1 THEN X!Child(at[n], path[n + 1]) ELSE at[i]]
  <2>2. \A i \in 0..n : at[i] = IF i = 0 THEN v ELSE X!Child(at[i - 1], path[i])
    BY <2>1 DEF WalksTo
  <2>3. longer[n + 1] = X!Child(at[n], path[n + 1]) /\ \A i \in 0..n : longer[i] = at[i]
    OBVIOUS
  <2> HIDE DEF longer
  <2>4. ASSUME NEW i \in 0..(n + 1)
        PROVE  longer[i] = IF i = 0 THEN v ELSE X!Child(longer[i - 1], path[i])
    <3>1. CASE i = n + 1
      BY <2>3, <3>1
    <3>2. CASE i \in 0..n
      BY <2>2, <2>3, <3>2
    <3>3. QED
      BY <3>1, <3>2
  <2>5. WalksTo(longer, n + 1, v, path)
    BY <2>4 DEF WalksTo, longer
  <2>6. QED
    BY <2>5
<1>3. Nat \subseteq S
  <2> HIDE DEF S
  <2>1. QED
    BY <1>1, <1>2, NatSetInduction
<1>4. QED
  BY <1>3, WalkIs

(* Whether what lies at i keys of the path is shown.                       *)
Shown(path, i) == i <= MaxDepth /\ \A j \in 1..i : path[j] \notin Sensitive
Hidden == {X!Redacted, X!Missing}

LEMMA RedactionOf ==
  ASSUME X!TypeOK, NEW depth \in Nat, NEW v \in nested
  PROVE  X!Redaction[depth][v] = RedactStep(X!Redaction, depth)[v]
<1>1. PICK answers : answers = X!Redaction
  OBVIOUS
<1>2. answers = [d \in Nat |-> RedactStep(answers, d)]
  BY <1>1, RedactionExists DEF IsRedaction
<1>3. answers[depth] = RedactStep(answers, depth)
  BY <1>2
<1>4. QED
  BY <1>1, <1>3

LEMMA KindsDiffer ==
  /\ X!Leaf.kind = "leaf" /\ X!Redacted.kind = "redacted" /\ X!Missing.kind = "missing"
  /\ DOMAIN X!Leaf.fields = {} /\ DOMAIN X!Redacted.fields = {} /\ DOMAIN X!Missing.fields = {}
  /\ \A f : X!Array(f).kind = "array" /\ X!Array(f).fields = f
  /\ \A f : X!Object(f).kind = "object" /\ X!Object(f).fields = f
BY DEF X!Leaf, X!Redacted, X!Missing, X!Array, X!Object

LEMMA NestedIs ==
  ASSUME X!TypeOK, NEW v \in nested
  PROVE  \/ v = X!Leaf
         \/ /\ v.kind \in {"array", "object"}
            /\ \A key \in DOMAIN v.fields : v.fields[key] \in nested
            /\ v.kind = "array" => DOMAIN v.fields \cap Sensitive = {}
<1>1. ASSUME NEW I \in SUBSET Indices, NEW items \in [I -> nested], v = X!Array(items)
      PROVE  /\ v.kind = "array" /\ DOMAIN v.fields \cap Sensitive = {}
             /\ \A key \in DOMAIN v.fields : v.fields[key] \in nested
  BY <1>1, KindsDiffer, CommonAssumption DEF X!RedactAssumption
<1>2. ASSUME NEW M \in SUBSET Labels, NEW entries \in [M -> nested], v = X!Object(entries)
      PROVE  v.kind = "object" /\ \A key \in DOMAIN v.fields : v.fields[key] \in nested
  BY <1>2, KindsDiffer
<1>3. QED
  BY <1>1, <1>2 DEF X!TypeOK

(* One key further: from what is shown of v to what is shown of its child. *)
LEMMA ChildOfShown ==
  ASSUME X!TypeOK, NEW depth \in Nat, NEW v \in nested, NEW key
  PROVE  LET r == X!Child(X!Redaction[depth][v], key)
             w == X!Child(v, key)
         IN  IF depth < MaxDepth /\ key \notin Sensitive /\ w # X!Missing
             THEN w \in nested /\ r = X!Redaction[depth + 1][w]
             ELSE r \in Hidden
<1> DEFINE a == X!Redaction[depth][v]
<1>1. PICK below : below = X!Redaction[depth + 1]
  OBVIOUS
<1>2. a = CASE X!IsPrimitive(v) -> v
            [] ~X!IsPrimitive(v) /\ depth >= MaxDepth -> X!Redacted
            [] ~X!IsPrimitive(v) /\ depth < MaxDepth /\ v.kind = "array" ->
                 X!Array([i \in DOMAIN v.fields |-> below[v.fields[i]]])
            [] OTHER ->
                 X!Object([k \in DOMAIN v.fields |->
                             IF k \in Sensitive THEN X!Redacted ELSE below[v.fields[k]]])
  BY <1>1, RedactionOf DEF RedactStep
<1> HIDE DEF a
<1>3. CASE v = X!Leaf
  <2>1. a = X!Leaf
    BY <1>2, <1>3, KindsDiffer DEF X!IsPrimitive
  <2>2. QED
    BY <1>3, <2>1, KindsDiffer DEF a, X!Child, Hidden
<1>4. CASE v # X!Leaf /\ depth >= MaxDepth
  <2>0. ~X!IsPrimitive(v) /\ ~(depth < MaxDepth)
    BY <1>4, NestedIs, CommonAssumption DEF X!IsPrimitive, X!RedactAssumption
  <2>1. a = X!Redacted
    BY <1>2, <1>4, <2>0
  <2>2. X!Child(a, key) = X!Missing
    BY <2>1, KindsDiffer DEF X!Child
  <2>3. QED
    BY <2>0, <2>2 DEF a, Hidden
<1>5. CASE v # X!Leaf /\ depth < MaxDepth
  <2>1. /\ v.kind \in {"array", "object"} /\ \A k \in DOMAIN v.fields : v.fields[k] \in nested
        /\ v.kind = "array" => DOMAIN v.fields \cap Sensitive = {}
    BY <1>5, NestedIs
  <2>2. /\ DOMAIN a.fields = DOMAIN v.fields
        /\ \A k \in DOMAIN v.fields : a.fields[k] = IF k \in Sensitive THEN X!Redacted ELSE below[v.fields[k]]
    <3>1. CASE v.kind = "array"
      <4>1. a = X!Array([i \in DOMAIN v.fields |-> below[v.fields[i]]])
        BY <1>2, <1>5, <3>1, CommonAssumption DEF X!IsPrimitive, X!RedactAssumption
      <4>2. QED
        BY <2>1, <3>1, <4>1, KindsDiffer
    <3>2. CASE v.kind = "object"
      <4>1. a = X!Object([k \in DOMAIN v.fields |-> IF k \in Sensitive THEN X!Redacted ELSE below[v.fields[k]]])
        BY <1>2, <1>5, <3>2, CommonAssumption DEF X!IsPrimitive, X!RedactAssumption
      <4>2. QED
        BY <4>1, KindsDiffer
    <3>3. QED
      BY <2>1, <3>1, <3>2
  <2>3. CASE key \notin DOMAIN v.fields
    <3>1. X!Child(a, key) = X!Missing /\ X!Child(v, key) = X!Missing
      BY <2>2, <2>3 DEF X!Child
    <3>2. QED
      BY <3>1 DEF a, Hidden
  <2>4. CASE key \in DOMAIN v.fields
    <3>1. X!Child(a, key) = a.fields[key] /\ X!Child(v, key) = v.fields[key]
      BY <2>2, <2>4 DEF X!Child
    <3>2. v.fields[key] \in nested
      BY <2>1, <2>4
    <3>3. v.fields[key] # X!Missing
      BY <3>2, NestedIs, KindsDiffer
    <3>4. a.fields[key] = IF key \in Sensitive THEN X!Redacted ELSE below[v.fields[key]]
      BY <2>2, <2>4
    <3>5. QED
      BY <1>1, <1>5, <3>1, <3>2, <3>3, <3>4 DEF a, Hidden
  <2>5. QED
    BY <2>3, <2>4
<1>6. QED
  BY <1>3, <1>4, <1>5, CommonAssumption DEF X!RedactAssumption

(* Along a path, what is shown is the redaction of what is there, as long  *)
(* as no key is sensitive and the depth allows; then nothing is shown.     *)
LEMMA WalkOfShown ==
  ASSUME X!TypeOK, NEW path, NEW n \in Nat, Len(path) = n,
         NEW at, at = X!Walk(value, path), NEW r, r = X!Walk(X!redactSensitive(value, 0), path)
  PROVE  \A i \in 0..n :
           IF Shown(path, i) /\ at[i] # X!Missing
           THEN at[i] \in nested /\ r[i] = X!Redaction[i][at[i]]
           ELSE r[i] \in Hidden
<1> DEFINE There(i) == at[i] \in nested /\ r[i] = X!Redaction[i][at[i]]
           S == {i \in Nat : i <= n => IF Shown(path, i) /\ at[i] # X!Missing
                                       THEN There(i) ELSE r[i] \in Hidden}
<1>0. value \in nested /\ value # X!Missing
  BY NestedIs, KindsDiffer DEF X!TypeOK
<1>1. \A i \in 0..n : /\ at[i] = IF i = 0 THEN value ELSE X!Child(at[i - 1], path[i])
                      /\ r[i] = IF i = 0 THEN X!redactSensitive(value, 0) ELSE X!Child(r[i - 1], path[i])
  <2>1. WalksTo(at, n, value, path) /\ WalksTo(r, n, X!redactSensitive(value, 0), path)
    BY WalkExists
  <2>2. \A i \in 0..n : at[i] = IF i = 0 THEN value ELSE X!Child(at[i - 1], path[i])
    BY <2>1 DEF WalksTo
  <2>3. \A i \in 0..n : r[i] = IF i = 0 THEN X!redactSensitive(value, 0) ELSE X!Child(r[i - 1], path[i])
    BY <2>1 DEF WalksTo
  <2>4. QED
    BY <2>2, <2>3
<1>2. 0 \in S
  <2>1. at[0] = value /\ r[0] = X!Redaction[0][value]
    BY <1>1 DEF X!redactSensitive
  <2>2. Shown(path, 0)
    BY CommonAssumption DEF Shown, X!RedactAssumption
  <2>3. QED
    BY <1>0, <2>1, <2>2
<1>3. ASSUME NEW i \in Nat, i \in S PROVE i + 1 \in S
  <2>1. SUFFICES ASSUME i + 1 <= n
                 PROVE  IF Shown(path, i + 1) /\ at[i + 1] # X!Missing THEN There(i + 1) ELSE r[i + 1] \in Hidden
    OBVIOUS
  <2>2. at[i + 1] = X!Child(at[i], path[i + 1]) /\ r[i + 1] = X!Child(r[i], path[i + 1])
    BY <1>1, <2>1
  <2>3. Shown(path, i + 1) <=> Shown(path, i) /\ i < MaxDepth /\ path[i + 1] \notin Sensitive
    BY CommonAssumption DEF Shown, X!RedactAssumption
  <2>4. IF Shown(path, i) /\ at[i] # X!Missing THEN There(i) ELSE r[i] \in Hidden
    BY <1>3, <2>1
  <2>5. CASE Shown(path, i) /\ at[i] # X!Missing
    <3>1. There(i)
      BY <2>4, <2>5
    <3>2. PICK w, u, key : w = at[i] /\ u = r[i] /\ key = path[i + 1]
      OBVIOUS
    <3>3. w \in nested /\ u = X!Redaction[i][w]
      BY <3>1, <3>2
    <3>4. IF i < MaxDepth /\ key \notin Sensitive /\ X!Child(w, key) # X!Missing
          THEN X!Child(w, key) \in nested /\ X!Child(u, key) = X!Redaction[i + 1][X!Child(w, key)]
          ELSE X!Child(u, key) \in Hidden
      BY <3>3, ChildOfShown
    <3>5. QED
      BY <2>2, <2>3, <2>5, <3>2, <3>4
  <2>6. CASE ~(Shown(path, i) /\ at[i] # X!Missing)
    <3>1. r[i] \in Hidden
      BY <2>4, <2>6
    <3>2. r[i + 1] = X!Missing
      BY <2>2, <3>1, KindsDiffer DEF X!Child, Hidden
    <3>3. at[i] = X!Missing => at[i + 1] = X!Missing
      BY <2>2, KindsDiffer DEF X!Child
    <3>4. QED
      BY <2>3, <2>6, <3>2, <3>3 DEF Hidden
  <2>7. QED
    BY <2>5, <2>6
<1>4. Nat \subseteq S
  <2> HIDE DEF S
  <2>1. QED
    BY <1>2, <1>3, NatSetInduction
<1>5. QED
  BY <1>4

(* The end of a path is a leaf in both, or hidden.                         *)
LEMMA RedactImplies == X!TypeOK => X!SecretsAreHidden
<1> SUFFICES ASSUME X!TypeOK, NEW path \in X!Paths
             PROVE  X!End(X!redactSensitive(value, 0), path) = X!Leaf
                      <=> /\ X!End(value, path) = X!Leaf
                          /\ Len(path) <= MaxDepth /\ \A i \in DOMAIN path : path[i] \notin Sensitive
  BY DEF X!SecretsAreHidden
<1>1. PICK n \in Nat : path \in [1..n -> X!Keys]
  BY CommonAssumption DEF X!Paths, X!RedactAssumption
<1>2. Len(path) = n /\ DOMAIN path = 1..n
  BY <1>1
<1>3. PICK at, r : at = X!Walk(value, path) /\ r = X!Walk(X!redactSensitive(value, 0), path)
  OBVIOUS
<1>4. IF Shown(path, n) /\ at[n] # X!Missing
      THEN at[n] \in nested /\ r[n] = X!Redaction[n][at[n]]
      ELSE r[n] \in Hidden
  BY <1>2, <1>3, WalkOfShown
<1>5. X!End(value, path) = at[n] /\ X!End(X!redactSensitive(value, 0), path) = r[n]
  BY <1>2, <1>3 DEF X!End
<1>6. ASSUME NEW v \in nested PROVE X!Redaction[n][v] = X!Leaf <=> v = X!Leaf
  <2>1. PICK below : below = X!Redaction[n + 1]
    OBVIOUS
  <2>2. X!Redaction[n][v] =
          CASE X!IsPrimitive(v) -> v
            [] ~X!IsPrimitive(v) /\ n >= MaxDepth -> X!Redacted
            [] ~X!IsPrimitive(v) /\ n < MaxDepth /\ v.kind = "array" ->
                 X!Array([i \in DOMAIN v.fields |-> below[v.fields[i]]])
            [] OTHER ->
                 X!Object([k \in DOMAIN v.fields |->
                             IF k \in Sensitive THEN X!Redacted ELSE below[v.fields[k]]])
    BY <2>1, RedactionOf DEF RedactStep
  <2>3. X!IsPrimitive(v) <=> v = X!Leaf
    BY NestedIs, KindsDiffer DEF X!IsPrimitive
  <2>4. QED
    BY <2>2, <2>3, KindsDiffer
<1>7. Shown(path, n) <=> n <= MaxDepth /\ \A i \in 1..n : path[i] \notin Sensitive
  BY DEF Shown
<1>8. X!Leaf \notin Hidden /\ X!Leaf # X!Missing
  BY KindsDiffer DEF Hidden
<1>9. QED
  BY <1>2, <1>4, <1>5, <1>6, <1>7, <1>8

-----------------------------------------------------------------------------
(* The four together (Common)                                              *)

(* A behaviour is one of its parts and leaves the others alone, so that    *)
(* each part keeps its own invariant; the fairness is not needed.          *)

LEMMA EachPart == CommonSpec => []TypeOK /\ []ClientInv /\ []LogInv /\ []AccessInv /\ []X!TypeOK
<1>1. CommonInit => TypeOK /\ ClientInv /\ LogInv /\ AccessInv /\ X!TypeOK
  BY InitIsTyped, ClientInit, LogInit, AccessInit, RedactInit DEF CommonInit
<1>2. ASSUME [CommonNext]_CommonVars PROVE [Next]_vars /\ [C!Next]_C!vars /\ [L!Next]_L!vars /\ [X!Next]_X!vars
  <2>1. [Next]_vars
    BY <1>2 DEF CommonNext, CommonVars, Limiting, Connecting, Logging, Redacting
  <2>2. [C!Next]_C!vars
    BY <1>2 DEF CommonNext, CommonVars, Limiting, Connecting, Logging, Redacting, cvars, C!vars
  <2>3. [L!Next]_L!vars
    BY <1>2 DEF CommonNext, CommonVars, Limiting, Connecting, Logging, Redacting, lvars, L!vars
  <2>4. [X!Next]_X!vars
    BY <1>2 DEF CommonNext, CommonVars, Limiting, Connecting, Logging, Redacting, xvars, X!vars
  <2>5. QED
    BY <2>1, <2>2, <2>3, <2>4
<1>3. TypeOK /\ ClientInv /\ LogInv /\ AccessInv /\ X!TypeOK /\ [CommonNext]_CommonVars =>
        (TypeOK /\ ClientInv /\ LogInv /\ AccessInv /\ X!TypeOK)'
  BY <1>2, StepIsTyped, ClientNext, LogNext, AccessNext, RedactNext
<1>4. QED
  BY <1>1, <1>3, PTL DEF CommonSpec

(* For any numbers of requests, clients and ticks, the limit, the clients  *)
(* of Redis, the log of requests and the values that it redacts keep the   *)
(* types of their state.                                                   *)
THEOREM TypesOKHolds == CommonSpec => []TypesOK
<1>1. TypeOK /\ ClientInv /\ LogInv /\ X!TypeOK => TypesOK
  BY DEF TypesOK, ClientInv, LogInv
<1>2. QED
  BY <1>1, EachPart, PTL

(* For any number of requests and clients: an open client is the one that  *)
(* is kept, or was made while another call connected one                   *)
(* (RedisService.getClient).                                               *)
THEOREM OneClientUnlessRacedHolds == CommonSpec => []OneClientUnlessRaced
<1>1. ClientInv => OneClientUnlessRaced
  BY DEF ClientInv, OneClientUnlessRaced
<1>2. QED
  BY <1>1, EachPart, PTL

(* For any number of requests, interleaved at every await: a line of the   *)
(* log tells the id, the user, the status and the error of the request     *)
(* that wrote it; what the server or a supplier failed at is reported, and *)
(* what a caller used wrongly or may not do is not                         *)
(* (RequestContextMiddleware, HttpExceptionFilter.catch).                  *)
THEOREM LogIsTrueHolds == CommonSpec => []LogIsTrue
<1>1. LogInv => LogIsTrue
  BY LogImplies DEF LogIsTrue
<1>2. QED
  BY <1>1, EachPart, PTL

(* For any number of requests: a request whose answer was sent has one     *)
(* access line, a healthy health check none, and no request has one before *)
(* (logAccess on finish).                                                  *)
THEOREM EveryAnswerIsLoggedOnce == CommonSpec => [](\A r \in Callers : LoggedOnce(r))
<1>1. AccessInv => \A r \in Callers : LoggedOnce(r)
  BY DEF AccessInv
<1>2. QED
  BY <1>1, EachPart, PTL

(* For any keys, any depth and any value that is built of them: what is    *)
(* shown of the value is exactly what lies under no sensitive key and not  *)
(* deeper than MAX_DEPTH (redactSensitive).                                *)
THEOREM SecretsAreHiddenHolds == CommonSpec => []SecretsAreHidden
<1>1. X!TypeOK => SecretsAreHidden
  BY RedactImplies DEF SecretsAreHidden
<1>2. QED
  BY <1>1, EachPart, PTL
=============================================================================
