------------------------------- MODULE Metrics -------------------------------
(***************************************************************************)
(* Counters of recommendations (src/src/common/metrics): a total and one   *)
(* counter a day for each type, in Redis.  A recommendation increments     *)
(* them on the side and nobody waits for it; a query reads the last days   *)
(* of all types in one MGET and cuts the flat answer up again.  A counter  *)
(* of a day dies RetentionDays after its last increment.                   *)
(***************************************************************************)
EXTENDS Integers, SequencesExt

CONSTANTS
  Requests,        \* slots for increments and queries in flight
  Types,           \* RECOMMENDATION_TYPES, a sequence
  RetentionDays,   \* METRIC_RETENTION_DAYS
  DefaultDays,     \* DEFAULT_DAYS
  Asked,           \* the parameter of a query: integers, 0 for no number
  DayTicks,        \* ticks of the clock in a day of Asia/Seoul
  MaxNow,          \* bound: the last tick
  MaxTotal         \* bound: increments of a type

TypeSet == Range(Types)

MetricsAssumption ==
  /\ Types \in Seq(TypeSet) /\ Types # << >>
  /\ RetentionDays \in Nat \ {0} /\ DefaultDays \in 1..RetentionDays
  /\ Asked \subseteq Int /\ DayTicks \in Nat \ {0} /\ MaxNow \in Nat /\ MaxTotal \in Nat

Days == -RetentionDays..MaxNow

VARIABLES
  now,
  total, daily,   \* the counters, by type and by type and day; absent is 0
  dies,           \* when the counter of a day expires
  made,           \* observation: increments by type and day
  req             \* per slot: the step, the type, the last day and their number

vars == <<now, total, daily, dies, made, req>>

Idle == [pc |-> "idle", type |-> Types[1], day |-> 0, days |-> 0]

TypeOK ==
  /\ now \in 0..MaxNow
  /\ total \in [TypeSet -> 0..MaxTotal]
  /\ daily \in [TypeSet -> [Days -> 0..MaxTotal]]
  /\ dies \in [TypeSet -> [Days -> Nat]]
  /\ \A t \in TypeSet, d \in Days : daily[t][d] > 0 <=> dies[t][d] > now
  /\ \A r \in Requests :
       req[r] = Idle \/
       /\ req[r].pc \in {"exec", "mget"} /\ req[r].type \in TypeSet /\ req[r].day \in 0..MaxNow
       /\ req[r].days \in 0..RetentionDays

Init ==
  /\ now = 0
  /\ total = [t \in TypeSet |-> 0]
  /\ daily = [t \in TypeSet |-> [d \in Days |-> 0]]
  /\ dies = [t \in TypeSet |-> [d \in Days |-> 0]]
  /\ made = daily
  /\ req = [r \in Requests |-> Idle]

Today == now \div DayTicks

-----------------------------------------------------------------------------
(* incrementRecommendation: the key of today, then one MULTI. *)
Increment(r, t) ==
  /\ req[r] = Idle
  /\ req' = [req EXCEPT ![r] = [Idle EXCEPT !.pc = "exec", !.type = t, !.day = Today]]
  /\ UNCHANGED <<now, total, daily, dies, made>>

Exec(r) ==
  LET t == req[r].type  d == req[r].day IN
    /\ req[r].pc = "exec" /\ total[t] < MaxTotal
    /\ total' = [total EXCEPT ![t] = @ + 1]
    /\ daily' = [daily EXCEPT ![t][d] = @ + 1]
    /\ dies' = [dies EXCEPT ![t][d] = now + RetentionDays * DayTicks]
    /\ made' = [made EXCEPT ![t][d] = @ + 1]
    /\ req' = [req EXCEPT ![r] = Idle]
    /\ UNCHANGED <<now>>

-----------------------------------------------------------------------------
(* parseDays *)
ParseDays(n) ==
  IF n < 1 THEN DefaultDays ELSE IF n < RetentionDays THEN n ELSE RetentionDays

(* recentDateKeys *)
Query(r, n) ==
  /\ req[r] = Idle
  /\ req' = [req EXCEPT ![r] = [Idle EXCEPT !.pc = "mget", !.day = Today, !.days = ParseDays(n)]]
  /\ UNCHANGED <<now, total, daily, dies, made>>

(* The keys in the order in which MGET answers them: for each type the     *)
(* total and then the days, the last one first.                            *)
Values(day, days) ==
  FlattenSeq([i \in DOMAIN Types |->
    <<total[Types[i]]>> \o [k \in 1..days |-> daily[Types[i]][day - k + 1]]])

SumOf(s) == FoldSeq(LAMBDA n, m : n + m, 0, s)

(* Faulty variant: the slices forget the totals before them. *)
SummaryShifted(i, counts, days) ==
  LET offset == (i - 1) * days
      period == SubSeq(counts, offset + 2, offset + 1 + days)
  IN  [total |-> counts[offset + 1], periodTotal |-> SumOf(period), daily |-> period]

Summary(i, counts, days) ==
  LET offset == (i - 1) * (days + 1)
      period == SubSeq(counts, offset + 2, offset + 1 + days)
  IN  [total |-> counts[offset + 1], periodTotal |-> SumOf(period), daily |-> period]

(* getRecommendationMetrics: what MGET and the slicing answer now. *)
Answer(r) ==
  LET counts == Values(req[r].day, req[r].days) IN
    [i \in DOMAIN Types |-> Summary(i, counts, req[r].days)]

(* The answer leaves. *)
MGet(r) ==
  /\ req[r].pc = "mget"
  /\ req' = [req EXCEPT ![r] = Idle]
  /\ UNCHANGED <<now, total, daily, dies, made>>

-----------------------------------------------------------------------------
(* A tick of the clock; Redis drops the counters whose time is over. *)
Tick ==
  /\ now < MaxNow
  /\ now' = now + 1
  /\ daily' = [t \in TypeSet |-> [d \in Days |-> IF dies[t][d] > now' THEN daily[t][d] ELSE 0]]
  /\ UNCHANGED <<total, dies, made, req>>

(* A call fails, which the route ignores, or the process dies. *)
Abort(r) ==
  /\ req[r] # Idle
  /\ req' = [req EXCEPT ![r] = Idle]
  /\ UNCHANGED <<now, total, daily, dies, made>>

Next ==
  \/ \E r \in Requests :
       (\E t \in TypeSet : Increment(r, t)) \/ Exec(r) \/ (\E n \in Asked : Query(r, n)) \/ MGet(r) \/ Abort(r)
  \/ Tick

Spec == Init /\ [][Next]_vars

-----------------------------------------------------------------------------
(* Properties                                                              *)

MadeIn(t, days) == FoldFunctionOnSet(LAMBDA n, m : n + m, 0, made[t], days)

(* A query that midnight does not interrupt is answered, for every type    *)
(* and each of its days, all the increments there were, each one once: no  *)
(* counter dies while a query may still ask for its day, and the slices of *)
(* the flat answer are those of their type.                                *)
AnswersAreTrue ==
  \A r \in Requests :
    req[r].pc = "mget" /\ req[r].day = Today =>
      \A i \in DOMAIN Types :
        LET t == Types[i]  s == Answer(r)[i]  first == Today - req[r].days + 1 IN
          /\ \A d \in first..Today : s.daily[Today - d + 1] = made[t][d]
          /\ s.periodTotal = MadeIn(t, first..Today)
          /\ s.total = MadeIn(t, Days)
=============================================================================
