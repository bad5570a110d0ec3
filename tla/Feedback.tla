------------------------------ MODULE Feedback ------------------------------
(***************************************************************************)
(* Reactions to reviews                                                    *)
(* (src/src/domain/restaurant/service/restaurant.service.ts).  The route   *)
(* answers at once and leaves the work behind, its errors ignored.         *)
(***************************************************************************)
CONSTANTS
  Tasks,        \* slots for work in flight, answered or not
  Users,
  ReviewIds

Pairs == Users \X ReviewIds
Types == {"L", "D"}
None == "none"
Unknown == "unknown"

VARIABLES
  live,        \* reviews that are not deleted
  reactions,   \* table restaurant_review_reactions: unique by user and review
  task,        \* per slot: what is left to do
  wished       \* observation: the reaction put last, Unknown when the work for it
               \* died or was not alone

vars == <<live, reactions, task, wished>>

Idle == [pc |-> "idle", pair |-> <<None, None>>, type |-> None]

TypeOK ==
  /\ live \subseteq ReviewIds
  /\ reactions \in [Pairs -> Types \cup {None}]
  /\ \A t \in Tasks :
       \/ task[t] = Idle
       \/ task[t] \in [pc: {"read", "write"}, pair: Pairs, type: Types \cup {None}]
  /\ wished \in [Pairs -> Types \cup {None, Unknown}]

Init ==
  /\ live = ReviewIds
  /\ reactions = [p \in Pairs |-> None] /\ wished = reactions
  /\ task = [t \in Tasks |-> Idle]

At(t, step) == task[t].pc = step
Goto(t, step) == task' = [task EXCEPT ![t].pc = step]

End(t) == task' = [task EXCEPT ![t] = Idle]

-----------------------------------------------------------------------------
Reacting(t, p) == task[t] # Idle /\ task[t].pair = p

(* putReviewReaction: success is answered before the work begins. *)
Put(t, p, type) ==
  /\ task[t] = Idle
  /\ task' = [task EXCEPT ![t] = [Idle EXCEPT !.pc = "read", !.pair = p, !.type = type]]
  /\ wished' = [wished EXCEPT ![p] = IF \E s \in Tasks : Reacting(s, p) THEN Unknown ELSE type]
  /\ UNCHANGED <<live, reactions>>

(* upsertRestaurantReviewRxn *)
ReadReview(t) ==
  /\ At(t, "read")
  /\ IF task[t].pair[2] \in live THEN Goto(t, "write") ELSE End(t)
  /\ UNCHANGED <<live, reactions, wished>>

(* Faulty variant: a reaction that exists is kept. *)
CreateReaction(t) ==
  /\ At(t, "write")
  /\ reactions' = [reactions EXCEPT ![task[t].pair] =
                     IF @ # None /\ task[t].type # None THEN @ ELSE task[t].type]
  /\ End(t)
  /\ UNCHANGED <<live, wished>>

(* An upsert, or a delete, which throws when there is nothing to delete. *)
WriteReaction(t) ==
  /\ At(t, "write")
  /\ reactions' = [reactions EXCEPT ![task[t].pair] = task[t].type]
  /\ End(t)
  /\ UNCHANGED <<live, wished>>

-----------------------------------------------------------------------------
(* deleteRestaurnatReview *)
DeleteReview(v) ==
  /\ v \in live
  /\ live' = live \ {v}
  /\ UNCHANGED <<reactions, task, wished>>

(* An awaited call throws, or the process dies. *)
Abort(t) ==
  /\ task[t] # Idle
  /\ wished' = [wished EXCEPT ![task[t].pair] = Unknown]
  /\ End(t)
  /\ UNCHANGED <<live, reactions>>

Next ==
  \/ \E t \in Tasks :
       \/ \E p \in Pairs, type \in Types \cup {None} : Put(t, p, type)
       \/ ReadReview(t) \/ WriteReaction(t) \/ Abort(t)
  \/ \E v \in ReviewIds : DeleteReview(v)

Spec == Init /\ [][Next]_vars

-----------------------------------------------------------------------------
(* Properties                                                              *)

(* When the work for a user's reactions to a live review is done, the      *)
(* reaction is the one that was put last, unless its work died or was      *)
(* still going on when the next was put: the answers come before the work  *)
(* and nothing keeps two pieces of it in order.                            *)
LastPutCounts ==
  \A p \in Pairs :
    p[2] \in live /\ wished[p] # Unknown /\ (\A t \in Tasks : ~Reacting(t, p)) =>
      reactions[p] = wished[p]
=============================================================================
