------------------------------ MODULE Reports ------------------------------
(***************************************************************************)
(* Reports of reviews                                                      *)
(* (src/src/domain/restaurant/service/restaurant.service.ts).  Nobody      *)
(* waits for the upload of a report's image, and the report is saved with  *)
(* the key that the image will have.  The name of the file, which is a     *)
(* part of the key, is the same for all.                                   *)
(***************************************************************************)
EXTENDS Naturals

CONSTANTS
  Requests,   \* reports that are sent, each once
  Users,
  MaxNow      \* bound: the last millisecond

ReportsAssumption == MaxNow \in Nat

VARIABLES
  live,      \* the reported review is not deleted
  req,       \* the step of each report, its user and the key of its image
  reports,   \* table review_reports: the report and the key of each row
  images,    \* the bucket: under each key, the report whose image it is
  uploads,   \* uploads on their way
  now,       \* Date.now()
  sent,      \* observation: who sent an image, and when
  failed     \* observation: reports whose upload failed

bucket == <<images, uploads, sent, failed>>
vars == <<live, req, reports, bucket, now>>

None == "none"
Keys == Users \X (0..MaxNow)
NoKey == <<None, 0>>
Idle == [pc |-> "idle", user |-> None, key |-> NoKey]
Steps == {"read", "discord", "save", "done"}

TypeOK ==
  /\ live \in BOOLEAN /\ now \in 0..MaxNow
  /\ \A r \in Requests :
       req[r] = Idle \/ req[r] \in [pc: Steps, user: Users, key: Keys \cup {NoKey}]
  /\ reports \subseteq [report: Requests, key: Keys \cup {NoKey}]
  /\ images \in [Keys -> Requests \cup {None}]
  /\ uploads \subseteq [key: Keys, image: Requests]
  /\ sent \subseteq [by: Users, at: 0..MaxNow, image: Requests]
  /\ failed \subseteq Requests

Init ==
  /\ live = TRUE /\ now = 0
  /\ req = [r \in Requests |-> Idle] /\ reports = {}
  /\ images = [k \in Keys |-> None] /\ uploads = {}
  /\ sent = {} /\ failed = {}

At(r, step) == req[r].pc = step
Goto(r, step) == req' = [req EXCEPT ![r].pc = step]

-----------------------------------------------------------------------------
(* reportRestaurantReview *)
Report(r, u) ==
  /\ req[r] = Idle
  /\ req' = [req EXCEPT ![r].pc = "read", ![r].user = u]
  /\ UNCHANGED <<live, reports, bucket, now>>

ReadReview(r) ==
  /\ At(r, "read")
  /\ Goto(r, IF live THEN "discord" ELSE "done")
  /\ UNCHANGED <<live, reports, bucket, now>>

(* Faulty variant: the key does not tell whose report it is. *)
KeyOfTime(u) == <<CHOOSE v \in Users : TRUE, now>>

(* review-reports/userId_timestamp_name *)
Key(u) == <<u, now>>

(* The message is sent or not, nobody asks.  Then the upload of the image, *)
(* if there is one, is begun and left alone.                               *)
SendDiscord(r) ==
  /\ At(r, "discord")
  /\ \/ Goto(r, "save") /\ UNCHANGED bucket
     \/ LET u == req[r].user IN
        /\ req' = [req EXCEPT ![r].pc = "save", ![r].key = Key(u)]
        /\ uploads' = uploads \cup {[key |-> Key(u), image |-> r]}
        /\ sent' = sent \cup {[by |-> u, at |-> now, image |-> r]}
        /\ UNCHANGED <<images, failed>>
  /\ UNCHANGED <<live, reports, now>>

(* saveReviewReport *)
SaveReport(r) ==
  /\ At(r, "save")
  /\ reports' = reports \cup {[report |-> r, key |-> req[r].key]}
  /\ Goto(r, "done")
  /\ UNCHANGED <<live, bucket, now>>

(* uploadFileToS3: an object that is there is replaced, in the order in    *)
(* which the uploads arrive; an error is thrown at nobody.                 *)
Upload(o) ==
  /\ o \in uploads
  /\ uploads' = uploads \ {o}
  /\ \/ images' = [images EXCEPT ![o.key] = o.image] /\ UNCHANGED failed
     \/ failed' = failed \cup {o.image} /\ UNCHANGED images
  /\ UNCHANGED <<live, req, reports, sent, now>>

-----------------------------------------------------------------------------
(* deleteRestaurnatReview *)
DeleteReview == live /\ live' = FALSE /\ UNCHANGED <<req, reports, bucket, now>>

(* An awaited call throws, or the process dies. *)
Abort(r) ==
  /\ req[r].pc \in Steps \ {"done"}
  /\ Goto(r, "done")
  /\ UNCHANGED <<live, reports, bucket, now>>

Tick == now < MaxNow /\ now' = now + 1 /\ UNCHANGED <<live, req, reports, bucket>>

Next ==
  \/ \E r \in Requests :
       \/ \E u \in Users : Report(r, u)
       \/ ReadReview(r) \/ SendDiscord(r) \/ SaveReport(r) \/ Abort(r)
  \/ \E o \in uploads : Upload(o)
  \/ DeleteReview \/ Tick

Spec == Init /\ [][Next]_vars

-----------------------------------------------------------------------------
(* Properties                                                              *)

(* The image that is found under the key of a report is the image that was *)
(* sent with it, unless its upload failed or is on its way, or the same    *)
(* user sent another in the same millisecond.                              *)
ImagesAreTheReporters ==
  \A v \in reports, s \in sent :
    s.image = v.report =>
      \/ images[v.key] = v.report \/ v.report \in failed
      \/ \E o \in uploads : o.image = v.report
      \/ \E q \in sent : q # s /\ q.by = s.by /\ q.at = s.at
=============================================================================
