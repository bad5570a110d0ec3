----------------------------- MODULE Restaurants -----------------------------
(* What is written of restaurants: reviews, reactions to them, reports of  *)
(* them, and the import of shops with its parser of lines.  They share no  *)
(* row, so that a behaviour is one of them.                                *)
EXTENDS Reviews

CONSTANTS
  ReviewIds,                                          \* of Feedback
  MaxNow,                                             \* of Reports
  Runs, Ids, Data, Editions, BatchSize, MaxStarts,    \* of SbizImport
  Letters, MaxField, MaxFields                        \* of CsvLine

VARIABLES
  part,    \* whose behaviour this is
  live, reactions, task, wished,
  open, sreq, reports, images, uploads, now, sent, failed,
  table, clock, run, closing,
  row, text, pos, quoted, field, fields

fvars == <<live, reactions, task, wished>>
svars == <<open, sreq, reports, images, uploads, now, sent, failed>>
ivars == <<table, clock, run, closing>>
cvars == <<row, text, pos, quoted, field, fields>>

F == INSTANCE Feedback WITH Tasks <- Requests
S == INSTANCE Reports WITH live <- open, req <- sreq
I == INSTANCE SbizImport
C == INSTANCE CsvLine WITH line <- text, i <- pos

ASSUME RestaurantsAssumption == S!ReportsAssumption /\ I!SbizImportAssumption /\ C!CsvLineAssumption

(* The parser alone starts from every row; the others start from none. *)
RestaurantsInit ==
  /\ Init /\ F!Init /\ S!Init /\ I!Init /\ C!Init
  /\ part = "csv" \/ (part \in {"reviews", "feedback", "reports", "import"} /\ text = << >>)

RestaurantsNext ==
  \/ part = "reviews" /\ Next /\ UNCHANGED <<part, fvars, svars, ivars, cvars>>
  \/ part = "feedback" /\ F!Next /\ UNCHANGED <<part, vars, svars, ivars, cvars>>
  \/ part = "reports" /\ S!Next /\ UNCHANGED <<part, vars, fvars, ivars, cvars>>
  \/ part = "import" /\ I!Next /\ UNCHANGED <<part, vars, fvars, svars, cvars>>
  \/ part = "csv" /\ C!Next /\ UNCHANGED <<part, vars, fvars, svars, ivars>>

RestaurantsSpec ==
  RestaurantsInit /\ [][RestaurantsNext]_<<part, vars, fvars, svars, ivars, cvars>>

-----------------------------------------------------------------------------
(* Properties                                                              *)

(* The state that the behaviour is about has its types. *)
TypesOK ==
  /\ part = "reviews" => TypeOK
  /\ part = "feedback" => F!TypeOK
  /\ part = "reports" => S!TypeOK
  /\ part = "import" => I!TypeOK
  /\ part = "csv" => C!TypeOK

(* The reaction a user put last counts, when its work was alone and done.  *)
LastPutCounts == F!LastPutCounts

(* The image under the key of a report is the one sent with it.            *)
ImagesAreTheReporters == S!ImagesAreTheReporters

(* An import that is done has every shop of its edition.                   *)
ImportIsComplete == I!ImportIsComplete

(* Only restaurants that the edition does not list are closed by it.       *)
OnlyMissingAreClosed == I!OnlyMissingAreClosed

(* The parser gives back the row that was written.                         *)
ParsesWhatWasWritten == C!ParsesWhatWasWritten
=============================================================================
