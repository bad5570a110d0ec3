----------------------------- MODULE SbizImport -----------------------------
(***************************************************************************)
(* The import of the public register of shops (SBIZ), a script that an     *)
(* operator runs on the CSV files of an edition of the register            *)
(* (src/src/domain/restaurant/service/sbiz-import.service.ts).  It upserts *)
(* the restaurants in batches, a statement each, and can close those that  *)
(* the edition no longer lists; recommendations without a matching review  *)
(* draw an open one.  A run may die between two statements, and nothing    *)
(* keeps two runs apart.                                                   *)
(***************************************************************************)
EXTENDS Naturals, SequencesExt

CONSTANTS
  Runs,        \* slots for runs of the script
  Ids,         \* source ids of shops
  Data,        \* what a line says of a shop
  Editions,    \* editions of the register: sequences of files
  BatchSize,   \* BATCH_SIZE, 1000 in the code
  MaxStarts    \* bound: runs started

(* A file is a sequence of lines after its header: a line is empty, or     *)
(* lacks something that a restaurant needs, or lists a shop.  A directory  *)
(* without files is the edition of one empty file: nothing is written      *)
(* before the closing.                                                     *)
Blank == [kind |-> "blank"]
Unusable == [kind |-> "unusable"]
Shop(id, data) == [kind |-> "shop", id |-> id, data |-> data]
Lines == {Blank, Unusable} \cup {Shop(id, d) : id \in Ids, d \in Data}
IsShop(line) == line.kind = "shop"

SbizImportAssumption ==
  /\ \A e \in Editions : e \in Seq(Seq(Lines)) /\ e # << >>
  /\ BatchSize \in Nat \ {0} /\ MaxStarts \in Nat

VARIABLES
  table,     \* external_restaurant_informations with source SBIZ, by source_id
  clock,     \* runs started so far; a run's syncedAt is its number
  run,       \* per slot: where the run is and, as an observation, whether it
             \* has been alone
  closing    \* observation: the last run that closed, and what it listed, if
             \* it was alone

vars == <<table, clock, run, closing>>

Absent == [data |-> "none", synced |-> 0, closed |-> FALSE]
Idle == [pc |-> "idle", edition |-> << >>, closeMissing |-> FALSE, synced |-> 0,
         file |-> 0, line |-> 0, imported |-> 0, skipped |-> 0, alone |-> FALSE]
NoClosing == [synced |-> 0, listed |-> {}]

Total(p) == run[p].imported + run[p].skipped

TypeOK ==
  /\ table \in [Ids -> [data: Data \cup {"none"}, synced: 0..MaxStarts, closed: BOOLEAN]]
  /\ clock \in 0..MaxStarts
  /\ \A p \in Runs :
       run[p] = Idle \/
       /\ run[p].pc \in {"upsert", "close"}
       /\ run[p].edition \in Editions /\ run[p].synced \in 1..clock
       /\ run[p].file \in DOMAIN run[p].edition
       /\ run[p].line \in 0..Len(run[p].edition[run[p].file])
       /\ {run[p].imported, run[p].skipped} \subseteq Nat /\ run[p].alone \in BOOLEAN
  /\ closing.synced \in 0..clock /\ closing.listed \subseteq Ids

Init ==
  /\ table = [id \in Ids |-> Absent]
  /\ clock = 0
  /\ run = [p \in Runs |-> Idle]
  /\ closing = NoClosing

-----------------------------------------------------------------------------
(* importSbizRestaurants *)
Start(p, e, closeMissing) ==
  /\ run[p] = Idle /\ clock < MaxStarts
  /\ clock' = clock + 1
  /\ run' = [q \in Runs |->
       IF q = p THEN [Idle EXCEPT !.pc = "upsert", !.edition = e, !.file = 1, !.synced = clock',
                                  !.closeMissing = closeMissing, !.alone = \A o \in Runs : run[o] = Idle]
       ELSE [run[q] EXCEPT !.alone = FALSE]]
  /\ UNCHANGED <<table, closing>>

(* The shops among the lines of a file that are read. *)
Shops(file, read) == {n \in read : IsShop(file[n])}

(* Faulty variant: what does not fill a batch is never written. *)
BatchIfFull(file, read) == IF Cardinality(Shops(file, read)) = BatchSize THEN Shops(file, read) ELSE {}
Batch(file, read) == Shops(file, read)

(* How far the file is read for the next batch: until it is full, or to    *)
(* the end of the file.                                                    *)
Cut(file, from) ==
  LET full == {n \in from..Len(file) : Cardinality(Shops(file, from + 1..n)) = BatchSize} IN
    IF full = {} THEN Len(file) ELSE Min(full)

(* importSbizFile up to its next statement, upsertSbizRestaurants: of the  *)
(* lines of a batch about one shop the last one counts.                    *)
Upsert(p) ==
  LET file == run[p].edition[run[p].file]
      to == Cut(file, run[p].line)
      read == run[p].line + 1..to
      batch == Batch(file, read)
      about(id) == {n \in batch : file[n].id = id}
      ended == to = Len(file)
  IN
    /\ run[p].pc = "upsert"
    /\ table' = [id \in Ids |->
         IF about(id) # {}
         THEN [data |-> file[Max(about(id))].data, synced |-> run[p].synced, closed |-> FALSE] ELSE table[id]]
    /\ run' = [run EXCEPT
         ![p].imported = @ + Cardinality(batch),
         ![p].skipped = @ + Cardinality({n \in read : file[n] = Unusable}),
         ![p].pc = IF ended /\ run[p].file = Len(run[p].edition) THEN "close" ELSE "upsert",
         ![p].file = IF ended /\ run[p].file < Len(run[p].edition) THEN @ + 1 ELSE @,
         ![p].line = IF ended THEN 0 ELSE to]
    /\ UNCHANGED <<clock, closing>>

(* The lines of an edition, by file and number. *)
Positions(e) == UNION {{f} \X DOMAIN e[f] : f \in DOMAIN e}
LineAt(e, x) == e[x[1]][x[2]]
Follows(y, x) == y[1] > x[1] \/ (y[1] = x[1] /\ y[2] > x[2])
About(id, e) == {x \in Positions(e) : IsShop(LineAt(e, x)) /\ LineAt(e, x).id = id}
Listed(e) == {id \in Ids : About(id, e) # {}}

Closing(p) ==
  IF run[p].alone THEN [synced |-> run[p].synced, listed |-> Listed(run[p].edition)] ELSE NoClosing

(* Faulty variant: rows of the run itself are taken for older ones. *)
CloseAll(p) ==
  /\ run[p].pc = "close"
  /\ IF run[p].closeMissing
     THEN /\ table' = [id \in Ids |-> IF table[id].synced <= run[p].synced /\ table[id] # Absent
                                      THEN [table[id] EXCEPT !.closed = TRUE] ELSE table[id]]
          /\ closing' = Closing(p)
     ELSE UNCHANGED <<table, closing>>
  /\ run' = [run EXCEPT ![p] = Idle]
  /\ UNCHANGED clock

(* closeUnsyncedSbizRestaurants *)
Close(p) ==
  /\ run[p].pc = "close"
  /\ IF run[p].closeMissing
     THEN /\ table' = [id \in Ids |-> IF table[id].synced < run[p].synced /\ table[id] # Absent
                                      THEN [table[id] EXCEPT !.closed = TRUE] ELSE table[id]]
          /\ closing' = Closing(p)
     ELSE UNCHANGED <<table, closing>>
  /\ run' = [run EXCEPT ![p] = Idle]
  /\ UNCHANGED clock

(* A statement fails, or the script is stopped. *)
Abort(p) ==
  /\ run[p] # Idle
  /\ run' = [run EXCEPT ![p] = Idle]
  /\ UNCHANGED <<table, clock, closing>>

Next ==
  \E p \in Runs :
    \/ \E e \in Editions, closeMissing \in BOOLEAN : Start(p, e, closeMissing)
    \/ Upsert(p) \/ Close(p) \/ Abort(p)

Spec == Init /\ [][Next]_vars

-----------------------------------------------------------------------------
(* Properties                                                              *)

(* When a run that was alone has read its files, every shop of its edition *)
(* has what the last line about it says, through all cuts into batches and *)
(* files, and every line but the empty ones was counted, once.             *)
ImportIsComplete ==
  \A p \in Runs : run[p].pc = "close" =>
    LET e == run[p].edition IN
      /\ run[p].alone =>
           \A id \in Ids : \A x \in About(id, e) :
             (\A y \in About(id, e) : ~Follows(y, x)) => table[id].data = LineAt(e, x).data /\ ~table[id].closed
      /\ Total(p) = Cardinality({x \in Positions(e) : LineAt(e, x) # Blank})

(* --close-missing closes what is missing and nothing else: after a run    *)
(* that closed, alone, and whatever runs died before or began since, the   *)
(* shops its edition listed are open, and those that no later run has seen *)
(* and it did not list are closed.                                         *)
OnlyMissingAreClosed ==
  closing.synced > 0 =>
    \A id \in Ids :
      /\ id \in closing.listed => ~table[id].closed
      /\ id \notin closing.listed /\ table[id] # Absent /\ table[id].synced <= closing.synced => table[id].closed
=============================================================================
