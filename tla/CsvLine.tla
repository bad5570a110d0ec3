------------------------------- MODULE CsvLine -------------------------------
(***************************************************************************)
(* parseCsvLine (src/src/domain/restaurant/service/sbiz-import.service.ts) *)
(* as the loop it is, one character at a time, on the lines that a writer  *)
(* of CSV makes of a row: a field is written in quotes, with its quotes    *)
(* doubled, when it holds a quote or a comma, and otherwise as it is or in *)
(* quotes.                                                                 *)
(***************************************************************************)
EXTENDS Naturals, SequencesExt

CONSTANTS
  Letters,     \* characters that are neither a quote nor a comma
  MaxField,    \* bound: characters of a field
  MaxFields    \* bound: fields of a row

Quote == "quote"
Comma == "comma"
Chars == Letters \cup {Quote, Comma}

CsvLineAssumption ==
  /\ Letters \cap {Quote, Comma} = {} /\ MaxField \in Nat /\ MaxFields \in Nat \ {0}

Values == UNION {[1..n -> Chars] : n \in 0..MaxField}
Rows == UNION {[1..n -> Values] : n \in 1..MaxFields}

(* The writer. *)
Quoted(value) ==
  <<Quote>> \o FlattenSeq([i \in DOMAIN value |-> IF value[i] = Quote THEN <<Quote, Quote>> ELSE <<value[i]>>])
            \o <<Quote>>
Written(value) == {Quoted(value)} \cup (IF {Quote, Comma} \cap Range(value) = {} THEN {value} ELSE {})
Joined(parts) ==
  FlattenSeq([k \in DOMAIN parts |-> IF k = 1 THEN parts[k] ELSE <<Comma>> \o parts[k]])

VARIABLES
  row,         \* observation: what the line says
  line,        \* param of parseCsvLine
  i, quoted, field, fields

vars == <<row, line, i, quoted, field, fields>>

Init ==
  /\ row \in Rows
  /\ \E parts \in [DOMAIN row -> UNION {Written(row[k]) : k \in DOMAIN row}] :
       /\ \A k \in DOMAIN row : parts[k] \in Written(row[k])
       /\ line = Joined(parts)
  /\ i = 1 /\ quoted = FALSE /\ field = << >> /\ fields = << >>

Done == i > Len(line) + 1
TypeOK ==
  /\ row \in Rows /\ line \in Seq(Chars) /\ i \in 1..Len(line) + 2
  /\ quoted \in BOOLEAN /\ field \in Seq(Chars) /\ fields \in Seq(Seq(Chars))
  /\ quoted => i <= Len(line)

SeesQuote(k) == k <= Len(line) /\ line[k] = Quote

Keep(chars) == field' = field \o chars /\ UNCHANGED fields

Inside ==
  /\ quoted /\ i <= Len(line)
  /\ \/ SeesQuote(i) /\ SeesQuote(i + 1) /\ Keep(<<Quote>>) /\ i' = i + 2 /\ UNCHANGED quoted
     \/ SeesQuote(i) /\ ~SeesQuote(i + 1) /\ Keep(<< >>) /\ i' = i + 1 /\ quoted' = FALSE
     \/ ~SeesQuote(i) /\ Keep(<<line[i]>>) /\ i' = i + 1 /\ UNCHANGED quoted
  /\ UNCHANGED <<row, line>>

(* Faulty variant: a new field begins with the old one. *)
PushKeeping == fields' = Append(fields, field) /\ UNCHANGED field
Push == fields' = Append(fields, field) /\ field' = << >>

Outside ==
  /\ ~quoted /\ i <= Len(line)
  /\ \/ line[i] = Quote /\ quoted' = TRUE /\ Keep(<< >>)
     \/ line[i] = Comma /\ Push /\ UNCHANGED quoted
     \/ line[i] \notin {Quote, Comma} /\ Keep(<<line[i]>>) /\ UNCHANGED quoted
  /\ i' = i + 1
  /\ UNCHANGED <<row, line>>

(* The field after the last comma; i counts one on to end the loop. *)
Finish ==
  /\ i = Len(line) + 1
  /\ Push
  /\ i' = i + 1
  /\ UNCHANGED <<row, line, quoted>>

Next == Inside \/ Outside \/ Finish

Spec == Init /\ [][Next]_vars

-----------------------------------------------------------------------------
(* Properties                                                              *)

(* The parser gives back the row that was written, with its quotes, commas *)
(* and empty fields; and before that, the fields that it has closed.       *)
ParsesWhatWasWritten ==
  /\ Done => fields = row
  /\ fields = SubSeq(row, 1, Len(fields))
=============================================================================
