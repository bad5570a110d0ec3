------------------------------- MODULE Redact -------------------------------
(***************************************************************************)
(* What the log and the answers show of a body                             *)
(* (src/src/common/logging/redact.ts): redactSensitive replaces what is    *)
(* under a sensitive key, and what is nested too deep.  The values it is   *)
(* called with grow here, a level at a time, around a leaf.                *)
(***************************************************************************)
EXTENDS Naturals, Sequences, FiniteSets

CONSTANTS
  Indices,     \* of the items of arrays
  Labels,      \* of the entries of objects
  Sensitive,   \* the labels that match SENSITIVE_KEY
  MaxDepth,    \* MAX_DEPTH
  MaxLevels    \* bound: levels of the values that are tried

Keys == Indices \cup Labels

RedactAssumption ==
  /\ Sensitive \subseteq Labels /\ Sensitive \cap Indices = {}
  /\ MaxDepth \in Nat /\ MaxLevels \in Nat

VARIABLES
  value,    \* what redactSensitive is called with
  nested    \* value, and all that it holds

vars == <<value, nested>>

(* A primitive and a date are leaves; an array and an object hold values.  *)
Leaf == [kind |-> "leaf", fields |-> << >>]
Redacted == [kind |-> "redacted", fields |-> << >>]
Array(items) == [kind |-> "array", fields |-> items]
Object(entries) == [kind |-> "object", fields |-> entries]

(* Faulty variant: an array is taken for a primitive. *)
IsPrimitiveOrArray(v) == v.kind \in {"leaf", "array"}
IsPrimitive(v) == v.kind = "leaf"

(* The answers of redactSensitive(v, depth), each from those one deeper. *)
Redaction[depth \in Nat] ==
  [v \in nested |->
     CASE IsPrimitive(v) -> v
       [] ~IsPrimitive(v) /\ depth >= MaxDepth -> Redacted
       [] ~IsPrimitive(v) /\ depth < MaxDepth /\ v.kind = "array" ->
            Array([i \in DOMAIN v.fields |-> Redaction[depth + 1][v.fields[i]]])
       [] OTHER ->
            Object([key \in DOMAIN v.fields |->
                      IF key \in Sensitive THEN Redacted ELSE Redaction[depth + 1][v.fields[key]]])]

redactSensitive(v, depth) == Redaction[depth][v]

-----------------------------------------------------------------------------
Init == value = Leaf /\ nested = {Leaf}

Hold(v) == value' = v /\ nested' = nested \cup {v}

Grow ==
  /\ Cardinality(nested) <= MaxLevels
  /\ \/ \E I \in SUBSET Indices : \E items \in [I -> nested] : Hold(Array(items))
     \/ \E N \in SUBSET Labels : \E entries \in [N -> nested] : Hold(Object(entries))

Another == value # Leaf /\ value' = Leaf /\ nested' = {Leaf}

Next == Grow \/ Another

Spec == Init /\ [][Next]_vars

(* Whatever a value holds is among what is nested. *)
TypeOK ==
  /\ value \in nested
  /\ \A v \in nested :
       \/ v = Leaf
       \/ \E I \in SUBSET Indices : \E items \in [I -> nested] : v = Array(items)
       \/ \E N \in SUBSET Labels : \E entries \in [N -> nested] : v = Object(entries)

-----------------------------------------------------------------------------
(* Properties                                                              *)

Missing == [kind |-> "missing", fields |-> << >>]
Child(v, key) == IF key \in DOMAIN v.fields THEN v.fields[key] ELSE Missing

(* What lies along a path of keys, and at its end. *)
Walk(v, path) ==
  LET at[i \in 0..Len(path)] == IF i = 0 THEN v ELSE Child(at[i - 1], path[i])
  IN  at
End(v, path) == Walk(v, path)[Len(path)]

Paths == UNION {[1..n -> Keys] : n \in 0..MaxLevels}

(* What is shown of a value is exactly what no sensitive key is above and  *)
(* what is not nested too deep (redact.spec.ts: 'should redact sensitive   *)
(* keys at any depth').                                                    *)
SecretsAreHidden ==
  \A path \in Paths :
    End(redactSensitive(value, 0), path) = Leaf
      <=> /\ End(value, path) = Leaf
          /\ Len(path) <= MaxDepth /\ \A i \in DOMAIN path : path[i] \notin Sensitive
=============================================================================
