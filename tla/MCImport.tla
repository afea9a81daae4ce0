------------------------------ MODULE MCImport ------------------------------
(* Small instances of Import for TLC. *)
EXTENDS Import

CONSTANTS a, b, c

\* A table with rows that its column rejects, one without rows, and one with
\* bytes of a type that is listed and of one that is not.
Rows(values) == {[key |-> v, value |-> v] : v \in values}
MCSource == (a :> Rows({"text", "empty", "odd"})) @@ (b :> {}) @@ (c :> Rows({"bytes", "bits", "null"}))

\* Any foreign keys between different tables.
MCEdges == SUBSET {e \in {a, b, c} \X {a, b, c} : e[1] # e[2]}
=============================================================================
