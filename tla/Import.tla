------------------------------- MODULE Import -------------------------------
(***************************************************************************)
(* `deltix import`: tables of a MySQL database are read in one snapshot,   *)
(* ordered so that a foreign key finds its parent, loaded one by one into  *)
(* the working set and committed.  A step that fails ends the command and  *)
(* leaves the working set as it is; the user runs the import again.        *)
(*                                                                         *)
(* A row has a key and one value, the one that the conversion to csv and   *)
(* back may change.  The commit publishes the working set, so there is no  *)
(* variable for HEAD.                                                      *)
(***************************************************************************)
EXTENDS SequencesExt

CONSTANTS
  Table,          \* the tables of the source
  Key,            \* the keys of its rows
  Source,         \* the rows of each table
  Binary,         \* the tables with a column of a type that is listed as binary
  NotNull,        \* those whose values may not be NULL
  AutoIncrement,  \* those whose DDL declares the next key
  EdgeSets,       \* what the foreign keys may be, pairs of a child and a parent
  Uses,           \* "emptyOverRows": see Begins
  Faults          \* "toolFails"

\* What the value of a row may be: a text, NULL, '', bits (bytes of a type that
\* is not listed as binary), bytes of a type that is, or a value that Dolt's
\* column does not take.
Values == {"text", "null", "empty", "bits", "bytes", "odd"}

ASSUME ConstantsAssumption ==
  /\ IsFiniteSet(Table)
  /\ Source \in [Table -> SUBSET [key : Key, value : Values]]
  /\ Binary \subseteq Table /\ NotNull \subseteq Table /\ AutoIncrement \subseteq Table
  /\ \A t \in Table : \A r \in Source[t] : r.value = "bytes" => t \in Binary
  /\ EdgeSets \subseteq SUBSET (Table \X Table)
  /\ Uses \subseteq {"emptyOverRows"} /\ Faults \subseteq {"toolFails"}

VARIABLES
  edges,  \* the foreign keys of the source
  local,  \* the tables of the working set: their rows, and whether the next key
          \* is the declared one
  call    \* the import: its request, the tables to load, those still to do

vars == <<edges, local, call>>

NoTable   == [made |-> FALSE, rows |-> {}, counter |-> FALSE]
UserTable == [made |-> TRUE, rows |-> {[key |-> "mine", value |-> "text"]}, counter |-> TRUE]
Idle == [pc |-> "idle", schemaOnly |-> FALSE, noCommit |-> FALSE, continues |-> FALSE,
         loads |-> {}, todo |-> <<>>]

At(pc)   == call.pc = pc
Step(pc) == call' = [call EXCEPT !.pc = pc]
Ends     == call' = Idle
Fails(f) == f \in Faults
Has(t)   == local[t].made

Init ==
  /\ edges \in EdgeSets
  /\ local \in [Table -> {NoTable, UserTable}]
  /\ call = Idle

-----------------------------------------------------------------------------
\* The entries of s that are in S, in their order.
Those(s, S) ==
  LET F[i \in 0..Len(s)] == IF i = 0 THEN <<>>
                            ELSE IF s[i] \in S THEN Append(F[i - 1], s[i])
                            ELSE F[i - 1]
  IN  F[Len(s)]

\* The parents of t among these tables; a table may refer to itself.
Parents(t, tables) == {p \in tables \ {t} : <<t, p>> \in edges}

\* Mutant of Freed: a child is ready with its first parent.
Freed_FirstParent(n, done, tables) ==
  Those(tables, {c \in Range(tables) \ Range(done) : n \in Parents(c, Range(tables))})

\* The children of n that wait for nothing else (in the order of the request;
\* the code has the order of the source's foreign keys).
Freed(n, done, tables) ==
  Those(tables, {c \in Range(tables) \ Range(done) :
                   /\ n \in Parents(c, Range(tables))
                   /\ Parents(c, Range(tables)) \subseteq Range(done)})

\* One turn of the loop over the queue, which is over when that is empty.
Turn(s, tables) ==
  IF s.queue = <<>> THEN s
  ELSE LET n    == Head(s.queue)
           done == Append(s.done, n)
       IN  [done |-> done, queue |-> Tail(s.queue) \o Freed(n, done, tables)]

Seeds(tables) == Those(tables, {t \in Range(tables) : Parents(t, Range(tables)) = {}})

\* topoOrder: parents first; what a cycle holds back comes last, as requested.
\* A table is queued once, so there are no more turns than tables.
TopoOrder(tables) ==
  LET Loop[i \in 0..Len(tables)] == IF i = 0 THEN [done |-> <<>>, queue |-> Seeds(tables)]
                                    ELSE Turn(Loop[i - 1], tables)
      ordered == Loop[Len(tables)].done
  IN  ordered \o Those(tables, Range(tables) \ Range(ordered))

-----------------------------------------------------------------------------
\* The tables of a request, each given once: a --table that is repeated makes
\* topoOrder count a parent twice, and is left out.
Requests == UNION {SetToSeqs(tables) : tables \in (SUBSET Table) \ {{}}}

\* Under --blobs skip the tables with binary columns are left out.
Kept(tables, blobs) ==
  IF blobs = "skip" THEN Those(tables, Table \ Binary) ELSE tables

\* serializeTable: NULL is the empty field, and so are '' and the bytes of a type
\* that is not listed; listed ones become text.  Dolt reads an empty field as NULL.
CsvOf(value) == CASE value \in {"empty", "bits"} -> "null"
                  [] value = "bytes" -> "base64"
                  [] OTHER -> value
CsvRows(t) == {[r EXCEPT !.value = CsvOf(@)] : r \in Source[t]}

\* Those that `dolt table import` takes, and what FROM_BASE64 makes of them.
Rejects(t, value) == value = "odd" \/ (value = "null" /\ t \in NotNull)
Taken(t) == {r \in CsvRows(t) : ~Rejects(t, r.value)}
Decoded(rows) == {[r EXCEPT !.value = IF @ = "base64" THEN "bytes" ELSE @] : r \in rows}

\* ImportService.import up to the first write: under --blobs error a binary
\* column anywhere ends it.
Begins(tables) ==
  LET ordered == TopoOrder(tables)
  IN  /\ At("idle")
      /\ \E blobs \in {"error", "base64", "skip"}, schemaOnly, noCommit, continues \in BOOLEAN :
           LET todo == Kept(ordered, blobs)
           IN  /\ blobs = "error" => Range(tables) \cap Binary = {}
               /\ todo # <<>>
               /\ \/ "emptyOverRows" \in Uses \/ schemaOnly
                  \/ \A t \in Range(todo) : Source[t] = {} => local[t].rows = {}
               /\ call' = [pc |-> "create", schemaOnly |-> schemaOnly, noCommit |-> noCommit,
                           continues |-> continues, loads |-> Range(todo), todo |-> todo]
      /\ UNCHANGED <<edges, local>>

Current  == Head(call.todo)
HasCsv   == ~call.schemaOnly /\ Source[Current] # {}
HasBytes == HasCsv /\ \E r \in Source[Current] : r.value = "bytes"

\* bulkImportTables goes on with the next table, then import commits.
NextTable ==
  call' = IF Len(call.todo) > 1 THEN [call EXCEPT !.todo = Tail(@), !.pc = "create"]
          ELSE IF call.noCommit THEN Idle
          ELSE [call EXCEPT !.todo = <<>>, !.pc = "commit"]

\* Mutant of Creates: a table that exists is taken for imported.
Creates_SkipsExisting ==
  /\ At("create")
  /\ IF Has(Current) THEN UNCHANGED local /\ NextTable
     ELSE /\ \A p \in Parents(Current, Table) : Has(p)
          /\ local' = [local EXCEPT ![Current] = [made |-> TRUE, rows |-> {}, counter |-> TRUE]]
          /\ Step(IF HasCsv THEN "import" ELSE "counter")
  /\ UNCHANGED edges

\* CREATE TABLE; "already exists" is not an error, and changes nothing.  A
\* foreign key without its parent is one.
Creates ==
  /\ At("create")
  /\ IF Has(Current) THEN UNCHANGED local /\ Step(IF HasCsv THEN "import" ELSE "counter")
     ELSE IF \A p \in Parents(Current, Table) : Has(p)
     THEN /\ local' = [local EXCEPT ![Current] = [made |-> TRUE, rows |-> {}, counter |-> TRUE]]
          /\ Step(IF HasCsv THEN "import" ELSE "counter")
     ELSE UNCHANGED local /\ Ends
  /\ UNCHANGED edges

\* `dolt table import -r` replaces the rows, and forgets the next key.  A row
\* that Dolt rejects ends the import, or is skipped under --continue.
Imports ==
  /\ At("import")
  /\ IF call.continues \/ Taken(Current) = CsvRows(Current)
     THEN /\ local' = [local EXCEPT ![Current].rows = Taken(Current), ![Current].counter = FALSE]
          /\ Step("counter")
     ELSE UNCHANGED local /\ Ends
  /\ UNCHANGED edges

\* ALTER TABLE ... AUTO_INCREMENT, when the DDL declares it.
SetsCounter ==
  /\ At("counter")
  /\ local' = IF Current \in AutoIncrement THEN [local EXCEPT ![Current].counter = TRUE] ELSE local
  /\ IF HasBytes THEN Step("decode") ELSE NextTable
  /\ UNCHANGED edges

\* UPDATE ... FROM_BASE64.
Decodes ==
  /\ At("decode")
  /\ local' = [local EXCEPT ![Current].rows = Decoded(@)]
  /\ NextTable
  /\ UNCHANGED edges

\* `dolt add -A` and `dolt commit`, which may find that nothing changed.
Commits ==
  /\ At("commit")
  /\ Ends
  /\ UNCHANGED <<edges, local>>

\* An error of any other step, or the end of the program.
StepFails ==
  /\ ~At("idle") /\ Fails("toolFails")
  /\ Ends
  /\ UNCHANGED <<edges, local>>

\* Between two imports the user may load or drop a table.
UserWrites(t) ==
  /\ At("idle")
  /\ \E table \in {NoTable, UserTable} : local' = [local EXCEPT ![t] = table]
  /\ UNCHANGED <<edges, call>>

Next ==
  \/ \E tables \in Requests : Begins(tables)
  \/ Creates \/ Imports \/ SetsCounter \/ Decodes \/ Commits \/ StepFails
  \/ \E t \in Table : UserWrites(t)

Spec == Init /\ [][Next]_vars

-----------------------------------------------------------------------------
\* "A parent is imported before any child that references it": when the foreign
\* keys of the source have no cycle, a table meets all of its parents that the
\* import loads.  (A cycle through a table that --blobs skip leaves out still
\* decides the order of the others.)
Acyclic == \A group \in (SUBSET Table) \ {{}} : \E t \in group : Parents(t, group) = {}
ParentsComeFirst ==
  At("create") /\ Acyclic => \A p \in Parents(Current, call.loads) : Has(p)

\* What a row of the source is in the working set: '' and bytes of a type that is
\* not listed have become NULL, all else is as it was.
Adopted(r) == [r EXCEPT !.value = IF @ \in {"empty", "bits"} THEN "null" ELSE @]

\* Whatever failed imports and the user left behind, the tables that an import
\* commits have the source's next keys and its rows, with no base64 text and no
\* other row among them; none is missing but, under --continue, those rejected.
CommitsTheSource ==
  At("commit") /\ ~call.schemaOnly =>
    \A t \in call.loads :
      /\ local[t].rows \subseteq {Adopted(r) : r \in Source[t]}
      /\ \A r \in Source[t] :
           Adopted(r) \in local[t].rows \/ (call.continues /\ Rejects(t, Adopted(r).value))
      /\ t \in AutoIncrement => local[t].counter
=============================================================================
