------------------------- MODULE WorkingTree_proofs -------------------------
(***************************************************************************)
(* Theorems about WorkingTree, for every number of tables and versions.    *)
(***************************************************************************)
EXTENDS WorkingTree, TLAPS

\* What the theorems assume: schemas rest while a command runs; otherwise
\* ResetKeepsSchema fails.
Sound == "ddlMeanwhile" \notin Uses

Committing == {"add", "unstage", "commit"}
Rebuilding == {"create", "insert", "drop", "rename"}
Resetting  == {"rows"} \cup Rebuilding

\* Which command is at which step, and what it works on.
ShapeInv ==
  /\ call.alter \subseteq Table
  /\ At("idle") => call.cmd = "none"
  /\ call.pc \in Committing => call.cmd \in {"commit", "schemaOnly"}
  /\ call.pc \in Resetting => call.cmd = "resetData"
  /\ call.cmd = "commit" => call.todo = {} /\ (call.told => call.asked = {})
  /\ call.cmd = "schemaOnly" => call.asked = {}
  /\ At("commit") => call.todo = {}

\* A scratch table is in the working set only, and only during its rebuild,
\* unless a reset left it behind; the trees that have it then agree on its
\* schema, and so it is never taken for a table with a schema change.
Made(t)   == call.pc \in {"insert", "drop", "rename"} /\ call.table = t
Copies(t) == {head[Scratch(t)], staged[Scratch(t)]} \cup (IF Made(t) THEN {} ELSE {working[Scratch(t)]})
ScratchInv ==
  \A t \in Table :
    /\ t \notin left => /\ ~Has(head, Scratch(t)) /\ ~Has(staged, Scratch(t))
                        /\ Has(working, Scratch(t)) => Made(t)
    /\ \A x, y \in Copies(t) \ {NoTable} : x.schema = y.schema

\* Row changes without a schema change that a commit of this tree publishes,
\* and those the running commit may publish or is going to leave out.
RowChanges(tree) == {n \in Names : tree[n] # head[n] /\ tree[n].schema = head[n].schema}
Allowed == call.touched \cup IF call.cmd = "schemaOnly" THEN call.todo ELSE call.known

CommitInv ==
  /\ call.cmd = "schemaOnly" \/ (call.cmd = "commit" /\ call.told) =>
       /\ At("add") => RowChanges(working) \subseteq Allowed
       /\ call.pc \in {"unstage", "commit"} => RowChanges(staged) \subseteq Allowed
  /\ call.cmd = "commit" /\ call.asked # {} => Staged \subseteq call.asked \cup call.known

\* The table that is rebuilt or its copy has the schema, and what is done has
\* HEAD's rows or is as it was staged.
RebuildInv ==
  /\ \A n \in call.todo \ call.alter :
       head[n].schema = IF n = Scratch(call.table) /\ Made(call.table) THEN 0 ELSE working[n].schema
  /\ \A n \in call.todo \cap call.alter : Has(working, n) \/ (At("rename") /\ n = call.table)
  /\ At("rename") => ~Has(working, call.table)
  /\ call.pc \in {"insert", "drop", "rename"} => Has(working, Scratch(call.table))
  /\ call.pc \in {"insert", "drop"} => SameButKeys(working[call.table].schema, working[Scratch(call.table)].schema)
  /\ call.pc \in {"drop", "rename"} => working[Scratch(call.table)].rows = head[call.table].rows

Done(t) == working[t].rows = head[t].rows \/ (t \notin call.alter /\ working[t] = staged[t])
DoneInv == \A t \in Table \ (call.touched \cup call.todo) : Has(head, t) /\ Has(working, t) => Done(t)

ResetInv == call.pc \in Resetting => RebuildInv /\ DoneInv

IInv == TypeOK /\ ShapeInv /\ ScratchInv /\ CommitInv /\ ResetInv
-----------------------------------------------------------------------------
\* A scratch table is no table of the user's, and each table has its own.
LEMMA ScratchNames ==
  /\ Table \subseteq Names /\ Nothing \in Table
  /\ \A t \in Table : Scratch(t) \in Names /\ Scratch(t) \notin Table
  /\ \A t, u : Scratch(t) = Scratch(u) => t = u
BY ConstantsAssumption DEF Names, Scratch, Nothing

\* What a table is.
LEMMA Contents ==
  /\ NoTable \in Content
  /\ \A c \in Content : c # NoTable => c.schema \in 1..MaxSchema
  /\ \A c \in Content : c.schema \in 0..MaxSchema /\ c.rows \in 0..MaxRows
  /\ \A c \in Content : c # NoTable <=> c.schema # 0
  /\ \A c \in Content, s \in 1..MaxSchema : [c EXCEPT !.schema = s] \in Content
BY ConstantsAssumption DEF NoTable, Content

\* A table with other rows.
LEMMA WithRows ==
  ASSUME NEW c \in Content, c # NoTable, NEW r \in 0..MaxRows
  PROVE  /\ [c EXCEPT !.rows = r] \in Content /\ [c EXCEPT !.rows = r] # NoTable
         /\ [c EXCEPT !.rows = r].schema = c.schema /\ [c EXCEPT !.rows = r].rows = r
BY ConstantsAssumption DEF NoTable, Content

LEMMA InitInv == Init => IInv
<1> SUFFICES ASSUME Init PROVE IInv
  OBVIOUS
<1>1. TypeOK
  BY ScratchNames, Contents, ConstantsAssumption DEF Init, TypeOK, Trees, Content, Calls, Idle, At
<1> QED
  BY <1>1, ScratchNames DEF IInv, Init, Idle, ShapeInv, ScratchInv, CommitInv, ResetInv, At, Has,
     Committing, Resetting, Rebuilding, Copies, Made

-----------------------------------------------------------------------------
\* The application and the developer.

LEMMA WritesRowsInv ==
  ASSUME IInv, NEW t \in Table, WritesRows(t)
  PROVE  IInv'
<1> USE DEF IInv, WritesRows
<1>a. PICK r \in 0..MaxRows : working' = [working EXCEPT ![t] = [working[t] EXCEPT !.rows = r]]
  OBVIOUS
<1>b. working[t] \in Content /\ working[t] # NoTable /\ t \in Names /\ working \in Trees
  BY ScratchNames DEF TypeOK, Trees, Has
<1> DEFINE c == [working[t] EXCEPT !.rows = r]
<1>c. c \in Content /\ c # NoTable /\ c.schema = working[t].schema
  BY <1>b, WithRows
<1>d. working' = [working EXCEPT ![t] = c]
  BY <1>a
<1> HIDE DEF c
<1>e. working' \in Trees /\ working'[t] = c /\ \A m \in Names \ {t} : working'[m] = working[m]
  BY <1>b, <1>c, <1>d DEF Trees
<1>1. TypeOK'
  BY <1>e DEF TypeOK, Calls, Touch, At
<1>2. ShapeInv'
  BY DEF ShapeInv, Touch, At
<1>3. /\ \A n \in Names : working'[n].schema = working[n].schema /\ (Has(working, n)' <=> Has(working, n))
      /\ \A n \in Names \ {t} : working'[n] = working[n]
  BY <1>b, <1>c, <1>e DEF Has
<1>4. ScratchInv'
  <2>1. /\ \A u \in Table : Made(u)' <=> Made(u)
        /\ \A u \in Table : working'[Scratch(u)] = working[Scratch(u)]
    BY <1>3, ScratchNames DEF Made, Touch, At, TypeOK, Calls
  <2> QED
    BY <2>1 DEF ScratchInv, Copies, Has
<1>5. CommitInv'
  BY <1>3 DEF CommitInv, ShapeInv, RowChanges, Allowed, Staged, Touch, At, Committing
<1>6. ResetInv'
  <2> SUFFICES ASSUME call.pc \in Resetting PROVE (RebuildInv /\ DoneInv)'
    BY DEF ResetInv, Touch, At, Resetting, Rebuilding
  <2>1. /\ call'.pc = call.pc /\ call'.todo = call.todo /\ call'.alter = call.alter /\ call'.table = call.table
        /\ call'.touched = call.touched \cup {t} /\ UNCHANGED <<head, staged>>
    BY DEF Touch, TypeOK, Calls, At, Resetting, Rebuilding
  <2>2. \A u \in Table : Made(u)' <=> Made(u)
    BY <2>1 DEF Made
  <2>3. /\ call.todo \subseteq Names /\ RebuildInv /\ DoneInv
        /\ call.pc \in Rebuilding => /\ call.table \in Table \cap call.todo \cap call.alter
                                    /\ call.table \in Names /\ Scratch(call.table) \in Names \ {t}
    BY ScratchNames DEF TypeOK, Calls, ResetInv, ShapeInv, Rebuilding
  <2>4. ASSUME NEW n \in call.todo \ call.alter
        PROVE  head[n].schema = IF n = Scratch(call.table) /\ Made(call.table) THEN 0 ELSE working'[n].schema
    BY <1>3, <2>3 DEF RebuildInv
  <2>5. RebuildInv'
    BY <1>3, <2>1, <2>3, <2>4 DEF RebuildInv, Made, At, Has, Rebuilding
  <2>6. DoneInv'
    BY <1>3, <2>1, <2>3, ScratchNames DEF DoneInv, Done, Has
  <2> QED
    BY <2>5, <2>6
<1> QED
  BY <1>1, <1>2, <1>4, <1>5, <1>6

\* Between commands nothing is said of a commit or a reset.
LEMMA IdleInv ==
  ASSUME (ShapeInv /\ At("idle"))'
  PROVE  (CommitInv /\ ResetInv)'
BY DEF ShapeInv, CommitInv, ResetInv, At, Resetting, Rebuilding

LEMMA ChangesSchemaInv ==
  ASSUME IInv, Sound, NEW t \in Table, ChangesSchema(t)
  PROVE  IInv'
<1> USE DEF IInv, ChangesSchema, MayChangeSchema, Touch, Sound
<1>1. working' \in Trees /\ \A n \in Names \ {t} : working'[n] = working[n]
  <2>1. PICK s \in 0..MaxSchema :
          working' = [working EXCEPT ![t] = IF s = 0 THEN NoTable ELSE [@ EXCEPT !.schema = s]]
    OBVIOUS
  <2>2. t \in Names /\ working \in Trees
    BY ScratchNames DEF TypeOK
  <2>3. working[t] \in Content
    BY <2>2 DEF Trees
  <2> DEFINE c == IF s = 0 THEN NoTable ELSE [working[t] EXCEPT !.schema = s]
  <2>4. c \in Content
    BY <2>3, Contents, ConstantsAssumption
  <2>5. working' = [working EXCEPT ![t] = c]
    BY <2>1
  <2> HIDE DEF c
  <2> QED
    BY <2>2, <2>4, <2>5 DEF Trees
<1>2. TypeOK' /\ ShapeInv' /\ At("idle")'
  BY <1>1 DEF TypeOK, ShapeInv, At
<1>3. ScratchInv'
  BY <1>1, ScratchNames DEF ScratchInv, Copies, Made, Has, At
<1> QED
  BY <1>2, <1>3, IdleInv

LEMMA StagesInv ==
  ASSUME IInv, NEW t \in Table, Stages(t)
  PROVE  IInv'
<1> USE DEF IInv, Stages
<1>1. staged' \in Trees /\ \A n \in Names \ {t} : staged'[n] = staged[n]
  BY ScratchNames DEF TypeOK, Trees
<1>2. TypeOK' /\ ShapeInv' /\ At("idle")'
  BY <1>1 DEF TypeOK, ShapeInv, At
<1>3. ScratchInv'
  BY <1>1, ScratchNames DEF ScratchInv, Copies, Made, Has, At
<1> QED
  BY <1>2, <1>3, IdleInv

-----------------------------------------------------------------------------
\* Commits.

\* Between commands and at the start of a reset no scratch table counts as altered.
LEMMA ChangedTables ==
  ASSUME IInv, At("idle")
  PROVE  Changed \subseteq Names /\ AlterTables \subseteq Table
<1>1. ASSUME NEW t \in Table PROVE Scratch(t) \notin AlterTables
  BY DEF IInv, ScratchInv, Copies, Made, At, AlterTables, SchemaDiff, Has
<1> QED
  BY <1>1 DEF Changed, Staged, Unstaged, AlterTables, SchemaDiff, Names

LEMMA CommitBeginsInv ==
  ASSUME IInv, NEW tables \in SUBSET Table, CommitBegins(tables)
  PROVE  IInv'
<1> USE DEF IInv, CommitBegins
<1>1. call'.known \subseteq Names /\ call'.touched = {} /\ call'.todo = {}
  BY DEF Idle, Staged, DataOnly, Changed, Unstaged
<1>2. call' \in Calls /\ call'.pc = "add" /\ UNCHANGED <<head, staged, working>>
  <2>1. PICK analysed \in BOOLEAN :
          call' = [Idle EXCEPT !.pc = "add", !.cmd = "commit", !.asked = tables,
                               !.told = analysed /\ tables = {},
                               !.known = IF tables # {} THEN Staged ELSE IF analysed THEN DataOnly ELSE {}]
    OBVIOUS
  <2> DEFINE told  == analysed /\ tables = {}
             known == IF tables # {} THEN Staged ELSE IF analysed THEN DataOnly ELSE {}
  <2>2. call' = [Idle EXCEPT !.pc = "add", !.cmd = "commit", !.asked = tables, !.told = told, !.known = known]
    BY <2>1
  <2>3. told \in BOOLEAN
    OBVIOUS
  <2> HIDE DEF told, known
  <2>4. known \subseteq Names
    BY <1>1, <2>2 DEF Idle
  <2> QED
    BY <2>2, <2>3, <2>4, ScratchNames DEF Idle, Calls
<1>3. TypeOK'
  BY <1>2 DEF TypeOK, At
<1>4. ShapeInv'
  <2>1. /\ call'.pc = "add" /\ call'.cmd = "commit" /\ call'.todo = {} /\ call'.alter = {}
        /\ call'.told => call'.asked = {}
    BY <1>1 DEF Idle
  <2> HIDE DEF IInv, CommitBegins
  <2> QED
    BY <2>1 DEF ShapeInv, At, Committing, Resetting, Rebuilding
<1>5. ScratchInv'
  <2>1. At("idle") /\ UNCHANGED left /\ ScratchInv
    OBVIOUS
  <2> HIDE DEF IInv, CommitBegins
  <2>2. ~(call.pc \in {"insert", "drop", "rename"}) /\ ~(call'.pc \in {"insert", "drop", "rename"})
    BY <1>2, <2>1 DEF At
  <2>3. \A t : ~Made(t) /\ ~Made(t)'
    BY <2>2 DEF Made
  <2>4. \A t : Copies(t)' = {head[Scratch(t)], staged[Scratch(t)], working[Scratch(t)]}
             /\ Copies(t) = {head[Scratch(t)], staged[Scratch(t)], working[Scratch(t)]}
    BY <1>2, <2>3 DEF Copies
  <2>5. UNCHANGED <<head, staged, working, left>>
    BY <1>2, <2>1
  <2> QED
    BY <2>1, <2>3, <2>4, <2>5 DEF ScratchInv, Has
<1>6. CommitInv'
  <2>1. call'.told => call'.known = DataOnly
    BY DEF Idle
  <2>2. RowChanges(working)' \subseteq DataOnly
    BY DEF RowChanges, DataOnly, Changed, Staged, Unstaged, SchemaDiff
  <2>3. call'.asked # {} => Staged' \subseteq call'.known
    BY DEF Staged, Idle
  <2> QED
    BY <2>1, <2>2, <2>3 DEF CommitInv, Allowed, Idle, At
<1>7. ResetInv'
  BY DEF ResetInv, Idle, Resetting, Rebuilding
<1> QED
  BY <1>3, <1>4, <1>5, <1>6, <1>7

LEMMA SchemaCommitBeginsInv ==
  ASSUME IInv, SchemaCommitBegins
  PROVE  IInv'
<1> USE DEF IInv, SchemaCommitBegins
<1>1. DataOnly \subseteq Names
  BY ChangedTables DEF DataOnly
<1>2. call' \in Calls
  BY <1>1, ScratchNames DEF Idle, Calls
<1>3. TypeOK'
  BY <1>2 DEF TypeOK, Idle, At
<1>4. ShapeInv'
  BY <1>1 DEF ShapeInv, Idle, At, Committing, Resetting, Rebuilding
<1>5. ScratchInv'
  BY DEF ScratchInv, Copies, Made, Idle, At, Has
<1>6. CommitInv'
  <2>1. RowChanges(working)' \subseteq call'.todo
    BY DEF RowChanges, DataOnly, Changed, Staged, Unstaged, SchemaDiff, Idle
  <2> QED
    BY <2>1 DEF CommitInv, Allowed, Idle, At
<1>7. ResetInv'
  BY DEF ResetInv, Idle, Resetting, Rebuilding
<1> QED
  BY <1>3, <1>4, <1>5, <1>6, <1>7

LEMMA AddsInv ==
  ASSUME IInv, Adds
  PROVE  IInv'
<1> USE DEF IInv, Adds, Step
<1>1. call.pc = "add" /\ call.cmd \in {"commit", "schemaOnly"} /\ UNCHANGED <<head, working, left>>
  BY DEF ShapeInv, Committing, At
<1>2. call'.pc \in {"commit", "unstage"} /\ (call'.pc = "commit" <=> call.todo = {})
      /\ \A f \in DOMAIN call \ {"pc"} : call'[f] = call[f]
  BY DEF TypeOK, Calls
<1>3. /\ call'.cmd = call.cmd /\ call'.todo = call.todo /\ call'.alter = call.alter
      /\ call'.asked = call.asked /\ call'.known = call.known /\ call'.told = call.told
      /\ call'.touched = call.touched /\ call'.table = call.table
  BY DEF TypeOK, Calls
<1>4. staged' \in Trees
  BY DEF TypeOK, Trees
<1>5. \A n \in Names : staged'[n] = IF call.asked = {} \/ n \in call.asked THEN working[n] ELSE staged[n]
  BY DEF TypeOK, Trees
<1>6. TypeOK'
  BY <1>1, <1>2, <1>3, <1>4 DEF TypeOK, Calls, At
<1>7. ShapeInv'
  BY <1>1, <1>2, <1>3 DEF ShapeInv, At, Committing, Resetting, Rebuilding
<1>8. ScratchInv'
  <2>1. ASSUME NEW t \in Table
        PROVE  staged'[Scratch(t)] \in {staged[Scratch(t)], working[Scratch(t)]} /\ ~Made(t) /\ ~Made(t)'
    BY <1>1, <1>2, <1>5, ScratchNames DEF Made
  <2> QED
    BY <1>1, <2>1 DEF ScratchInv, Copies, Has
<1>9. CommitInv'
  <2>1. call.told \in BOOLEAN /\ call.asked \subseteq Table
    BY DEF TypeOK, Calls
  <2>2. ASSUME call.cmd = "schemaOnly" \/ (call.cmd = "commit" /\ call.told)
        PROVE  RowChanges(staged)' \subseteq Allowed'
    <3>1. RowChanges(working) \subseteq Allowed
      BY <1>1, <2>2 DEF CommitInv, At
    <3>2. call.asked = {}
      BY <2>2 DEF ShapeInv
    <3> QED
      BY <1>1, <1>3, <1>5, <3>1, <3>2 DEF RowChanges, Allowed
  <2>3. call.cmd = "commit" /\ call.asked # {} => Staged' \subseteq call.asked \cup call.known
    BY <1>1, <1>5 DEF CommitInv, Staged
  <2> QED
    BY <1>2, <1>3, <2>1, <2>2, <2>3 DEF CommitInv, At
<1>10. ResetInv'
  BY <1>2 DEF ResetInv, Resetting, Rebuilding
<1> QED
  BY <1>6, <1>7, <1>8, <1>9, <1>10

LEMMA UnstagesInv ==
  ASSUME IInv, Unstages
  PROVE  IInv'
<1>1. PICK n \in call.todo :
        /\ At("unstage")
        /\ staged' = [staged EXCEPT ![n] = head[n]]
        /\ call' = [call EXCEPT !.todo = @ \ {n}, !.pc = IF call.todo = {n} THEN "commit" ELSE "unstage"]
        /\ UNCHANGED <<head, working, left>>
  BY DEF Unstages
<1> USE DEF IInv
<1>2. n \in Names
  BY <1>1 DEF TypeOK, Calls
<1>3. /\ call'.cmd = call.cmd /\ call'.todo = call.todo \ {n} /\ call'.alter = call.alter
      /\ call'.asked = call.asked /\ call'.known = call.known /\ call'.told = call.told
      /\ call'.touched = call.touched /\ call'.table = call.table
      /\ call'.pc = IF call.todo = {n} THEN "commit" ELSE "unstage"
  BY <1>1 DEF TypeOK, Calls
<1>4. call.cmd = "schemaOnly"
  BY <1>1 DEF ShapeInv, At, Committing
<1>5. staged' \in Trees /\ staged'[n] = head[n] /\ \A m \in Names \ {n} : staged'[m] = staged[m]
  BY <1>1, <1>2 DEF TypeOK, Trees
<1>6. TypeOK'
  <2>1. call' \in Calls
    BY <1>1 DEF TypeOK, Calls
  <2>2. call'.pc = "unstage" => call'.todo # {}
    BY <1>1, <1>3 DEF TypeOK
  <2> QED
    BY <1>1, <1>3, <1>5, <2>1, <2>2 DEF TypeOK, At
<1>7. ShapeInv'
  BY <1>1, <1>3, <1>4 DEF ShapeInv, At, Committing, Resetting, Rebuilding
<1>8. ScratchInv'
  <2>1. ASSUME NEW t \in Table
        PROVE  staged'[Scratch(t)] \in {staged[Scratch(t)], head[Scratch(t)]} /\ ~Made(t) /\ ~Made(t)'
    BY <1>1, <1>2, <1>3, <1>5, ScratchNames DEF Made, At
  <2> QED
    BY <1>1, <2>1 DEF ScratchInv, Copies, Has
<1>9. CommitInv'
  BY <1>1, <1>2, <1>3, <1>4, <1>5 DEF CommitInv, RowChanges, Allowed, At
<1>10. ResetInv'
  BY <1>3 DEF ResetInv, Resetting, Rebuilding
<1> QED
  BY <1>6, <1>7, <1>8, <1>9, <1>10

LEMMA CommitsInv ==
  ASSUME IInv, Commits
  PROVE  IInv'
<1> USE DEF IInv, Commits, Ends
<1>1. TypeOK'
  BY ScratchNames DEF TypeOK, Calls, Idle, At
<1>2. ShapeInv' /\ At("idle")'
  BY DEF ShapeInv, Idle, At, Committing, Resetting, Rebuilding
<1>3. ScratchInv'
  BY DEF ScratchInv, Copies, Made, Has, At, Idle
<1> QED
  BY <1>1, <1>2, <1>3, IdleInv

LEMMA CommitFailsInv ==
  ASSUME IInv, CommitFails
  PROVE  IInv'
<1> USE DEF IInv, CommitFails, Ends
<1>1. TypeOK'
  BY ScratchNames DEF TypeOK, Calls, Idle, At
<1>2. ShapeInv' /\ At("idle")'
  BY DEF ShapeInv, Idle, At, Committing, Resetting, Rebuilding
<1>3. ScratchInv'
  BY DEF ScratchInv, Copies, Made, Has, At, Idle
<1> QED
  BY <1>1, <1>2, <1>3, IdleInv

-----------------------------------------------------------------------------
\* Resets.

LEMMA ResetDataBeginsInv ==
  ASSUME IInv, ResetDataBegins({})
  PROVE  IInv'
<1> USE DEF IInv, ResetDataBegins
<1>1. /\ Targets({}) = DataOnly \cup AlterTables
      /\ Targets({}) \subseteq Names /\ AlterTables \subseteq Table /\ AlterTables \subseteq Names
  BY ChangedTables, ScratchNames DEF Targets, DataOnly, Changed, Staged, Unstaged, AlterTables, SchemaDiff
<1>2. call' \in Calls
  BY <1>1, ScratchNames DEF Idle, Calls
<1>3. TypeOK'
  BY <1>2 DEF TypeOK, Idle, At
<1>4. ShapeInv'
  BY <1>1 DEF ShapeInv, Idle, At, Committing, Resetting, Rebuilding
<1>5. ScratchInv'
  BY DEF ScratchInv, Copies, Made, Idle, At, Has
<1>6. CommitInv'
  BY DEF CommitInv, Idle, At
<1>7. RebuildInv'
  BY <1>1 DEF RebuildInv, Made, Idle, At, DataOnly, AlterTables, SchemaDiff, Has
<1>8. DoneInv'
  <2> SUFFICES ASSUME NEW t \in Table, t \notin Targets({}), Has(head, t), Has(working, t)
               PROVE  working[t].rows = head[t].rows
    BY DEF DoneInv, Done, Idle, Has
  <2>1. t \in Names /\ head[t] \in Content /\ working[t] \in Content
    BY ScratchNames DEF TypeOK, Trees
  <2>2. head[t].schema = working[t].schema
    BY <1>1, <2>1 DEF AlterTables, SchemaDiff
  <2>3. head[t] = working[t]
    BY <1>1, <2>1, <2>2 DEF DataOnly, SchemaDiff, Changed, Staged, Unstaged
  <2> QED
    BY <2>3
<1> QED
  BY <1>3, <1>4, <1>5, <1>6, <1>7, <1>8 DEF ResetInv

\* What a step of a reset leaves alone of the call.
SameCall(todo) ==
  /\ call'.cmd = call.cmd /\ call'.alter = call.alter /\ call'.asked = call.asked
  /\ call'.known = call.known /\ call'.told = call.told /\ call'.touched = call.touched
  /\ call'.todo = todo

\* The next table, or the end of the command.
LEMMA AfterTableCall ==
  ASSUME call \in Calls, NEW n \in call.todo, AfterTable(n)
  PROVE  /\ call' \in Calls
         /\ \/ call' = Idle
            \/ call'.pc = "rows" /\ SameCall(call.todo \ {n}) /\ call'.todo # {} /\ call'.table = Nothing
<1>1. CASE call.todo = {n}
  <2>1. Idle \in Calls
    BY ScratchNames DEF Idle, Calls
  <2> QED
    BY <1>1, <2>1 DEF AfterTable
<1>2. CASE call.todo # {n}
  <2>1. call' = [call EXCEPT !.todo = @ \ {n}, !.pc = "rows", !.table = Nothing]
    BY <1>2 DEF AfterTable
  <2>2. call' \in Calls
    BY <2>1, ScratchNames DEF Calls
  <2>3. SameCall(call.todo \ {n}) /\ call'.pc = "rows" /\ call'.table = Nothing
    BY <2>1 DEF SameCall, Calls
  <2>4. call.todo \ {n} # {}
    BY <1>2
  <2> QED
    BY <2>2, <2>3, <2>4 DEF SameCall
<1> QED
  BY <1>1, <1>2

LEMMA EndsInv ==
  ASSUME head' \in Trees, staged' \in Trees, working' \in Trees, call' = Idle, left' \subseteq Table, ScratchInv'
  PROVE  IInv'
<1>1. TypeOK'
  BY ScratchNames DEF TypeOK, Calls, Idle, At
<1>2. ShapeInv' /\ At("idle")'
  BY DEF ShapeInv, Idle, At, Committing, Resetting, Rebuilding
<1> QED
  BY <1>1, <1>2, IdleInv DEF IInv

LEMMA ChecksOutInv ==
  ASSUME IInv, ChecksOut
  PROVE  IInv'
<1>1. PICK n \in call.todo \ call.alter :
        /\ At("rows")
        /\ working' = [working EXCEPT ![n] = CheckedOut(n)]
        /\ AfterTable(n)
        /\ UNCHANGED <<head, staged, left>>
  BY DEF ChecksOut
<1> USE DEF IInv
<1>2. n \in Names /\ RebuildInv /\ DoneInv /\ call.cmd = "resetData"
  BY <1>1 DEF TypeOK, Calls, ShapeInv, ResetInv, Resetting, At
<1>3. CheckedOut(n) \in {staged[n], head[n]} /\ CheckedOut(n) \in Content
  BY <1>2 DEF CheckedOut, TypeOK, Trees
<1>4. working' \in Trees /\ working'[n] = CheckedOut(n) /\ \A m \in Names \ {n} : working'[m] = working[m]
  BY <1>1, <1>2, <1>3 DEF TypeOK, Trees
<1>5. /\ call' \in Calls /\ call'.pc \in {"idle", "rows"}
      /\ call' = Idle \/ (call'.pc = "rows" /\ SameCall(call.todo \ {n}) /\ call'.todo # {})
  BY <1>1, AfterTableCall DEF TypeOK, Idle
<1>6. ScratchInv'
  <2>1. ASSUME NEW t \in Table PROVE ~Made(t) /\ ~Made(t)'
    BY <1>1, <1>5 DEF Made, At
  <2>2. ASSUME NEW t \in Table
        PROVE  working'[Scratch(t)] \in {head[Scratch(t)], staged[Scratch(t)], working[Scratch(t)]}
    BY <1>3, <1>4, ScratchNames
  <2> QED
    BY <1>1, <2>1, <2>2 DEF ScratchInv, Copies, Has
<1>7. CASE call' = Idle
  BY <1>1, <1>4, <1>6, <1>7, EndsInv DEF TypeOK
<1>8. CASE call' # Idle
  <2>1. call'.pc = "rows" /\ SameCall(call.todo \ {n}) /\ call'.todo # {}
    BY <1>5, <1>8
  <2>2. TypeOK'
    BY <1>1, <1>4, <1>5, <2>1 DEF TypeOK, At
  <2>3. ShapeInv'
    BY <1>1, <1>2, <2>1 DEF ShapeInv, SameCall, At, Committing, Resetting, Rebuilding
  <2>4. CommitInv'
    BY <1>1, <1>2, <2>1 DEF CommitInv, SameCall
  <2>5. RebuildInv'
    <3>1. \A m \in call.todo \ call.alter : head[m].schema = working[m].schema
      BY <1>1, <1>2 DEF RebuildInv, Made, At
    <3>2. call.todo \subseteq Names
      BY DEF TypeOK, Calls
    <3>3. ~Made(call.table)'
      BY <2>1 DEF Made
    <3>4. \A m \in call'.todo \ call'.alter : head'[m].schema = working'[m].schema
      BY <1>1, <1>4, <2>1, <3>1, <3>2 DEF SameCall
    <3>5. \A m \in call'.todo \cap call'.alter : Has(working', m)
      BY <1>1, <1>2, <1>4, <2>1, <3>2 DEF RebuildInv, SameCall, Has, At
    <3> QED
      BY <2>1, <3>4, <3>5 DEF RebuildInv, Made, At, Has
  <2>6. DoneInv'
    <3>1. ASSUME NEW t \in Table \ (call.touched \cup (call.todo \ {n})), Has(head, t), Has(working', t)
          PROVE  working'[t].rows = head[t].rows \/ (t \notin call.alter /\ working'[t] = staged[t])
      <4>1. t \in Names
        BY ScratchNames
      <4>2. CASE t = n
        BY <1>1, <1>3, <1>4, <4>2
      <4>3. CASE t # n
        BY <1>2, <1>4, <3>1, <4>1, <4>3 DEF DoneInv, Done, Has
      <4> QED
        BY <4>2, <4>3
    <3> QED
      BY <1>1, <2>1, <3>1 DEF DoneInv, Done, SameCall, Has
  <2> QED
    BY <1>6, <2>2, <2>3, <2>4, <2>5, <2>6 DEF ResetInv
<1> QED
  BY <1>7, <1>8

-----------------------------------------------------------------------------
\* A table that is rebuilt.

LEMMA RebuiltTable ==
  ASSUME IInv, call.pc \in Rebuilding
  PROVE  /\ call.table \in Table /\ call.table \in Names /\ Scratch(call.table) \in Names
         /\ call.table \in call.todo /\ call.table \in call.alter /\ call.cmd = "resetData"
         /\ RebuildInv /\ DoneInv
BY ScratchNames DEF IInv, TypeOK, ShapeInv, ResetInv, Rebuilding, Resetting

LEMMA StepCall ==
  ASSUME call \in Calls, NEW pc \in Rebuilding, Step(pc)
  PROVE  call' \in Calls /\ call'.pc = pc /\ SameCall(call.todo) /\ call'.table = call.table
BY DEF Step, SameCall, Calls, Rebuilding

\* A step of a rebuild that changes nothing but the working set, for the table
\* and its scratch copy.
LEMMA RebuildStepInv ==
  ASSUME IInv, call.pc \in Rebuilding, NEW pc \in Rebuilding, Step(pc), pc # "create",
         UNCHANGED <<head, staged, left>>, working' \in Trees,
         \A m \in Names \ {call.table, Scratch(call.table)} : working'[m] = working[m],
         RebuildInv'
  PROVE  IInv'
<1> USE DEF IInv
<1>1. call' \in Calls /\ call'.pc = pc /\ SameCall(call.todo) /\ call'.table = call.table
  BY StepCall DEF TypeOK
<1>2. TypeOK'
  BY <1>1, RebuiltTable DEF TypeOK, SameCall, At, Rebuilding
<1>3. ShapeInv'
  BY <1>1, RebuiltTable DEF ShapeInv, SameCall, At, Rebuilding, Resetting, Committing
<1>4. ScratchInv'
  <2>1. ASSUME NEW t \in Table, t # call.table
        PROVE  working'[Scratch(t)] = working[Scratch(t)] /\ ~Made(t) /\ ~Made(t)'
    <3>1. Scratch(t) \in Names \ {call.table, Scratch(call.table)}
      BY <2>1, ScratchNames, RebuiltTable
    <3> QED
      BY <1>1, <2>1, <3>1 DEF Made
  <2>2. ASSUME NEW t \in Table, t = call.table PROVE Made(t)'
    BY <1>1, <2>2 DEF Made, Rebuilding
  <2>3. ASSUME NEW t \in Table, t # call.table
        PROVE  /\ Copies(t)' = Copies(t) /\ (Made(t)' <=> Made(t))
               /\ Has(working', Scratch(t)) <=> Has(working, Scratch(t))
    BY <2>1, <2>3 DEF Copies, Has
  <2>4. ASSUME NEW t \in Table, t = call.table PROVE Copies(t)' \subseteq Copies(t)
    BY <2>2, <2>4 DEF Copies
  <2> QED
    BY <2>2, <2>3, <2>4 DEF ScratchInv, Has
<1>5. CommitInv'
  BY <1>1, RebuiltTable DEF CommitInv, SameCall
<1>6. DoneInv'
  <2>1. \A t \in Table \ call.todo : working'[t] = working[t]
    BY ScratchNames, RebuiltTable
  <2> QED
    BY <1>1, <2>1, RebuiltTable DEF DoneInv, Done, SameCall, Has
<1> QED
  BY <1>2, <1>3, <1>4, <1>5, <1>6 DEF ResetInv

LEMMA RebuildBeginsInv ==
  ASSUME IInv, RebuildBegins
  PROVE  IInv'
<1> USE DEF IInv
<1>1. PICK n \in call.todo \cap call.alter :
        At("rows") /\ call' = [call EXCEPT !.pc = "create", !.table = n] /\ UNCHANGED <<head, staged, working, left>>
  BY DEF RebuildBegins
<1>2. call' \in Calls /\ call'.pc = "create" /\ SameCall(call.todo) /\ call'.table = n
  BY <1>1 DEF TypeOK, Calls, SameCall
<1>3. RebuildInv /\ DoneInv /\ call.cmd = "resetData"
  BY <1>1 DEF ResetInv, ShapeInv, Resetting, At
<1>4. TypeOK'
  BY <1>1, <1>2 DEF TypeOK, SameCall, At
<1>5. ShapeInv'
  BY <1>1, <1>2, <1>3 DEF ShapeInv, SameCall, At, Rebuilding, Resetting, Committing
<1>6. \A t : ~Made(t) /\ ~Made(t)'
  BY <1>1, <1>2 DEF Made, At
<1>7. ScratchInv'
  BY <1>1, <1>6 DEF ScratchInv, Copies, Has
<1>8. CommitInv'
  BY <1>2, <1>3 DEF CommitInv, SameCall
<1>9. RebuildInv'
  BY <1>1, <1>2, <1>3, <1>6 DEF RebuildInv, SameCall, At, Has, Made
<1>10. DoneInv'
  BY <1>1, <1>2, <1>3 DEF DoneInv, Done, SameCall, Has
<1> QED
  BY <1>4, <1>5, <1>7, <1>8, <1>9, <1>10 DEF ResetInv

LEMMA CreatesScratchInv ==
  ASSUME IInv, CreatesScratch
  PROVE  IInv'
<1>1. call.pc = "create" /\ call.pc \in Rebuilding /\ "insert" \in Rebuilding
  BY DEF CreatesScratch, At, Rebuilding
<1> DEFINE s == Scratch(call.table)
           k == Keyless[working[call.table].schema]
           c == [schema |-> k, rows |-> 0]
<1>2. Has(working, call.table) /\ ~Has(working, s) /\ working \in Trees /\ s # call.table
  BY <1>1, RebuiltTable, ScratchNames DEF CreatesScratch, RebuildInv, At, IInv, TypeOK
<1>3. working[call.table].schema \in 1..MaxSchema
  BY <1>1, <1>2, RebuiltTable, Contents DEF Trees, Has
<1>4. k \in 1..MaxSchema /\ SameButKeys(working[call.table].schema, k)
  BY <1>3, ConstantsAssumption DEF SameButKeys
<1>5. working' = [working EXCEPT ![s] = c]
  BY DEF CreatesScratch
<1>6. s \in Names
  BY <1>1, RebuiltTable
<1> HIDE DEF k
<1>7. c \in Content /\ c # NoTable /\ c.schema = k
  BY <1>4, ConstantsAssumption DEF Content, NoTable
<1> HIDE DEF c, s
<1>8. working' \in Trees /\ working'[s] = c /\ \A m \in Names \ {s} : working'[m] = working[m]
  BY <1>2, <1>5, <1>6, <1>7 DEF Trees
<1>9. SameCall(call.todo) /\ call'.table = call.table /\ call'.pc = "insert" /\ UNCHANGED <<head, staged, left>>
  BY <1>1, StepCall DEF CreatesScratch, IInv, TypeOK
<1>10. RebuildInv'
  <2>1. \A n \in call.todo \ call.alter : head[n].schema = working[n].schema /\ n \in Names
    BY <1>1, RebuiltTable DEF RebuildInv, Made, IInv, TypeOK, Calls
  <2>2. working[s].schema = 0
    BY <1>2 DEF Has, NoTable
  <2>3. \A n \in call.todo \ call.alter : head[n].schema = IF n = s THEN 0 ELSE working'[n].schema
    BY <1>8, <2>1, <2>2
  <2>4. \A n \in call.todo \cap call.alter : n \in Names /\ n # s /\ Has(working, n)
    BY <1>1, RebuiltTable, ScratchNames DEF RebuildInv, At, IInv, ShapeInv, s
  <2>5. call.table \in Names \ {s}
    BY <1>1, <1>2, RebuiltTable
  <2>6. Made(call.table)'
    BY <1>9 DEF Made
  <2> QED
    BY <1>4, <1>7, <1>8, <1>9, <2>3, <2>4, <2>5, <2>6 DEF RebuildInv, SameCall, At, Has, s
<1> QED
  BY <1>1, <1>8, <1>9, <1>10, RebuildStepInv DEF CreatesScratch, s

LEMMA InsertsHeadRowsInv ==
  ASSUME IInv, InsertsHeadRows
  PROVE  IInv'
<1>1. call.pc = "insert" /\ call.pc \in Rebuilding /\ "drop" \in Rebuilding
  BY DEF InsertsHeadRows, At, Rebuilding
<1> DEFINE s == Scratch(call.table)
           c == [working[s] EXCEPT !.rows = head[call.table].rows]
<1>2. Has(working, s) /\ working \in Trees /\ head \in Trees /\ s # call.table
  BY <1>1, RebuiltTable, ScratchNames DEF RebuildInv, At, IInv, TypeOK
<1>3. s \in Names
  BY <1>1, RebuiltTable
<1>4. c \in Content /\ c # NoTable /\ c.schema = working[s].schema /\ c.rows = head[call.table].rows
  <2>1. working[s] \in Content /\ working[s] # NoTable /\ head[call.table].rows \in 0..MaxRows
    BY <1>1, <1>2, <1>3, RebuiltTable, Contents DEF Trees, Has
  <2> QED
    BY <2>1, WithRows
<1>5. working' = [working EXCEPT ![s] = c]
  BY DEF InsertsHeadRows
<1> HIDE DEF c, s
<1>6. working' \in Trees /\ working'[s] = c /\ \A m \in Names \ {s} : working'[m] = working[m]
  BY <1>2, <1>3, <1>4, <1>5 DEF Trees
<1>7. SameCall(call.todo) /\ call'.table = call.table /\ call'.pc = "drop" /\ UNCHANGED <<head, staged, left>>
  BY <1>1, StepCall DEF InsertsHeadRows, IInv, TypeOK
<1>8. RebuildInv'
  <2>1. \A n \in call.todo : n \in Names
    BY DEF IInv, TypeOK, Calls
  <2>2. \A n \in call.todo \ call.alter : head[n].schema = IF n = s THEN 0 ELSE working'[n].schema
    BY <1>1, <1>6, <2>1, RebuiltTable DEF RebuildInv, Made, s
  <2>3. \A n \in call.todo \cap call.alter : n # s /\ Has(working, n)
    BY <1>1, RebuiltTable, ScratchNames DEF RebuildInv, At, IInv, ShapeInv, s
  <2>4. call.table \in Names \ {s} /\ SameButKeys(working[call.table].schema, working[s].schema)
    BY <1>1, <1>2, RebuiltTable DEF RebuildInv, s
  <2>5. Made(call.table)'
    BY <1>7 DEF Made
  <2> QED
    BY <1>4, <1>6, <1>7, <2>1, <2>2, <2>3, <2>4, <2>5 DEF RebuildInv, SameCall, At, Has, s
<1> QED
  BY <1>1, <1>6, <1>7, <1>8, RebuildStepInv DEF InsertsHeadRows, s

LEMMA DropsTableInv ==
  ASSUME IInv, DropsTable
  PROVE  IInv'
<1>1. call.pc = "drop" /\ call.pc \in Rebuilding /\ "rename" \in Rebuilding
  BY DEF DropsTable, At, Rebuilding
<1> DEFINE s == Scratch(call.table)
<1>2. working \in Trees /\ s # call.table /\ s \in Names
  BY <1>1, RebuiltTable, ScratchNames DEF IInv, TypeOK
<1>3. working' \in Trees /\ working'[call.table] = NoTable
      /\ \A m \in Names \ {call.table} : working'[m] = working[m]
  BY <1>1, <1>2, RebuiltTable, Contents DEF DropsTable, Trees
<1>4. SameCall(call.todo) /\ call'.table = call.table /\ call'.pc = "rename" /\ UNCHANGED <<head, staged, left>>
  BY <1>1, StepCall DEF DropsTable, IInv, TypeOK
<1> HIDE DEF s
<1>5. RebuildInv'
  <2>1. \A n \in call.todo : n \in Names
    BY DEF IInv, TypeOK, Calls
  <2>2. \A n \in call.todo \ call.alter : head[n].schema = IF n = s THEN 0 ELSE working'[n].schema
    BY <1>1, <1>3, <2>1, RebuiltTable DEF RebuildInv, Made, s
  <2>3. \A n \in call.todo \cap call.alter : Has(working, n)
    BY <1>1, RebuiltTable DEF RebuildInv, At
  <2>4. Made(call.table)'
    BY <1>4 DEF Made
  <2>5. Has(working', s) /\ working'[s].rows = head[call.table].rows
    BY <1>1, <1>2, <1>3, RebuiltTable DEF RebuildInv, Has, s
  <2> QED
    BY <1>3, <1>4, <2>1, <2>2, <2>3, <2>4, <2>5 DEF RebuildInv, SameCall, At, Has, s
<1> QED
  BY <1>1, <1>3, <1>4, <1>5, RebuildStepInv DEF DropsTable, s

\* The scratch copies where the reset ends or goes on with the next table.
LEMMA ScratchEnds ==
  ASSUME IInv, call.pc \in Rebuilding, call'.pc \notin Rebuilding, UNCHANGED <<head, staged>>,
         \A m \in Names \ {call.table, Scratch(call.table)} : working'[m] = working[m],
         \/ working'[Scratch(call.table)] = NoTable /\ UNCHANGED left
         \/ UNCHANGED working /\ LeavesScratch
  PROVE  ScratchInv'
<1>1. \A t : ~Made(t)'
  BY DEF Made, Rebuilding
<1>2. ASSUME NEW t \in Table, t # call.table
      PROVE  /\ t \notin left' => ~Has(head', Scratch(t)) /\ ~Has(staged', Scratch(t)) /\ ~Has(working', Scratch(t))
             /\ \A x, y \in Copies(t)' \ {NoTable} : x.schema = y.schema
  <2>1. Scratch(t) \in Names \ {call.table, Scratch(call.table)} /\ ~Made(t)
    BY <1>2, ScratchNames, RebuiltTable DEF Made
  <2>2. t \notin left' => t \notin left
    BY DEF LeavesScratch
  <2>3. Copies(t)' = Copies(t) /\ working'[Scratch(t)] = working[Scratch(t)]
    BY <1>1, <2>1 DEF Copies
  <2> QED
    BY <2>1, <2>2, <2>3 DEF IInv, ScratchInv, Has
<1>3. ASSUME NEW t \in Table, t = call.table
      PROVE  /\ t \notin left' => ~Has(head', Scratch(t)) /\ ~Has(staged', Scratch(t)) /\ ~Has(working', Scratch(t))
             /\ \A x, y \in Copies(t)' \ {NoTable} : x.schema = y.schema
  <2>1. CASE working'[Scratch(call.table)] = NoTable /\ UNCHANGED left
    BY <1>3, <2>1 DEF IInv, ScratchInv, Copies, Has
  <2>2. CASE UNCHANGED working /\ LeavesScratch
    BY <1>3, <2>2 DEF IInv, ScratchInv, Copies, Has, LeavesScratch
  <2> QED
    BY <2>1, <2>2
<1> QED
  BY <1>2, <1>3 DEF ScratchInv

LEMMA RenamesScratchInv ==
  ASSUME IInv, RenamesScratch
  PROVE  IInv'
<1> USE DEF IInv
<1>1. call.pc = "rename" /\ call.pc \in Rebuilding /\ UNCHANGED <<head, staged, left>> /\ AfterTable(call.table)
  BY DEF RenamesScratch, At, Rebuilding
<1> DEFINE s == Scratch(call.table)
<1>2. working \in Trees /\ s # call.table /\ s \in Names /\ call.table \in Names /\ call.table \in Table
  BY <1>1, RebuiltTable, ScratchNames DEF TypeOK
<1>3. /\ working' \in Trees /\ working'[call.table] = working[s] /\ working'[s] = NoTable
      /\ \A m \in Names \ {call.table, s} : working'[m] = working[m]
  BY <1>2, Contents DEF RenamesScratch, Trees
<1>4. /\ call' \in Calls
      /\ call' = Idle \/ (call'.pc = "rows" /\ SameCall(call.todo \ {call.table}) /\ call'.todo # {})
  BY <1>1, AfterTableCall, RebuiltTable DEF TypeOK
<1>5. ScratchInv'
  <2>1. call'.pc \notin Rebuilding
    BY <1>4 DEF Idle, Rebuilding
  <2> QED
    BY <1>1, <1>3, <2>1, ScratchEnds
<1>6. CASE call' = Idle
  BY <1>1, <1>3, <1>5, <1>6, EndsInv DEF TypeOK
<1>7. CASE call' # Idle
  <2>1. call'.pc = "rows" /\ SameCall(call.todo \ {call.table}) /\ call'.todo # {}
    BY <1>4, <1>7
  <2>2. RebuildInv /\ DoneInv /\ call.cmd = "resetData" /\ call.table \in call.alter
    BY <1>1, RebuiltTable
  <2>3. \A n \in Table : n \in Names /\ n # s
    BY ScratchNames, <1>2
  <2>4. TypeOK'
    BY <1>1, <1>3, <1>4, <2>1 DEF TypeOK, At
  <2>5. ShapeInv'
    BY <2>1, <2>2 DEF ShapeInv, SameCall, At, Rebuilding, Resetting, Committing
  <2>6. CommitInv'
    BY <2>1, <2>2 DEF CommitInv, SameCall
  <2> HIDE DEF s
  <2>7. RebuildInv'
    <3>1. \A n \in call.todo \ call.alter :
            n \in Names \ {call.table} /\ head[n].schema = IF n = s THEN 0 ELSE working[n].schema
      BY <1>1, <1>2, <2>2 DEF RebuildInv, Made, TypeOK, Calls, s
    <3>2. \A n \in call.todo \ call.alter : head[n].schema = working'[n].schema
      BY <1>3, <3>1 DEF NoTable
    <3>3. \A n \in (call.todo \ {call.table}) \cap call.alter : n \in Names \ {call.table, s} /\ Has(working, n)
      BY <2>2, <2>3 DEF RebuildInv, ShapeInv
    <3> QED
      BY <1>1, <1>3, <2>1, <3>2, <3>3 DEF RebuildInv, Made, SameCall, At, Has
  <2>8. DoneInv'
    BY <1>1, <1>3, <2>1, <2>2, <2>3 DEF RebuildInv, DoneInv, Done, SameCall, Has, s
  <2> QED
    BY <1>5, <2>4, <2>5, <2>6, <2>7, <2>8 DEF ResetInv
<1> QED
  BY <1>6, <1>7

LEMMA RebuildFailsInv ==
  ASSUME IInv, RebuildFails \/ ResetStops
  PROVE  IInv'
<1> USE DEF IInv
<1>1. call' = Idle /\ UNCHANGED <<head, staged>> /\ (call.pc \in Rebuilding \/ At("rows"))
  BY DEF RebuildFails, ResetStops, StatementFails, Ends, Rebuilding, At
<1>2. CASE call.pc \in Rebuilding
  <2> DEFINE s == Scratch(call.table)
  <2>1. working \in Trees /\ s \in Names /\ call.table \in Table
    BY <1>2, RebuiltTable DEF TypeOK
  <2>2. \/ working' = [working EXCEPT ![s] = NoTable] /\ UNCHANGED left
        \/ UNCHANGED working /\ LeavesScratch
    BY <1>2 DEF RebuildFails, ResetStops, LeavesScratch, At, Rebuilding
  <2>3. /\ working' \in Trees /\ \A m \in Names \ {s} : working'[m] = working[m]
        /\ \/ working'[s] = NoTable /\ UNCHANGED left
           \/ UNCHANGED working /\ LeavesScratch
    BY <2>1, <2>2, Contents DEF Trees
  <2>4. left' \subseteq Table
    BY <2>1, <2>2 DEF LeavesScratch, TypeOK
  <2>5. call'.pc \notin Rebuilding
    BY <1>1 DEF Idle, Rebuilding
  <2> HIDE DEF s
  <2>6. ScratchInv'
    BY <1>1, <1>2, <2>3, <2>5, ScratchEnds DEF s
  <2> QED
    BY <1>1, <2>3, <2>4, <2>6, EndsInv DEF TypeOK
<1>3. CASE At("rows")
  <2>1. UNCHANGED <<working, left>>
    BY <1>3 DEF RebuildFails, ResetStops, StatementFails, At
  <2>2. \A t : ~Made(t) /\ ~Made(t)'
    BY <1>1, <1>3 DEF Made, At, Idle
  <2>3. ScratchInv'
    BY <1>1, <2>1, <2>2 DEF ScratchInv, Copies, Has
  <2> QED
    BY <1>1, <2>1, <2>3, EndsInv DEF TypeOK
<1> QED
  BY <1>1, <1>2, <1>3

-----------------------------------------------------------------------------
\* Resets and clean in one statement.

LEMMA StatementInv ==
  ASSUME IInv, MixedReset \/ HardReset \/ Clean
  PROVE  IInv'
<1> USE DEF IInv
<1>1. At("idle") /\ UNCHANGED <<head, call, left>>
  BY DEF MixedReset, HardReset, Clean
<1>2. ASSUME NEW n \in Names
      PROVE  /\ staged'[n] \in {staged[n], head[n]}
             /\ working'[n] \in {working[n], head[n], NoTable}
  BY <1>1, <1>2 DEF MixedReset, HardReset, Clean, Untracked, Has
<1>3. staged' \in Trees /\ working' \in Trees
  BY <1>1, Contents DEF MixedReset, HardReset, Clean, TypeOK, Trees
<1>4. TypeOK' /\ ShapeInv' /\ At("idle")'
  BY <1>1, <1>3 DEF TypeOK, ShapeInv, At
<1>5. ScratchInv'
  <2>1. \A t : ~Made(t) /\ ~Made(t)'
    BY <1>1 DEF Made, At
  <2>2. \A t \in Table : /\ staged'[Scratch(t)] \in {staged[Scratch(t)], head[Scratch(t)]}
                         /\ working'[Scratch(t)] \in {working[Scratch(t)], head[Scratch(t)], NoTable}
    BY <1>2, ScratchNames
  <2> QED
    BY <1>1, <2>1, <2>2 DEF ScratchInv, Copies, Has
<1> QED
  BY <1>4, <1>5, IdleInv

-----------------------------------------------------------------------------
LEMMA NextInv == IInv /\ Sound /\ [Next]_vars => IInv'
<1> SUFFICES ASSUME IInv, Sound, [Next]_vars PROVE IInv'
  OBVIOUS
<1>1. CASE World
  BY <1>1, WritesRowsInv, ChangesSchemaInv, StagesInv, ConstantsAssumption DEF World
<1>2. CASE Command
  <2>1. CASE \E tables \in SUBSET Table : CommitBegins(tables)
    BY <2>1, CommitBeginsInv
  <2>2. CASE SchemaCommitBegins \/ ResetDataBegins({})
    BY <2>2, SchemaCommitBeginsInv, ResetDataBeginsInv
  <2>3. CASE Adds \/ Unstages \/ Commits \/ CommitFails
    BY <2>3, AddsInv, UnstagesInv, CommitsInv, CommitFailsInv
  <2>4. CASE ChecksOut \/ RebuildBegins
    BY <2>4, ChecksOutInv, RebuildBeginsInv
  <2>5. CASE CreatesScratch \/ InsertsHeadRows \/ DropsTable \/ RenamesScratch \/ RebuildFails \/ ResetStops
    BY <2>5, CreatesScratchInv, InsertsHeadRowsInv, DropsTableInv, RenamesScratchInv, RebuildFailsInv
  <2>6. CASE MixedReset \/ HardReset \/ Clean
    BY <2>6, StatementInv
  <2> QED
    BY <1>2, <2>1, <2>2, <2>3, <2>4, <2>5, <2>6 DEF Command
<1>3. CASE UNCHANGED vars
  BY <1>3 DEF vars, IInv, TypeOK, ShapeInv, ScratchInv, CommitInv, ResetInv, RebuildInv, DoneInv, Done,
     Made, Copies, RowChanges, Allowed, Staged, At, Has
<1> QED
  BY <1>1, <1>2, <1>3 DEF Next

LEMMA Invariance == ASSUME Sound PROVE Spec => []IInv
<1>1. IInv /\ [Next]_vars => IInv'
  BY NextInv
<1> QED
  BY <1>1, InitInv, PTL DEF Spec

\* Every variable keeps its type, and a step of a command has the table and the
\* tables left that it needs.
THEOREM TypeSafe == ASSUME Sound PROVE Spec => []TypeOK
<1>1. IInv => TypeOK
  BY DEF IInv
<1> QED
  BY <1>1, Invariance, PTL

\* No commit and no finished or failed reset has a scratch table of `reset --data`,
\* unless the CLI died in its rebuild or the cleanup of it failed.
THEOREM NoScratch == ASSUME Sound PROVE Spec => []NoStrayScratch
<1>1. IInv => NoStrayScratch
  BY DEF IInv, ScratchInv, Made, NoStrayScratch, At
<1> QED
  BY <1>1, Invariance, PTL

\* HEAD moves in one action only.
LEMMA HeadMoves ==
  ASSUME [Next]_vars, head' # head
  PROVE  At("commit") /\ head' = staged
BY DEF Next, World, Command, vars, WritesRows, ChangesSchema, Stages, CommitBegins, SchemaCommitBegins,
   ResetDataBegins, Adds, Unstages, Commits, CommitFails, ChecksOut, RebuildBegins, CreatesScratch,
   InsertsHeadRows, DropsTable, RenamesScratch, RebuildFails, ResetStops, MixedReset, HardReset, Clean

\* A commit publishes only row changes that it told of, a schema-only commit none,
\* except those written while it runs (WorkingTree's analysis, then `dolt add -A`).
THEOREM RowChangesTold == ASSUME Sound PROVE Spec => RowChangesAreTold
<1>1. IInv /\ [Next]_vars =>
        [/\ call.cmd = "commit" /\ call.told => RowsOnly \subseteq call.known \cup call.touched
         /\ call.cmd = "schemaOnly" => RowsOnly \subseteq call.touched]_head
  <2> SUFFICES ASSUME IInv, [Next]_vars, head' # head
               PROVE  /\ call.cmd = "commit" /\ call.told => RowsOnly \subseteq call.known \cup call.touched
                      /\ call.cmd = "schemaOnly" => RowsOnly \subseteq call.touched
    OBVIOUS
  <2>1. call.pc = "commit" /\ RowsOnly = RowChanges(staged) /\ call.todo = {}
    BY HeadMoves DEF RowsOnly, RowChanges, At, IInv, ShapeInv
  <2>2. ASSUME call.cmd = "commit", call.told PROVE RowsOnly \subseteq call.known \cup call.touched
    <3>1. RowChanges(staged) \subseteq Allowed
      BY <2>1, <2>2 DEF IInv, CommitInv
    <3> QED
      BY <2>1, <2>2, <3>1 DEF Allowed
  <2>3. ASSUME call.cmd = "schemaOnly" PROVE RowsOnly \subseteq call.touched
    <3>1. RowChanges(staged) \subseteq Allowed
      BY <2>1, <2>3 DEF IInv, CommitInv
    <3> QED
      BY <2>1, <2>3, <3>1 DEF Allowed
  <2> QED
    BY <2>2, <2>3
<1> QED
  BY <1>1, Invariance, PTL DEF Spec, RowChangesAreTold

\* A commit of named tables publishes these and what had been staged before.
THEOREM CommitIsNarrow == ASSUME Sound PROVE Spec => NamedCommitIsNarrow
<1>1. IInv /\ [Next]_vars =>
        [call.cmd = "commit" /\ call.asked # {} =>
           {n \in Names : head'[n] # head[n]} \subseteq call.asked \cup call.known]_head
  BY HeadMoves DEF IInv, CommitInv, Staged
<1> QED
  BY <1>1, Invariance, PTL DEF Spec, NamedCommitIsNarrow

-----------------------------------------------------------------------------
\* The steps that can be taken while `reset --data` runs.
LEMMA ResetSteps ==
  ASSUME IInv, Sound, [Next]_vars, call.cmd = "resetData"
  PROVE  /\ call.pc \in Resetting /\ RebuildInv /\ DoneInv
         /\ \/ \E t \in Table : WritesRows(t)
            \/ ChecksOut \/ RebuildBegins \/ CreatesScratch \/ InsertsHeadRows
            \/ DropsTable \/ RenamesScratch \/ RebuildFails \/ ResetStops
            \/ UNCHANGED vars
<1>1. call.pc \in Resetting
  BY DEF IInv, TypeOK, ShapeInv, Calls, At, Committing, Resetting, Rebuilding
<1>2. RebuildInv /\ DoneInv
  BY <1>1 DEF IInv, ResetInv
<1>3. ~At("idle") /\ call.pc \notin Committing
  BY <1>1 DEF Resetting, Rebuilding, Committing, At
<1>4. World => \E t \in Table : WritesRows(t)
  BY <1>3 DEF World, ChangesSchema, MayChangeSchema, Stages, Sound
<1>5. Command => ChecksOut \/ RebuildBegins \/ CreatesScratch \/ InsertsHeadRows
                 \/ DropsTable \/ RenamesScratch \/ RebuildFails \/ ResetStops
  BY <1>3 DEF Command, CommitBegins, SchemaCommitBegins, ResetDataBegins, Adds, Unstages, Commits,
     CommitFails, MixedReset, HardReset, Clean, At, Committing
<1> QED
  BY <1>1, <1>2, <1>4, <1>5 DEF Next

\* What SchemasStay says of a table.
Keeps(t) ==
  \/ Held(t) = 0 \/ SameButKeys(Held(t), Held(t)')
  \/ ChecksOut /\ Has(staged, t) /\ working'[t] = staged[t]
  \/ RebuildFails /\ At("rename") /\ t = call.table

LEMMA SchemasStay ==
  ASSUME IInv, Sound, [Next]_vars, call.cmd = "resetData", NEW t \in Table
  PROVE  Keeps(t)
<1> USE DEF IInv
<1>0. /\ t \in Names /\ Scratch(t) \in Names /\ t # Scratch(t)
      /\ working \in Trees /\ head \in Trees /\ staged \in Trees
      /\ \A n \in Names : working[n] = NoTable <=> working[n].schema = 0
      /\ \A n \in Names : head[n] = NoTable <=> head[n].schema = 0
  BY ScratchNames, Contents DEF TypeOK, Trees
<1>1. ASSUME NEW u \in Table, WritesRows(u) PROVE Held(t)' = Held(t)
  <2>1. \A n \in Names : working'[n].schema = working[n].schema
    BY <1>0, <1>1, ScratchNames, Contents DEF WritesRows, Trees, Content, Has, NoTable
  <2>2. working' \in Trees
    BY <1>1, WritesRowsInv DEF TypeOK
  <2>3. working'[t] = NoTable <=> working'[t].schema = 0
    BY <1>0, <2>2, Contents DEF Trees
  <2> QED
    BY <1>0, <2>1, <2>3 DEF Held, Has
<1>2. ASSUME ChecksOut PROVE Keeps(t)
  <2>1. PICK n \in call.todo \ call.alter : At("rows") /\ working' = [working EXCEPT ![n] = CheckedOut(n)]
    BY <1>2 DEF ChecksOut
  <2>2. n \in Names /\ head[n].schema = working[n].schema /\ \A u : ~Made(u)
    BY <2>1, ResetSteps DEF RebuildInv, Made, At, TypeOK, Calls
  <2>3. working'[n] = CheckedOut(n) /\ \A m \in Names \ {n} : working'[m] = working[m]
    BY <1>0, <2>1, <2>2 DEF Trees
  <2>4. CASE t = n
    <3>1. CASE Has(staged, n)
      BY <1>2, <2>3, <2>4, <3>1 DEF Keeps, CheckedOut
    <3>2. CASE ~Has(staged, n) /\ Has(head, n)
      BY <1>0, <2>2, <2>3, <2>4, <3>2 DEF Keeps, CheckedOut, Held, Has, SameButKeys
    <3>3. CASE ~Has(staged, n) /\ ~Has(head, n)
      BY <1>0, <2>2, <2>3, <2>4, <3>3 DEF Keeps, CheckedOut, Held, Has, SameButKeys
    <3> QED
      BY <3>1, <3>2, <3>3
  <2>5. CASE t # n /\ n # Scratch(t)
    BY <1>0, <2>3, <2>5 DEF Keeps, Held, Has, SameButKeys
  <2>6. CASE n = Scratch(t)
    <3>1. working'[t] = working[t]
      BY <1>0, <2>3, <2>6
    <3>2. CASE Has(working, t) \/ ~Has(working, n)
      BY <1>0, <2>2, <2>6, <3>1, <3>2 DEF Keeps, Held, Has, SameButKeys
    <3>3. CASE ~Has(working, t) /\ Has(working, n)
      <4>1. Has(head, n)
        BY <1>0, <2>2, <3>3 DEF Has
      <4>2. working[n] \in Copies(t) \ {NoTable} /\ CheckedOut(n) \in Copies(t) \ {NoTable}
        BY <2>2, <2>6, <3>3, <4>1 DEF Copies, CheckedOut, Has
      <4>3. CheckedOut(n).schema = working[n].schema
        BY <4>2 DEF ScratchInv
      <4> QED
        BY <2>3, <2>6, <3>1, <3>3, <4>3 DEF Keeps, Held, Has, SameButKeys
    <3> QED
      BY <3>2, <3>3
  <2> QED
    BY <2>4, <2>5, <2>6
<1>3. ASSUME RebuildBegins \/ UNCHANGED vars PROVE Held(t)' = Held(t)
  BY <1>3 DEF RebuildBegins, vars, Held, Has
<1>4. ASSUME CreatesScratch PROVE Held(t)' = Held(t)
  <2>1. call.pc = "create" /\ call.pc \in Rebuilding
    BY <1>4 DEF CreatesScratch, At, Rebuilding
  <2>2. call.table \in Table /\ Has(working, call.table) /\ ~Has(working, Scratch(call.table))
    BY <1>4, <2>1, RebuiltTable DEF RebuildInv, At, CreatesScratch
  <2>3. \A m \in Names \ {Scratch(call.table)} : working'[m] = working[m]
    BY <1>0, <1>4 DEF CreatesScratch, Trees
  <2>4. t \in Names \ {Scratch(call.table)} /\ (t # call.table => Scratch(t) \in Names \ {Scratch(call.table)})
    BY <1>0, <2>2, ScratchNames
  <2> QED
    BY <2>2, <2>3, <2>4 DEF Held, Has
<1>5. ASSUME InsertsHeadRows PROVE Held(t)' = Held(t)
  <2>1. call.pc = "insert" /\ call.pc \in Rebuilding
    BY <1>5 DEF InsertsHeadRows, At, Rebuilding
  <2>2. call.table \in Table /\ Has(working, call.table)
    BY <2>1, RebuiltTable DEF RebuildInv, At
  <2>3. \A m \in Names \ {Scratch(call.table)} : working'[m] = working[m]
    BY <1>0, <1>5 DEF InsertsHeadRows, Trees
  <2>4. t \in Names \ {Scratch(call.table)} /\ (t # call.table => Scratch(t) \in Names \ {Scratch(call.table)})
    BY <1>0, <2>2, ScratchNames
  <2> QED
    BY <2>2, <2>3, <2>4 DEF Held, Has
<1>6. ASSUME DropsTable PROVE SameButKeys(Held(t), Held(t)')
  <2>1. call.pc = "drop" /\ call.pc \in Rebuilding
    BY <1>6 DEF DropsTable, At, Rebuilding
  <2>2. /\ call.table \in Table /\ Has(working, call.table)
        /\ SameButKeys(working[call.table].schema, working[Scratch(call.table)].schema)
    BY <2>1, RebuiltTable DEF RebuildInv, At
  <2>3. working'[call.table] = NoTable /\ \A m \in Names \ {call.table} : working'[m] = working[m]
    BY <1>0, <1>6, <2>2, ScratchNames DEF DropsTable, Trees
  <2>4. Scratch(t) \in Names \ {call.table}
    BY <1>0, <2>2, ScratchNames
  <2>5. CASE t = call.table
    BY <1>0, <2>2, <2>3, <2>4, <2>5 DEF Held, Has
  <2>6. CASE t # call.table
    BY <1>0, <2>3, <2>4, <2>6 DEF Held, Has, SameButKeys
  <2> QED
    BY <2>5, <2>6
<1>7. ASSUME RenamesScratch PROVE Held(t)' = Held(t)
  <2>1. call.pc = "rename" /\ call.pc \in Rebuilding
    BY <1>7 DEF RenamesScratch, At, Rebuilding
  <2>2. call.table \in Table /\ ~Has(working, call.table) /\ Has(working, Scratch(call.table))
    BY <2>1, RebuiltTable DEF RebuildInv, At
  <2>3. /\ working'[call.table] = working[Scratch(call.table)]
        /\ \A m \in Names \ {call.table, Scratch(call.table)} : working'[m] = working[m]
    BY <1>0, <1>7, <2>2, ScratchNames DEF RenamesScratch, Trees
  <2>4. t # call.table => {t, Scratch(t)} \subseteq Names \ {call.table, Scratch(call.table)}
    BY <1>0, <2>2, ScratchNames
  <2> QED
    BY <2>2, <2>3, <2>4 DEF Held, Has
<1>8. ASSUME RebuildFails PROVE Held(t)' = Held(t) \/ (At("rename") /\ t = call.table)
  <2>1. call.pc \in Rebuilding /\ (working' = [working EXCEPT ![Scratch(call.table)] = NoTable] \/ UNCHANGED working)
    BY <1>8 DEF RebuildFails, StatementFails, LeavesScratch, At, Rebuilding
  <2>2. call.table \in Table /\ (~At("rename") => Has(working, call.table))
    BY <2>1, RebuiltTable DEF RebuildInv
  <2>3. \A m \in Names \ {Scratch(call.table)} : working'[m] = working[m]
    BY <1>0, <2>1 DEF Trees
  <2>4. t \in Names \ {Scratch(call.table)} /\ (t # call.table => Scratch(t) \in Names \ {Scratch(call.table)})
    BY <1>0, <2>2, ScratchNames
  <2> QED
    BY <2>2, <2>3, <2>4 DEF Held, Has
<1>9. ASSUME ResetStops PROVE Held(t)' = Held(t)
  BY <1>9 DEF ResetStops, LeavesScratch, Held, Has
<1> QED
  BY <1>1, <1>2, <1>3, <1>4, <1>5, <1>6, <1>7, <1>8, <1>9, ResetSteps DEF Keeps, SameButKeys

\* `reset --data` keeps every pending schema change but foreign keys at each of
\* its steps, whatever fails, except for a table staged before and for one whose
\* RENAME fails.
THEOREM SchemasAreKept == ASSUME Sound PROVE Spec => ResetKeepsSchema
<1>1. IInv /\ [Next]_vars =>
        [call.cmd = "resetData" => \A t \in Table :
           \/ Held(t) = 0 \/ SameButKeys(Held(t), Held(t)')
           \/ ChecksOut /\ Has(staged, t) /\ working'[t] = staged[t]
           \/ RebuildFails /\ At("rename") /\ t = call.table]_<<working, call>>
  BY SchemasStay DEF Keeps
<1> QED
  BY <1>1, Invariance, PTL DEF Spec, ResetKeepsSchema

\* The end of `reset --data`: a table that was not written meanwhile has HEAD's
\* rows, or is as it was staged.
LEMMA LastTable ==
  ASSUME IInv, Sound, [Next]_vars, call.cmd = "resetData", ChecksOut \/ RenamesScratch, call' = Idle,
         NEW t \in Table \ call.touched, Has(head, t), Has(working', t)
  PROVE  working'[t].rows = head[t].rows \/ (t \notin call.alter /\ working'[t] = staged[t])
<1> USE DEF IInv
<1>1. t \in Names /\ working \in Trees /\ head \in Trees /\ DoneInv /\ call.todo \subseteq Names
  <2>1. DoneInv
    BY ResetSteps
  <2>2. working \in Trees /\ head \in Trees /\ call.todo \subseteq Names
    BY DEF TypeOK, Calls
  <2> QED
    BY <2>1, <2>2, ScratchNames
<1>2. ASSUME NEW n \in call.todo, AfterTable(n) PROVE call.todo = {n}
  <2>1. CASE call.todo # {n}
    <3>1. call' = [call EXCEPT !.todo = @ \ {n}, !.pc = "rows", !.table = Nothing]
      BY <1>2, <2>1 DEF AfterTable
    <3>2. call'.pc = "rows"
      BY <3>1 DEF TypeOK, Calls
    <3> QED
      BY <3>2 DEF Idle
  <2> QED
    BY <2>1
<1>3. CASE ChecksOut
  <2>1. PICK n \in call.todo \ call.alter : working' = [working EXCEPT ![n] = CheckedOut(n)] /\ AfterTable(n)
    BY <1>3 DEF ChecksOut
  <2>2. call.todo = {n} /\ n \in Names
    BY <1>1, <1>2, <2>1
  <2>3. working'[n] \in {staged[n], head[n]} /\ \A m \in Names \ {n} : working'[m] = working[m]
    BY <1>1, <2>1, <2>2 DEF Trees, CheckedOut
  <2> QED
    BY <1>1, <2>1, <2>2, <2>3 DEF DoneInv, Done, Has
<1>4. CASE RenamesScratch
  <2>1. call.pc = "rename" /\ call.pc \in Rebuilding /\ AfterTable(call.table)
    BY <1>4 DEF RenamesScratch, At, Rebuilding
  <2>2. call.table \in Table /\ call.todo = {call.table}
        /\ working[Scratch(call.table)].rows = head[call.table].rows
    BY <1>2, <2>1, RebuiltTable DEF RebuildInv
  <2>3. /\ working'[call.table] = working[Scratch(call.table)]
        /\ \A m \in Names \ {call.table, Scratch(call.table)} : working'[m] = working[m]
    BY <1>1, <1>4, <2>2, ScratchNames DEF RenamesScratch, Trees
  <2>4. t # Scratch(call.table)
    BY <2>2, ScratchNames
  <2> QED
    BY <1>1, <2>2, <2>3, <2>4 DEF DoneInv, Done, Has
<1> QED
  BY <1>3, <1>4

\* A `reset --data` that came to its end left no table with other rows than
\* HEAD's, except those staged before and those the application wrote meanwhile.
THEOREM ResetIsComplete == ASSUME Sound PROVE Spec => ResetReachesEveryTable
<1>1. IInv /\ [Next]_vars =>
        [call.cmd = "resetData" /\ (ChecksOut \/ RenamesScratch) /\ call' = Idle
         => \A t \in Table \ call.touched :
              Has(head, t) /\ Has(working', t) =>
                working'[t].rows = head[t].rows \/ (t \notin call.alter /\ working'[t] = staged[t])]_call
  BY LastTable
<1> QED
  BY <1>1, Invariance, PTL DEF Spec, ResetReachesEveryTable
=============================================================================
