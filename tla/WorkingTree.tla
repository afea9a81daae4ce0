----------------------------- MODULE WorkingTree -----------------------------
(***************************************************************************)
(* `deltix commit`, `reset` and `clean` on one branch: the three trees of  *)
(* the Dolt repository (HEAD, the staged set and the working set), the     *)
(* commands step by step, and the application, which writes rows through   *)
(* dolt sql-server while a command runs.                                   *)
(*                                                                         *)
(* A table is a version of its schema and one of its rows; versions stand  *)
(* for whatever was written, and may come back.  Two schemas may differ in *)
(* their foreign keys only.                                                *)
(***************************************************************************)
EXTENDS Naturals

CONSTANTS
  Table,      \* the user's tables
  Altered,    \* bound: those whose schema developers change
  MaxSchema,  \* bound: versions of a schema, from 1
  Keyless,    \* for each version of a schema, the one without its foreign keys
  MaxRows,    \* bound: versions of the rows, 0 being no rows
  Uses,       \* "ddlMeanwhile": the schema may change while a command runs
  Faults      \* "unmappable": HEAD's rows do not fit a new schema; "toolFails": a
              \* dolt command or statement fails or runs into its time limit;
              \* "dies": so does the CLI itself, in the middle of a reset

ASSUME ConstantsAssumption ==
  /\ Table # {} /\ \A t \in Table : <<t, "deltix_reset">> \notin Table  \* see Scratch
  /\ Altered \subseteq Table
  /\ MaxSchema \in Nat \ {0} /\ MaxRows \in Nat
  /\ Keyless \in [1..MaxSchema -> 1..MaxSchema] /\ \A s \in 1..MaxSchema : Keyless[Keyless[s]] = Keyless[s]
  /\ Uses \subseteq {"ddlMeanwhile"}
  /\ Faults \subseteq {"unmappable", "toolFails", "dies"}

VARIABLES
  head,     \* the tables of the last commit
  staged,   \* the tables the next commit has
  working,  \* the tables the application sees
  call,     \* the command that runs; known: the tables with row changes it told of
            \* or leaves out or, when it was given tables, those staged before;
            \* touched: those written since it began
  left      \* history: the tables whose scratch copy a reset left behind

vars == <<head, staged, working, call, left>>

\* <table>__deltix_reset
Scratch(t) == <<t, "deltix_reset">>
Names   == Table \cup {Scratch(t) : t \in Table}
NoTable == [schema |-> 0, rows |-> 0]
Content == {NoTable} \cup [schema : 1..MaxSchema, rows : 0..MaxRows]
Trees   == [Names -> Content]
Calls   == [pc : {"idle", "add", "unstage", "commit", "rows", "create", "insert", "drop", "rename"},
            cmd : {"none", "commit", "schemaOnly", "resetData"},
            asked : SUBSET Table, known : SUBSET Names, alter : SUBSET Names,
            todo : SUBSET Names, told : BOOLEAN, touched : SUBSET Table, table : Names]
Nothing == CHOOSE t \in Table : TRUE
Idle == [pc |-> "idle", cmd |-> "none", asked |-> {}, known |-> {}, alter |-> {},
         todo |-> {}, told |-> FALSE, touched |-> {}, table |-> Nothing]

-----------------------------------------------------------------------------
At(pc)   == call.pc = pc
Step(pc) == call' = [call EXCEPT !.pc = pc]
Ends     == call' = Idle
Fails(f) == f \in Faults
Has(tree, n) == tree[n] # NoTable

\* The queries of analyzeWorkingSet: dolt_status, and dolt_schema_diff from
\* HEAD to the working set.
Staged == {n \in Names : staged[n] # head[n]}
Unstaged == {n \in Names : working[n] # staged[n]}
Changed == Staged \cup Unstaged
SchemaDiff == {n \in Names : head[n].schema # working[n].schema}

\* analyzeWorkingSet: a row change is a change of a table without a change of
\* its schema; an altered table is there before and after.
DataOnly == Changed \ SchemaDiff
AlterTables == {n \in SchemaDiff : Has(head, n) /\ Has(working, n)}

Init ==
  /\ head \in [Names -> {NoTable, [schema |-> 1, rows |-> 0]}]
  /\ \A t \in Table : head[Scratch(t)] = NoTable
  /\ staged = head /\ working = head
  /\ call = Idle /\ left = {}

-----------------------------------------------------------------------------
\* The application and the developer.

MayChangeSchema == At("idle") \/ "ddlMeanwhile" \in Uses
Touch(t) == IF At("idle") THEN call ELSE [call EXCEPT !.touched = @ \cup {t}]

WritesRows(t) == \E r \in 0..MaxRows :
  /\ Has(working, t)
  /\ working' = [working EXCEPT ![t].rows = r]
  /\ call' = Touch(t)
  /\ UNCHANGED <<head, staged, left>>

\* CREATE, ALTER and DROP TABLE.
ChangesSchema(t) == \E s \in 0..MaxSchema :
  /\ MayChangeSchema
  /\ working' = [working EXCEPT ![t] = IF s = 0 THEN NoTable ELSE [@ EXCEPT !.schema = s]]
  /\ call' = Touch(t)
  /\ UNCHANGED <<head, staged, left>>

\* `dolt add <table>`.
Stages(t) ==
  /\ At("idle")
  /\ staged' = [staged EXCEPT ![t] = working[t]]
  /\ UNCHANGED <<head, working, call, left>>

-----------------------------------------------------------------------------
\* runCommit without --schema-only: a commit of everything tells first which
\* tables have row changes only; that this analysis fails is ignored.
CommitBegins(tables) == \E analysed \in {TRUE} \cup {FALSE : f \in {"toolFails"} \cap Faults} :
  /\ At("idle")
  /\ call' = [Idle EXCEPT !.pc = "add", !.cmd = "commit", !.asked = tables,
                          !.told = analysed /\ tables = {},
                          !.known = IF tables # {} THEN Staged
                                    ELSE IF analysed THEN DataOnly ELSE {}]
  /\ UNCHANGED <<head, staged, working, left>>

\* commitSchemaOnly refuses when no schema changed.
SchemaCommitBegins ==
  /\ At("idle")
  /\ SchemaDiff # {}
  /\ call' = [Idle EXCEPT !.pc = "add", !.cmd = "schemaOnly", !.known = DataOnly, !.todo = DataOnly]
  /\ UNCHANGED <<head, staged, working, left>>

\* Mutant of Adds: `dolt add -A` whatever was asked.
Adds_Everything ==
  /\ At("add")
  /\ staged' = working
  /\ Step(IF call.todo = {} THEN "commit" ELSE "unstage")
  /\ UNCHANGED <<head, working, left>>

\* `dolt add <tables>`, or `dolt add -A`.
Adds ==
  /\ At("add")
  /\ staged' = IF call.asked = {} THEN working
               ELSE [n \in Names |-> IF n \in call.asked THEN working[n] ELSE staged[n]]
  /\ Step(IF call.todo = {} THEN "commit" ELSE "unstage")
  /\ UNCHANGED <<head, working, left>>

\* Mutant of Unstages: the data tables stay in the commit.
Unstages_Nothing ==
  /\ At("unstage")
  /\ call' = [call EXCEPT !.todo = {}, !.pc = "commit"]
  /\ UNCHANGED <<head, staged, working, left>>

\* `dolt reset <table>`, table by table.
Unstages == \E n \in call.todo :
  /\ At("unstage")
  /\ staged' = [staged EXCEPT ![n] = head[n]]
  /\ call' = [call EXCEPT !.todo = @ \ {n}, !.pc = IF call.todo = {n} THEN "commit" ELSE "unstage"]
  /\ UNCHANGED <<head, working, left>>

\* runDoltCommit; with nothing staged it ends with an error.
Commits ==
  /\ At("commit")
  /\ head' = staged
  /\ Ends
  /\ UNCHANGED <<staged, working, left>>

\* A failed `dolt add`, `reset` or `commit` ends the command, and what was
\* staged by then stays staged.
CommitFails ==
  /\ call.pc \in {"add", "unstage", "commit"}
  /\ Fails("toolFails")
  /\ Ends
  /\ UNCHANGED <<head, staged, working, left>>

-----------------------------------------------------------------------------
\* Mutant of Targets: the altered tables are left out.
Targets_DataOnly(tables) == DataOnly \cap (IF tables = {} THEN Names ELSE tables)

\* Only a table that HEAD and the working set both have can take HEAD's rows.
Targets(tables) == (DataOnly \cup AlterTables) \cap (IF tables = {} THEN Names ELSE tables)

ResetDataBegins(tables) ==
  /\ At("idle")
  /\ Targets(tables) # {}
  /\ call' = [Idle EXCEPT !.pc = "rows", !.cmd = "resetData", !.asked = tables,
                          !.alter = AlterTables, !.todo = Targets(tables)]
  /\ UNCHANGED <<head, staged, working, left>>

AfterTable(n) == IF call.todo = {n} THEN call' = Idle
                 ELSE call' = [call EXCEPT !.todo = @ \ {n}, !.pc = "rows", !.table = Nothing]

\* `dolt checkout <table>` takes the table from the staged set, as it takes a
\* file from the index, and else from HEAD.
CheckedOut(n) == IF Has(staged, n) THEN staged[n] ELSE head[n]

ChecksOut == \E n \in call.todo \ call.alter :
  /\ At("rows")
  /\ working' = [working EXCEPT ![n] = CheckedOut(n)]
  /\ AfterTable(n)
  /\ UNCHANGED <<head, staged, left>>

\* Mutant of RebuildBegins: a table with row changes only is rebuilt too.
RebuildBegins_AnyTable == \E n \in call.todo :
  /\ At("rows")
  /\ call' = [call EXCEPT !.pc = "create", !.table = n]
  /\ UNCHANGED <<head, staged, working, left>>

\* rebuildWithHeadData, statement by statement: each is committed to the
\* working set of its own, although one `dolt sql -q` runs them.
RebuildBegins == \E n \in call.todo \cap call.alter :
  /\ At("rows")
  /\ call' = [call EXCEPT !.pc = "create", !.table = n]
  /\ UNCHANGED <<head, staged, working, left>>

\* Mutant of CreatesScratch: the copy is made from HEAD, schema and all.
CreatesScratch_AsOfHead ==
  /\ At("create")
  /\ working' = [working EXCEPT ![Scratch(call.table)] = head[call.table]]
  /\ Step("insert")
  /\ UNCHANGED <<head, staged, left>>

\* CREATE TABLE ... LIKE: the columns and indexes, but no foreign keys.
CreatesScratch ==
  /\ At("create")
  /\ ~Has(working, Scratch(call.table))
  /\ working' = [working EXCEPT ![Scratch(call.table)] =
                   [schema |-> Keyless[working[call.table].schema], rows |-> 0]]
  /\ Step("insert")
  /\ UNCHANGED <<head, staged, left>>

InsertsHeadRows ==
  /\ At("insert")
  /\ working' = [working EXCEPT ![Scratch(call.table)].rows = head[call.table].rows]
  /\ Step("drop")
  /\ UNCHANGED <<head, staged, left>>

DropsTable ==
  /\ At("drop")
  /\ working' = [working EXCEPT ![call.table] = NoTable]
  /\ Step("rename")
  /\ UNCHANGED <<head, staged, left>>

RenamesScratch ==
  /\ At("rename")
  /\ working' = [working EXCEPT ![call.table] = working[Scratch(call.table)],
                                ![Scratch(call.table)] = NoTable]
  /\ AfterTable(call.table)
  /\ UNCHANGED <<head, staged, left>>

\* The scratch copy stays; bound: once for a table.
LeavesScratch ==
  /\ call.table \notin left
  /\ left' = IF Has(working, Scratch(call.table)) THEN left \cup {call.table} ELSE left
  /\ UNCHANGED working

StatementFails ==
  \/ At("create") /\ Has(working, Scratch(call.table))  \* one that was left
  \/ At("insert") /\ Fails("unmappable")
  \/ call.pc \in {"create", "insert", "drop", "rename"} /\ Fails("toolFails")

\* Mutant of RebuildFails: there is no cleanup.
RebuildFails_NoCleanup ==
  /\ StatementFails
  /\ Ends
  /\ UNCHANGED <<head, staged, working, left>>

\* A statement fails (HEAD's rows do not fit a new NOT NULL column, a foreign
\* key forbids to drop the table, the time limit is over), and the cleanup
\* drops the copy, whatever the failed statement was.  That it fails as well
\* is ignored.
RebuildFails ==
  /\ StatementFails
  /\ \/ working' = [working EXCEPT ![Scratch(call.table)] = NoTable] /\ UNCHANGED left
     \/ Fails("toolFails") /\ LeavesScratch
  /\ Ends
  /\ UNCHANGED <<head, staged>>

\* A failed query or `dolt checkout` ends the reset between two tables, and the
\* death of the CLI at any point, without a cleanup.
ResetStops ==
  /\ \/ At("rows") /\ Fails("toolFails") /\ UNCHANGED <<working, left>>
     \/ call.pc \in {"create", "insert", "drop", "rename"} /\ Fails("dies") /\ LeavesScratch
  /\ Ends
  /\ UNCHANGED <<head, staged>>

-----------------------------------------------------------------------------
\* resetWorkingSet: in a session of the running server or, failing that, with
\* the dolt command; a session that breaks after the reset repeats it, which
\* is another reset.
MixedReset ==
  /\ At("idle")
  /\ staged' = head
  /\ UNCHANGED <<head, working, call, left>>

Untracked(n) == ~Has(head, n) /\ ~Has(staged, n)

HardReset ==
  /\ At("idle")
  /\ staged' = head
  /\ working' = [n \in Names |-> IF Untracked(n) THEN working[n] ELSE head[n]]
  /\ UNCHANGED <<head, call, left>>

\* cleanWorkingSet, in the same two ways.
Clean ==
  /\ At("idle")
  /\ working' = [n \in Names |-> IF Untracked(n) THEN NoTable ELSE working[n]]
  /\ UNCHANGED <<head, staged, call, left>>

-----------------------------------------------------------------------------
World == \/ \E t \in Table : WritesRows(t) \/ Stages(t)
         \/ \E t \in Altered : ChangesSchema(t)

Command ==
  \/ \E tables \in SUBSET Table : CommitBegins(tables)
  \/ SchemaCommitBegins \/ ResetDataBegins({})  \* `deltix reset --data` names no tables
  \/ Adds \/ Unstages \/ Commits \/ CommitFails
  \/ ChecksOut \/ RebuildBegins
  \/ CreatesScratch \/ InsertsHeadRows \/ DropsTable \/ RenamesScratch \/ RebuildFails \/ ResetStops
  \/ MixedReset \/ HardReset \/ Clean

Next == World \/ Command
Spec == Init /\ [][Next]_vars

-----------------------------------------------------------------------------
TypeOK ==
  /\ head \in Trees /\ staged \in Trees /\ working \in Trees
  /\ call \in Calls /\ left \subseteq Table
  /\ At("unstage") \/ At("rows") => call.todo # {}
  /\ call.pc \in {"create", "insert", "drop", "rename"} => call.table \in call.todo \cap call.alter

\* What a commit changes without changing a schema.
RowsOnly == {n \in Names : head'[n] # head[n] /\ head'[n].schema = head[n].schema}

\* A commit publishes row changes only of the tables it told of, and a
\* schema-only commit "leaves tables whose only change is data uncommitted";
\* what slips in is written while the command runs.
RowChangesAreTold ==
  [][/\ call.cmd = "commit" /\ call.told => RowsOnly \subseteq call.known \cup call.touched
     /\ call.cmd = "schemaOnly" => RowsOnly \subseteq call.touched]_head

\* A commit of named tables publishes these and what had been staged before it,
\* by the user or by a command that failed.
NamedCommitIsNarrow ==
  [][call.cmd = "commit" /\ call.asked # {} =>
       {n \in Names : head'[n] # head[n]} \subseteq call.asked \cup call.known]_head

\* A scratch table of `reset --data` is in no commit and in no working set
\* between commands, unless its own rebuild was left behind: the CLI died in
\* it, or its cleanup failed as well ("Leave no half-rebuilt table behind").
NoStrayScratch ==
  \A t \in Table \ left :
    ~Has(head, Scratch(t)) /\ ~Has(staged, Scratch(t)) /\ (At("idle") => ~Has(working, Scratch(t)))

\* `reset --data` keeps "every pending schema change in place": at each step,
\* failed or not, a table or its scratch copy has the schema, if not the
\* foreign keys of a rebuilt table.  There are two exceptions: a table whose
\* schema is HEAD's comes back as it was staged, and one whose RENAME fails is
\* gone, its cleanup dropping the only copy.
Held(t) == IF Has(working, t) THEN working[t].schema ELSE working[Scratch(t)].schema
SameButKeys(r, s) == r = s \/ (r # 0 /\ s # 0 /\ Keyless[r] = Keyless[s])
ResetKeepsSchema ==
  [][call.cmd = "resetData" => \A t \in Table :
       \/ Held(t) = 0 \/ SameButKeys(Held(t), Held(t)')
       \/ ChecksOut /\ Has(staged, t) /\ working'[t] = staged[t]
       \/ RebuildFails /\ At("rename") /\ t = call.table]_<<working, call>>

\* A `reset --data` that came to its end left no table with other rows than
\* HEAD's, or those staged before, but the tables written while it ran.
ResetReachesEveryTable ==
  [][call.cmd = "resetData" /\ (ChecksOut \/ RenamesScratch) /\ call' = Idle
     => \A t \in Table \ call.touched :
          Has(head, t) /\ Has(working', t) =>
            working'[t].rows = head[t].rows \/ (t \notin call.alter /\ working'[t] = staged[t])]_call
=============================================================================
