---------------------------- MODULE ApplyCommits ----------------------------
(***************************************************************************)
(* VersioningLocalService.applyCommits and the two callers that use it to  *)
(* bring server commits into the local Dolt repository: the fast-forward   *)
(* branch of runPull (target: the checked-out branch) and runFetch         *)
(* (target: origin/<branch>).  Every `dolt` sub-command and every file     *)
(* write of the code is a step of its own, so that a failing command, the  *)
(* death of the CLI process and the application writing to the running     *)
(* server can fall between any two of them.                                *)
(*                                                                         *)
(* Server commits are the positions 1..MaxServer of the server's linear    *)
(* history; a local branch is the sequence of the server commits it        *)
(* recreates, above the root (`dolt init`) commit, with LocalCommit for a  *)
(* commit the user made.                                                   *)
(***************************************************************************)
EXTENDS Naturals, Sequences

CONSTANTS
  Tables,        \* the tables of the database
  MaxServer,     \* bound: commits the server ever gets
  Changes,       \* the tables each server commit carries
  OntoTracking,  \* TRUE: runFetch, onto origin/<branch>; FALSE: runPull, onto the branch
  Materialized,  \* TRUE: the target branch exists before the first call
  MaxAttempts,   \* bound: calls of applyCommits
  MaxHistory,    \* bound: length at which the user stops committing
  Faults         \* which faults of the environment the run admits

(***************************************************************************)
(* <command>Fails : that dolt sub-command exits non-zero or times out;     *)
(* crash          : the CLI process dies between two steps;                *)
(* tornWrite      : it dies inside the writeFile of the sidecar;           *)
(* statusFails, headFails : the dolt_status / dolt_branches query fails,   *)
(*                  which the code maps to "clean" / "no such branch";     *)
(* appWrites      : the application writes rows while a call is running.   *)
(***************************************************************************)
CommandFaults == {"createFails", "switchFails", "importFails", "addFails",
                  "commitFails", "recordFails", "resolveFails", "advanceFails",
                  "backFails", "resetFails", "dropFails", "refFails"}
AllFaults == CommandFaults \cup {"crash", "tornWrite", "statusFails", "headFails", "appWrites"}

ServerCommits == 1..MaxServer
LocalCommit   == 0

Local    == <<"local", 0>>
Tracking == <<"origin", 0>>
Temp(n)  == <<"temp", n>>
Target   == IF OntoTracking THEN Tracking ELSE Local
BranchNames == {Local, Tracking} \cup {Temp(n) : n \in 1..MaxAttempts}

ASSUME ConstantsAssumption ==
  /\ MaxServer \in Nat /\ MaxAttempts \in Nat /\ MaxHistory \in Nat
  /\ Changes \in [1..MaxServer -> SUBSET Tables]
  /\ OntoTracking \in BOOLEAN /\ Materialized \in BOOLEAN
  /\ Faults \subseteq AllFaults

VARIABLES
  serverLen,  \* commits on the server's branch
  branches,   \* the existing local branches, with the history of each
  active,     \* the branch checked out in the working copy
  dirty,      \* whose rows each table of the working set holds that are not staged
  staged,     \* whose rows each table holds staged, not committed
  sidecar,    \* .deltix-applied-commits/<target>.json
  synced,     \* .deltix-sync-state: the serverHead recorded last
  pc,         \* where the running call is; "idle" when none runs
  attempt,    \* number of the current call; names its throwaway branch
  upto,       \* the server head the response carried
  pending,    \* the commits of the response that are not in the sidecar
  todo,       \* pending commits not recreated yet
  imported,   \* tables of the current commit imported so far
  applied,    \* the in-memory applied set
  base        \* the history the throwaway branch starts from

repo   == <<branches, active, dirty, staged>>
memory == <<upto, pending, todo, imported, applied, base>>
vars   == <<serverLen, repo, sidecar, synced, pc, attempt, memory>>

PCs == {"idle", "check", "base", "create", "switch", "apply", "commit",
        "record", "resolve", "advance", "finish", "finishDrop",
        "rollback", "rollbackReset", "rollbackDrop",
        "trackingRef", "save", "home"}

Owners  == {"user", "pull"}
History == Seq(ServerCommits \cup {LocalCommit})

RefsOK == /\ DOMAIN branches \subseteq BranchNames
          /\ branches \in [DOMAIN branches -> History]

TypeOK ==
  /\ serverLen \in 0..MaxServer
  /\ RefsOK
  /\ {Local, active} \subseteq DOMAIN branches
  /\ dirty \in [Tables -> SUBSET Owners]
  /\ staged \in [Tables -> SUBSET Owners]
  /\ sidecar \in SUBSET ServerCommits
  /\ synced \in 0..MaxServer
  /\ pc \in PCs
  /\ attempt \in 0..MaxAttempts
  /\ upto \in 0..MaxServer
  /\ pending \in SUBSET ServerCommits
  /\ todo \in SUBSET ServerCommits
  /\ imported \in SUBSET Tables
  /\ applied \in SUBSET ServerCommits
  /\ base \in History

-----------------------------------------------------------------------------
\* `dolt branch -f b h` (and `branch b h` for a new b); `dolt branch -D b`.
WithRef(b, h)  == [x \in DOMAIN branches \cup {b} |-> IF x = b THEN h ELSE branches[x]]
WithoutRef(b)  == [x \in DOMAIN branches \ {b} |-> branches[x]]
TouchedBy(cs)  == UNION {Changes[c] : c \in cs}
Fails(f)       == f \in Faults
Goto(l)        == pc' = l
IsCurrent(c)   == c \in todo /\ \A d \in todo : c <= d

NoRows == [t \in Tables |-> {}]

\* The rows of t that are not committed: what dolt_status lists, and what
\* `dolt add` stages.  An import replaces the table, staged rows included.
Uncommitted(t) == dirty[t] \cup IF "pull" \in dirty[t] THEN {} ELSE staged[t]

\* `dolt add ts`
StagesTables(ts) ==
  /\ staged' = [t \in Tables |-> IF t \in ts THEN Uncommitted(t) ELSE staged[t]]
  /\ dirty' = [t \in Tables |-> IF t \in ts THEN {} ELSE dirty[t]]

\* Tables of ts with uncommitted rows.
Pending(ts) == {t \in ts : dirty[t] \cup staged[t] # {}}

Init ==
  /\ serverLen = 0
  /\ branches = [b \in {Local} \cup (IF Materialized THEN {Target} ELSE {}) |-> << >>]
  /\ active = Local
  /\ dirty = NoRows
  /\ staged = NoRows
  /\ sidecar = {}
  /\ synced = 0
  /\ pc = "idle"
  /\ attempt = 0
  /\ upto = 0 /\ pending = {} /\ todo = {} /\ imported = {} /\ applied = {}
  /\ base = << >>

-----------------------------------------------------------------------------
\* The environment: other clients push, the application writes rows, and
\* between two sync commands the user commits, discards or switches back.

ServerGrows ==
  /\ serverLen < MaxServer
  /\ serverLen' = serverLen + 1
  /\ UNCHANGED <<repo, sidecar, synced, pc, attempt, memory>>

AppWrites(t) ==
  /\ pc = "idle" \/ Fails("appWrites")
  /\ dirty' = [dirty EXCEPT ![t] = @ \cup {"user"}]
  /\ UNCHANGED <<serverLen, branches, active, staged, sidecar, synced, pc, attempt, memory>>

\* The `dolt add` of `deltix commit`, of some tables or of all.  When the
\* `dolt commit` after it fails, or the CLI dies, they stay staged.
UserStages(ts) ==
  /\ pc = "idle"
  /\ \E t \in ts : dirty[t] # {}
  /\ StagesTables(ts)
  /\ UNCHANGED <<serverLen, branches, active, sidecar, synced, pc, attempt, memory>>

\* The `dolt commit`, on whatever branch is checked out.
UserCommits ==
  /\ pc = "idle"
  /\ staged # NoRows
  /\ Len(branches[active]) < MaxHistory
  /\ branches' = WithRef(active, Append(branches[active], LocalCommit))
  /\ staged' = NoRows
  /\ UNCHANGED <<serverLen, active, dirty, sidecar, synced, pc, attempt, memory>>

\* `deltix reset`, and the `dolt reset <table>` of a schema-only commit.
UserUnstages ==
  /\ pc = "idle"
  /\ staged # NoRows
  /\ dirty' = [t \in Tables |-> Uncommitted(t)]
  /\ staged' = NoRows
  /\ UNCHANGED <<serverLen, branches, active, sidecar, synced, pc, attempt, memory>>

\* `deltix reset --hard`
UserDiscards ==
  /\ pc = "idle"
  /\ dirty' = NoRows
  /\ staged' = NoRows
  /\ UNCHANGED <<serverLen, branches, active, sidecar, synced, pc, attempt, memory>>

\* `deltix checkout <branch>`
UserChecksOut ==
  /\ pc = "idle"
  /\ active' = Local
  /\ UNCHANGED <<serverLen, branches, dirty, staged, sidecar, synced, pc, attempt, memory>>

-----------------------------------------------------------------------------
\* Mutant of Start: the answer is not compared with the sidecar.
Start_IgnoresSidecar(from) ==
  /\ pc = "idle" /\ attempt < MaxAttempts /\ from < serverLen
  /\ attempt' = attempt + 1 /\ upto' = serverLen
  /\ pending' = (from + 1)..serverLen
  /\ todo' = pending' /\ applied' = sidecar /\ imported' = {} /\ base' = << >>
  /\ Goto("check")
  /\ UNCHANGED <<serverLen, repo, sidecar, synced>>

\* Once a sync state is saved, runPull compares a server hash with a local one,
\* always takes its diverged branch and calls applyCommits onto origin/<branch>:
\* the fast-forward call is the first one only.
\* pullCommits(from) answers with the commits after `from`, or with the whole
\* history when the server cannot reach `from` any more; applyCommits reads the
\* sidecar and keeps what it does not list.
Start(from) ==
  /\ pc = "idle"
  /\ attempt < MaxAttempts
  /\ from < serverLen
  /\ ~OntoTracking => synced = 0
  /\ attempt' = attempt + 1
  /\ upto' = serverLen
  /\ pending' = ((from + 1)..serverLen) \ sidecar
  /\ todo' = pending'
  /\ applied' = sidecar
  /\ imported' = {}
  /\ base' = << >>
  /\ Goto("check")
  /\ UNCHANGED <<serverLen, repo, sidecar, synced>>

\* Mutants of CheckWorkingSet: only staged, only unstaged changes count.
CheckWorkingSet_StagedOnly ==
  /\ pc = "check"
  /\ Goto(IF \A t \in TouchedBy(pending) : staged[t] = {} THEN "base" ELSE "idle")
  /\ UNCHANGED <<serverLen, repo, sidecar, synced, attempt, memory>>

CheckWorkingSet_UnstagedOnly ==
  /\ pc = "check"
  /\ Goto(IF \A t \in TouchedBy(pending) : dirty[t] = {} THEN "base" ELSE "idle")
  /\ UNCHANGED <<serverLen, repo, sidecar, synced, attempt, memory>>

\* assertNoUncommittedChanges(touched): a failing query counts as no rows.
CheckWorkingSet ==
  /\ pc = "check"
  /\ \/ Pending(TouchedBy(pending)) = {} /\ Goto("base")
     \/ Pending(TouchedBy(pending)) # {} /\ Goto("idle")
     \/ Fails("statusFails") /\ Goto("base")
  /\ UNCHANGED <<serverLen, repo, sidecar, synced, attempt, memory>>

\* readBranchHash(branch), or the root commit when it answers null.
ReadBase ==
  /\ pc = "base"
  /\ \/ Target \in DOMAIN branches /\ base' = branches[Target]
     \/ /\ Target \notin DOMAIN branches \/ Fails("headFails")
        /\ base' = << >>
  /\ Goto("create")
  /\ UNCHANGED <<serverLen, repo, sidecar, synced, attempt, upto, pending, todo, imported, applied>>

CreateTemp ==
  /\ pc = "create"
  /\ \/ branches' = WithRef(Temp(attempt), base) /\ Goto("switch")
     \/ Fails("createFails") /\ Goto("idle") /\ UNCHANGED branches
  /\ UNCHANGED <<serverLen, active, dirty, staged, sidecar, synced, attempt, memory>>

\* The throw of this checkout is outside the try block: nothing is undone.
SwitchToTemp ==
  /\ pc = "switch"
  /\ \/ active' = Temp(attempt) /\ Goto("apply")
     \/ Fails("switchFails") /\ Goto("idle") /\ UNCHANGED active
  /\ UNCHANGED <<serverLen, branches, dirty, staged, sidecar, synced, attempt, memory>>

\* importTable: create or truncate, then load; replaces the table's rows.  It
\* can fail before or after the first write to the table.
ImportTable(c, t) ==
  /\ pc = "apply"
  /\ IsCurrent(c)
  /\ t \in Changes[c] \ imported
  /\ \/ /\ dirty' = [dirty EXCEPT ![t] = {"pull"}]
        /\ imported' = imported \cup {t}
        /\ UNCHANGED pc
     \/ /\ Fails("importFails")
        /\ \/ dirty' = [dirty EXCEPT ![t] = {"pull"}]
           \/ UNCHANGED dirty
        /\ Goto("rollback")
        /\ UNCHANGED imported
  /\ UNCHANGED <<serverLen, branches, active, staged, sidecar, synced, attempt, upto, pending, todo, applied, base>>

\* Mutant of SkipEmptyCommit: the loop does not move past the commit.
SkipEmptyCommit_Stays(c) ==
  /\ pc = "apply" /\ IsCurrent(c) /\ Changes[c] = {}
  /\ applied' = applied \cup {c}
  /\ UNCHANGED <<serverLen, repo, sidecar, synced, pc, attempt, upto, pending, todo, imported, base>>

\* A commit without tables is only remembered as applied.
SkipEmptyCommit(c) ==
  /\ pc = "apply"
  /\ IsCurrent(c)
  /\ Changes[c] = {}
  /\ applied' = applied \cup {c}
  /\ todo' = todo \ {c}
  /\ UNCHANGED <<serverLen, repo, sidecar, synced, pc, attempt, upto, pending, imported, base>>

AddTables(c) ==
  /\ pc = "apply"
  /\ IsCurrent(c)
  /\ Changes[c] # {} /\ imported = Changes[c]
  /\ \/ StagesTables(Changes[c]) /\ Goto("commit")
     \/ Fails("addFails") /\ Goto("rollback") /\ UNCHANGED <<dirty, staged>>
  /\ UNCHANGED <<serverLen, branches, active, sidecar, synced, attempt, memory>>

\* Mutant of CommitTables: the branch follows after every commit, not at the end.
CommitTables_AdvancesEachTime(c) ==
  /\ pc = "commit" /\ IsCurrent(c)
  /\ branches' = [b \in DOMAIN branches \cup {Target} |->
                    IF b \in {Target, active} THEN Append(branches[active], c) ELSE branches[b]]
  /\ staged' = NoRows /\ applied' = applied \cup {c} /\ todo' = todo \ {c} /\ imported' = {}
  /\ Goto("apply")
  /\ UNCHANGED <<serverLen, active, dirty, sidecar, synced, attempt, upto, pending, base>>

\* `dolt commit` takes everything that is staged, tables of the user included.
CommitTables(c) ==
  /\ pc = "commit"
  /\ IsCurrent(c)
  /\ \/ /\ branches' = WithRef(active, Append(branches[active], c))
        /\ staged' = NoRows
        /\ applied' = applied \cup {c}
        /\ todo' = todo \ {c}
        /\ imported' = {}
        /\ Goto("apply")
     \/ /\ Fails("commitFails")
        /\ Goto("rollback")
        /\ UNCHANGED <<branches, staged, applied, todo, imported>>
  /\ UNCHANGED <<serverLen, active, dirty, sidecar, synced, attempt, upto, pending, base>>

LoopDone ==
  /\ pc = "apply"
  /\ todo = {}
  /\ Goto(IF pending = {} THEN "resolve" ELSE "record")
  /\ UNCHANGED <<serverLen, repo, sidecar, synced, attempt, memory>>

\* Mutants of RecordApplied: the sidecar is not written; it keeps the last batch only.
RecordApplied_Forgotten ==
  /\ pc = "record" /\ Goto("resolve")
  /\ UNCHANGED <<serverLen, repo, sidecar, synced, attempt, memory>>

RecordApplied_LastBatchOnly ==
  /\ pc = "record" /\ sidecar' = pending /\ Goto("resolve")
  /\ UNCHANGED <<serverLen, repo, synced, attempt, memory>>

\* writeAppliedHashes, before the branch is advanced.
RecordApplied ==
  /\ pc = "record"
  /\ \/ sidecar' = applied /\ Goto("resolve")
     \/ Fails("recordFails") /\ Goto("rollback") /\ UNCHANGED sidecar
     \/ Fails("tornWrite") /\ sidecar' = {} /\ Goto("idle")
  /\ UNCHANGED <<serverLen, repo, synced, attempt, memory>>

ResolveTempHead ==
  /\ pc = "resolve"
  /\ \/ Goto("advance")
     \/ Fails("resolveFails") /\ Goto("rollback")
  /\ UNCHANGED <<serverLen, repo, sidecar, synced, attempt, memory>>

\* `dolt branch -f <branch> <tempHead>`
AdvanceBranch ==
  /\ pc = "advance"
  /\ \/ branches' = WithRef(Target, branches[Temp(attempt)]) /\ Goto("finish")
     \/ Fails("advanceFails") /\ Goto("rollback") /\ UNCHANGED branches
  /\ UNCHANGED <<serverLen, active, dirty, staged, sidecar, synced, attempt, memory>>

-----------------------------------------------------------------------------
\* restore() after success: a failing checkout is caught by the catch block.
FinishCheckout ==
  /\ pc = "finish"
  /\ \/ active' = Target /\ Goto("finishDrop")
     \/ Fails("backFails") /\ Goto("rollback") /\ UNCHANGED active
  /\ UNCHANGED <<serverLen, branches, dirty, staged, sidecar, synced, attempt, memory>>

FinishDrop ==
  /\ pc = "finishDrop"
  /\ \/ branches' = WithoutRef(Temp(attempt))
     \/ Fails("dropFails") /\ UNCHANGED branches
  /\ Goto(IF OntoTracking THEN "save" ELSE "trackingRef")
  /\ UNCHANGED <<serverLen, active, dirty, staged, sidecar, synced, attempt, memory>>

\* Mutants of RollbackCheckout: the call stays on its throwaway branch; the
\* touched tables are not reset (the code before 0.8.6).
RollbackCheckout_StaysOnTemp ==
  /\ pc = "rollback" /\ Goto("rollbackReset")
  /\ UNCHANGED <<serverLen, repo, sidecar, synced, attempt, memory>>

RollbackCheckout_NoReset ==
  /\ pc = "rollback"
  /\ Target \in DOMAIN branches /\ active' = Target /\ Goto("rollbackDrop")
  /\ UNCHANGED <<serverLen, branches, dirty, staged, sidecar, synced, attempt, memory>>

\* restore(touched) from the catch block; its own errors are swallowed.
RollbackCheckout ==
  /\ pc = "rollback"
  /\ \/ Target \in DOMAIN branches /\ active' = Target /\ Goto("rollbackReset")
     \/ /\ Target \notin DOMAIN branches \/ Fails("backFails")
        /\ Goto("idle") /\ UNCHANGED active
  /\ UNCHANGED <<serverLen, branches, dirty, staged, sidecar, synced, attempt, memory>>

RollbackReset ==
  /\ pc = "rollbackReset"
  /\ \/ /\ dirty' = [t \in Tables |-> IF t \in TouchedBy(pending) THEN {} ELSE dirty[t]]
        /\ staged' = [t \in Tables |-> IF t \in TouchedBy(pending) THEN {} ELSE staged[t]]
        /\ Goto("rollbackDrop")
     \/ /\ Fails("resetFails") /\ Goto("idle") /\ UNCHANGED <<dirty, staged>>
  /\ UNCHANGED <<serverLen, branches, active, sidecar, synced, attempt, memory>>

\* Mutant of RollbackDrop: the error is not rethrown and the caller goes on.
RollbackDrop_Swallowed ==
  /\ pc = "rollbackDrop"
  /\ branches' = WithoutRef(Temp(attempt)) /\ Goto("save")
  /\ UNCHANGED <<serverLen, active, dirty, staged, sidecar, synced, attempt, memory>>

RollbackDrop ==
  /\ pc = "rollbackDrop"
  /\ \/ branches' = WithoutRef(Temp(attempt))
     \/ Fails("dropFails") /\ UNCHANGED branches
  /\ Goto("idle")
  /\ UNCHANGED <<serverLen, active, dirty, staged, sidecar, synced, attempt, memory>>

-----------------------------------------------------------------------------
\* The callers.  runPull: advanceRemoteRef(head), saveSyncState(serverHead).
AdvanceTrackingRef ==
  /\ pc = "trackingRef"
  /\ \/ branches' = WithRef(Tracking, branches[Target]) /\ Goto("save")
     \/ Fails("refFails") /\ Goto("idle") /\ UNCHANGED branches
  /\ UNCHANGED <<serverLen, active, dirty, staged, sidecar, synced, attempt, memory>>

SaveSyncState ==
  /\ pc = "save"
  /\ synced' = upto
  /\ Goto(IF OntoTracking THEN "home" ELSE "idle")
  /\ UNCHANGED <<serverLen, repo, sidecar, attempt, memory>>

\* runFetch: saveSyncState(serverHead), checkout(branch).
CheckoutHome ==
  /\ pc = "home"
  /\ \/ active' = Local
     \/ Fails("backFails") /\ UNCHANGED active
  /\ Goto("idle")
  /\ UNCHANGED <<serverLen, branches, dirty, staged, sidecar, synced, attempt, memory>>

\* The CLI process is killed; what it wrote stays.
Crash ==
  /\ pc # "idle"
  /\ Fails("crash")
  /\ Goto("idle")
  /\ UNCHANGED <<serverLen, repo, sidecar, synced, attempt, memory>>

-----------------------------------------------------------------------------
Call ==
  \/ Start(synced)
  \/ synced > 0 /\ Start(0)
  \/ CheckWorkingSet \/ ReadBase \/ CreateTemp \/ SwitchToTemp
  \/ \E c \in todo : \/ \E t \in Tables : ImportTable(c, t)
                     \/ SkipEmptyCommit(c) \/ AddTables(c) \/ CommitTables(c)
  \/ LoopDone \/ RecordApplied \/ ResolveTempHead \/ AdvanceBranch
  \/ FinishCheckout \/ FinishDrop
  \/ RollbackCheckout \/ RollbackReset \/ RollbackDrop
  \/ AdvanceTrackingRef \/ SaveSyncState \/ CheckoutHome
  \/ Crash

Environment ==
  \/ ServerGrows
  \/ \E t \in Tables : AppWrites(t)
  \/ \E ts \in SUBSET Tables : UserStages(ts)
  \/ UserCommits \/ UserUnstages \/ UserDiscards \/ UserChecksOut

Next == Call \/ Environment

Spec == Init /\ [][Next]_vars

\* The CLI process runs until it ends (every dolt command has a time limit).
FairSpec == Spec /\ WF_vars(Call /\ pc # "idle")

-----------------------------------------------------------------------------
TargetHistory == IF Target \in DOMAIN branches THEN branches[Target] ELSE << >>
Carrying      == {c \in ServerCommits : Changes[c] # {}}

PL == INSTANCE PullLog WITH log <- TargetHistory, recorded <- sidecar

\* The target branch holds every server commit at most once and in server
\* order, whatever the server resends and wherever earlier calls broke off
\* (the idempotent apply of applyCommits).
InServerOrder == PL!Ascending(TargetHistory)

\* The target branch moves by the whole batch of a call or not at all: no
\* step of a call leaves it with part of the pending commits, and none takes
\* a commit away from it (the atomic pull of applyCommits).
WholeBatchOrNothing ==
  [][pc # "idle" /\ TargetHistory' # TargetHistory
       => /\ PL!Extends(TargetHistory, TargetHistory')
          /\ PL!Appended(TargetHistory, TargetHistory') = pending \cap Carrying]_vars

\* The server head saved for the next negotiation never runs ahead of the
\* sidecar: a commit the server will not send again is recorded as applied.
SyncedIsRecorded == 1..synced \subseteq sidecar

\* No step of a call takes an unstaged row of the user out of the working set,
\* or stages it: not the import, not `dolt add`, not the rollback.  A row the
\* user's own failed commit left staged stays staged, unless a pulled commit,
\* which takes all that is staged, takes it along.
LocalRowsSurvive ==
  [][pc # "idle" => \A t \in Tables :
       /\ "user" \in dirty[t] => "user" \in dirty'[t]
       /\ "user" \in staged[t] =>
            \/ "user" \in staged'[t]
            \/ pc = "commit" /\ t \notin TouchedBy(pending) /\ branches'[active] # branches[active]]_vars

\* What a pulled commit takes of the tables of the server commit it recreates
\* is exactly the rows of the import, and of another table never a row of the
\* import, although `dolt commit` takes all that is staged and earlier calls
\* may have died with tables staged.
PulledCommitIsExact ==
  pc = "commit" =>
    \E c \in todo : /\ IsCurrent(c)
                    /\ \A t \in Changes[c] : staged[t] = {"pull"}
                    /\ \A t \in Tables \ Changes[c] : "pull" \notin staged[t]

\* After a call that failed the working set holds none of its rows.
FailedApplyLeavesNoRows ==
  pc = "idle" => \A t \in Tables : "pull" \notin dirty[t] \cup staged[t]

\* The detailed steps implement the promise of PullLog.
ImplementsPullLog == PL!Spec

\* Every call ends.
CallEnds == pc # "idle" ~> pc = "idle"
=============================================================================
