# Deltix client: a TLA+ verification project

Deltix is a command line that versions a MySQL-compatible database.  Every
checkout has a local [Dolt](https://github.com/dolthub/dolt) repository that
`dolt sql-server` serves to the application; `deltix commit`, `push`, `pull`,
`fetch`, `branch` and `checkout` work on that repository and on a central
Deltix server.  This directory models the parts of the client whose
correctness depends on the order of steps: sequences of `dolt` sub-commands
that may fail in the middle, files written between them, several clients and
one server, several terminals and one machine.

All paths below are relative to the repository; `V` is
`src/contexts/versioning-local/versioning-local.service.ts` and `M` is
`src/contexts/mysql-embedded/mysql-embedded.service.ts`.

## 1. The system

| part | state it keeps | operations | interacts with |
|---|---|---|---|
| **applyCommits** (`V` 1225-1420) | branches, active branch, working set (dirty and staged tables), the sidecar `.deltix-applied-commits-<branch>` | recreate pulled commits on a throwaway branch, advance, roll back | called by pull, fetch, clone; the user and the application write the same working set |
| **push, pull, fetch, clone** (`cli/commands/push.ts`, `remote.ts`, `V` 440-600, 1786-1842) | `origin/<branch>`, `.deltix-sync-state` (the server's head), the branch | collect and send commits, receive and apply, merge, abort | server API, applyCommits, the user's commits |
| **local server** (`M`, `cli/commands/server.ts`) | run files in `~/.deltix/run`, the `dolt sql-server` processes, one TCP port | start, stop, status, adopt an orphan; stop and start around a checkout | the operating system, `checkout` in `V` |
| **branches and checkout** (`V` 719-840, 995-1200, `helpers/checkout-branch.ts`, `reconcileBranch`) | branches, active branch, the branch in the project config, the branch key of the sync state | create, delete, checkout (with fallback to the server), merge, reconcile | sync, local server, project config |
| **working tree** (`V` 131-430, 858-961) | staged and unstaged schema and row changes | commit, schema-only commit, reset, clean, rows back to HEAD | the application |
| **session** (`contexts/session`) | credentials file, refresh tokens on the server | login, refresh, logout, keep-alive | every command that calls the server |
| **binary manager** (`contexts/binary-manager`) | `~/.deltix/bin/dolt-<v>` and its digest | find, verify, install | everything that runs `dolt` |
| **import** (`contexts/import`) | tables in the working set | order tables by foreign keys, load, commit | working tree, a MySQL source |
| **configuration, local project** | two TOML files | load, save, bind a directory to a repository and a branch | all commands |
| **server API** (`acl/versioning-api-adapter.ts`, `contexts/versioning`) | none | one HTTP request per call | session |
| **command line, logging, process spawning** | none | parse, print, spawn | all |

What makes it hard, and what must hold:

* *Partial failure and crashes.*  applyCommits is a dozen commands and two file
  writes; any may fail or be the last one.  The branch must move by a whole
  batch or not at all, nothing may be applied twice or skipped, the user's
  uncommitted rows must survive, and a failed call must clean up.
* *Two spaces of hashes.*  A recreated commit has another hash than the
  server's, so "what do I have" lives in files (sidecar, sync state) that must
  agree with the branches.
* *Lost answers and retries.*  A push whose answer is lost is repeated; the
  server must take no commit twice, and must lose nobody's rows.
* *Whole-table commits.*  A commit carries the full table, so applying it on a
  branch with other work replaces rows instead of merging them.
* *Races on one machine.*  Two terminals, a server that is going down, reused
  pids and stale run files; a command must not signal, adopt or lose the wrong
  process.
* *Stale configuration.*  The branch is remembered in three places.

PROJECT.json lists every hazard with the line where it bites and the properties
about it.

## 2. Modules

| module | what it is |
|---|---|
| `PullLog` | the abstract promise of applyCommits: a branch and a set of recorded commits; record, advance by recorded commits in server order, user commits |
| `ApplyCommits` | applyCommits step by step with its callers' tails; implements `PullLog` |
| `ApplyCommits_proofs`, `Branches_proofs`, `WorkingTree_proofs`, `DeltixSync_proofs`, `DeltixRows_proofs`, `LocalServer_proofs`, `Session_proofs`, `Import_proofs` | the inductive invariants and theorems about these modules |
| `DeltixSync` | several clients and a server: commit, push, pull (fast-forward and merge), fetch, conflicts, aborts |
| `Branches` | one clone with several branches: create, delete, checkout, merge, and what pull, fetch and push do to the branch that is checked out |
| `LocalServer` | start, stop, status and checkout of several terminals over one port |
| `WorkingTree` | commit, schema-only commit, the resets and clean over HEAD, the staged set and the working set |
| `Session` | login, logout and the token refresh of every command over one credentials file |
| `Import` | the order, the steps and the commit of `deltix import` |
| `MC...` | the instances of each module for TLC |

The modules meet in these steps.  `Apply`, `ApplyFails` and `ApplyLoses` of
`DeltixSync`, and `ApplyBegins`, `ApplyFinishes` and `ApplyFails` of `Branches`,
are the calls that `ApplyCommits` takes apart: what it shows of a call (all or
nothing, the sidecar written first) is what they take as one or two steps.
`DeltixSync` has the rows and the other clients and only one branch; `Branches`
has the names and no rows.  The stop and start of `LocalServer`'s checkout
surround `Switch` of `Branches`, which needs no server of its own; that a server
may be up while a command runs `dolt` (`Serving`) is a choice there.  What
`Session` says of a request holds for each request the others take as one step.

### 2.1 ApplyCommits

A server commit is its position on the server's branch; a local branch is the
sequence of the server commits it recreates, with 0 for a commit of the user.
Hashes are thus abstracted to what the sidecar tells apart.  `pc` names the
command that comes next:

| pc | code |
|---|---|
| idle → check | `Start`: filter by the sidecar (`V` 1255-1257) |
| check, base | `CheckWorkingSet` (1556), `ReadBase` (1706, 1743) |
| create, switch | `dolt branch`, `dolt checkout` of the throwaway branch |
| apply, commit | `ImportTable`, `SkipEmptyCommit`, `AddTables`, `CommitTables` in the loop of 1338 |
| record, resolve, advance | sidecar (1373), head of the throwaway branch, `dolt branch -f` |
| finish, finishDrop | `restore()` after success |
| rollback, rollbackReset, rollbackDrop | `restore(touched)` in the catch |
| trackingRef, save, home | the tails of `runPull` (144-148) and `runFetch` (192-204) |

`dirty` and `staged` say, per table, whose uncommitted rows ("user", "pull") the
working set holds unstaged and staged, because that is all the rollback, the
dirty check and `dolt commit`, which takes everything staged, depend on.
Next to the call run `UserStages`, `UserCommits`, `UserUnstages`, `UserDiscards`,
`UserChecksOut` (between calls) and `AppWrites` (at any time, when the fault set
allows it).  A `deltix commit` is `UserStages` and `UserCommits` (`V` 131-161): when its
`dolt commit` fails, the tables stay staged.

Faults are a constant.  Any sub-command may fail, the process may die between
any two steps (`crash`) or inside the write of the sidecar (`tornWrite`), and a
query that fails is read as "clean" (`statusFails`) or "no such branch"
(`headFails`), as the code does.  A passing run has the largest set of faults
its properties survive; section 3.1 says what the others break.

Left out: tables are assumed to exist at the target's HEAD, so that the reset
of the rollback is meaningful; commits the server sends without a hash;
timeouts, which are failures of a command.

### 2.2 DeltixSync

One branch and one table.  A row is named by the commit that inserted it, and a
commit is its identity and its whole table, as `exportTableAtCommit` and
`importTable` treat it.  Each client has an object store (its Dolt commits, in
order); `local` and `tracking` are the sets of commits reachable from `<branch>`
and `origin/<branch>`, which makes ancestor tests, merge bases and `NOT IN
(dolt_log AS OF origin/<branch>)` set operations.

A command is a record in `call[c]`; its steps are the exchanges with the server
and the writes of the client, so users commit, others push and processes die
between them.  `RemoteHead` keeps the code's two spaces of hashes apart: a saved
server head or the fallback to a local hash, which the server does not know: it
refuses it as a push base and answers a pull with its full history (as `V`
1250-1254 describes the current server; up to 0.8.3 it answered with an error).

The server is not in this repository.  It is modelled from the way the adapter
uses it (`acl/versioning-api-adapter.ts` 415-478): a push with a base other than
its head is answered 409, one without a base is taken, a pull gets the commits
after `from`.  `dolt merge` is external too, and modelled as a three-way merge
of rows; conflicts are a nondeterministic outcome, since rows have no columns
here.

`Uses` says what users do.  With `{}` a user clones or pulls before the first
commit and never fetches, the workflow of the repository's README; `earlyWork`
and `fetch` drop these restrictions, and their runs show what that costs.

Left out: several branches and `reconcileBranch`, which `Branches` has; schema
changes, and several tables in one commit.

### 2.3 LocalServer

Processes of one machine, the run file of each identity (a checkout, or the
bare name of a repository), and the command each terminal runs.  status() is
`ReadRunFile`, `QueryPort`, `FindPid`, `CheckAlive`, `CleanUp`; start() goes on
with `Adopt`, or `ProbePort`, `Spawn`, `WaitReady`, `CheckExited`, `SaveState`
and the failure `WaitTimesOut`; stop() is `StopReads` (or status()), `Kill`,
`RemoveState`; a checkout on a running server is a stop followed by a start with
the errors of both swallowed (`V` 737-760).  The pid -1 of the code is 0.

A process that was told to stop holds the port, and answers, until it exits.
Left out: torn run files, servers on different ports, the log file, signals to
processes of other users.

### 2.4 Branches

The branch is named in three places, and each is a variable: `active` (the Dolt
repository), `config` (`.deltix/config.toml`) and the key in `synced`
(`.deltix-sync-state`).  `refs` maps local branches, `origin/<b>` and the
throwaway branches `_deltix_pull_...` to what they reach.  Every commit changes a
table of its own, so a history is a set of commits and a merge is a union; the
empty set is a branch that does not exist.

| actions | code |
|---|---|
| `CreatesBranch`, `DeletesBranch`, `Merges` | `V` 779-840, 995-1050 and `cli/commands/branch.ts`, `branching.ts`; on the server, and locally when it cannot be reached |
| `CheckoutBegins`, `CheckoutAsks`, `Switch` | `helpers/checkout-branch.ts` and `checkout` (`V` 719-777, 1520-1545) |
| `SyncBegins` | `reconcileBranch` (`remote.ts` 29-53): the active branch wins over the config and takes over its sync state; when nothing tells which one is active, the config's branch stays |
| `Request`, `ApplyBegins`, `ApplyFinishes`, `ApplyFails`, `MergeTracking`, `AdvanceTracking`, `SaveSyncState` | `runPull`, `runFetch` and the block of the checkout that asks the server |
| `PushCollects`, `PushSends`, `PushMarks` | `runPush` |

Next to the commands the user commits on whatever is checked out, and others
push to the server's branches and create and delete them; the server's branches are
external.  `CurrentBranch` is the answer of `getCurrentBranch` (`V` 1059-1097), which may
be null (the fault `branchUnknown`), or the branch of another checkout of the
repository whose sql-server is on the default port (`otherServer`, left out of the
runs).  Left out: the rows, a crash of the process (the failed rollback of
`ApplyFails` leaves the same places: a throwaway branch checked out), a push
of a branch that others push to at the same time without a base.

### 2.5 WorkingTree

`head`, `staged` and `working` give each table a version of its schema and one
of its rows (`NoTable` where it does not exist), and `<table>__deltix_reset` is a
table like the others.  `Keyless` maps a version of a schema to the one without its
foreign keys.  `analyzeWorkingSet` is the differences
of the three (`Staged`, `Unstaged`, `DataOnly`, `AlterTables`).  A commit is
`CommitBegins` or `SchemaCommitBegins`, `Adds`, `Unstages` for each table and
`Commits` (`V` 131-238, 282-316); `reset --data` is `ResetDataBegins`, `ChecksOut` for
each table with row changes, and for an altered one the statements of
`rebuildWithHeadData` one by one (`V` 240-280, 370-430); `MixedReset`, `HardReset` and
`Clean` are one statement each (`V` 858-961).  The application writes rows
(`WritesRows`) between any two steps; the developer changes schemas and stages
between commands.

What `dolt` does to its three trees is modelled as Dolt documents it.  `dolt
checkout <table>` restores the staged version of a staged table, else HEAD's
(`CheckedOut`).  CREATE TABLE ... LIKE has no foreign keys (`CreatesScratch`), so a
rebuilt table loses them.  Each statement may fail (`StatementFails`), the
cleanup after it too, which the code ignores (`V` 397-403), and the CLI may die
in a rebuild (`ResetStops`); `left` remembers the tables whose copy was left that
way.  The next rebuild of such a table fails at its CREATE, and its cleanup
removes the copy; a commit of everything before that publishes it.

Left out: schema changes that fail on their own, tables renamed by the user,
commit messages and identities.

### 2.6 Import

`edges` is chosen once and is any set of foreign keys.  `TopoOrder` is Kahn's
algorithm with the queue of `table-order.ts` 25-49: `Turn` is one iteration of the
`while`, which frees the tables (`Freed`) whose last parent is done.  The loop and
`Array.filter` (`Those`) are recursive functions, so that they can be proved
about.  `Begins` is the request:
tables in any order, `--blobs`, `--schema-only`, `--no-commit` and `--continue`; then each table
is `Creates`, `Imports`, `SetsCounter`, `Decodes` (`V` 1428-1518) and the command
ends with `Commits`.  Any step may fail; what it left is what the next import
finds.

A row is a key and a value, one of those that the way through the CSV tells
apart.  `CsvOf` is `serializeTable`: NULL, '' and bytes of a type that is not
listed as binary become the empty field, which Dolt reads as NULL; bytes of a
listed one become base64 text, which `Decodes` turns back.  `Rejects` are the rows that
`dolt table import` does not take, among them NULL for a NOT NULL column: they
end the import, or are skipped under `--continue` (`Taken`).  Left out: the layout of
the CSV and the DDL, rows whose line in it is blank (a table of one column that
is NULL), connection strings, timeouts (failures of a step), and a `--table` given
twice, which makes `topoOrder` count a parent twice.

### 2.7 Session

`file` is `credentials.json`, which is torn between the truncation and the write
of `writeFile`; `live` are the refresh tokens the server takes; `rotates` says
whether it replaces a token that is used, which the code allows for
(`session.service.ts` 61-76).  A command is `Load`, `Refresh`,
`Truncate`, `Write`, then the request: `RequestRuns`, `Answered`, or `Refused`
with one more refresh (`versioning-api-adapter.ts` 512-533).  Login and logout are
`LoginSucceeds` and `LoginFails`, `Revokes` and `Clear`.  The auth server is
external.  Left out: registration, `whoami` (reads only), `keepAlive` (nobody
calls it).

## 3. Runs

### 3.1 What holds

| run | properties | instance |
|---|---|---|
| `apply_fetch` | `TypeOK`, `InServerOrder`, `SyncedIsRecorded`, `PulledCommitIsExact`, `WholeBatchOrNothing`, `LocalRowsSurvive`, `ImplementsPullLog` | fetch onto a branch that does not exist yet; 2 server commits over 2 tables, 3 calls, every command failing, crashes, a user who stages, commits and unstages between calls |
| `apply_pull` | `FailedApplyLeavesNoRows`, `CallEnds` | the first pull, onto the checked-out branch; 3 server commits over 2 tables (one of them empty), 2 calls, the same user; every command but those of the rollback failing, failed dolt_status queries, torn sidecars, an application that writes at any time; fair |
| `sync_pull` | `TypeOK`, `SyncedIsTracked`, `ServerKeepsRows`, `UnmarkedRowsSurvive` | 2 clients, 2 commits each, 4 commits on the server; lost answers, crashes, conflicts, failed applies |
| `sync_any_fault` | `ServerTakesOnce` | the same, and sidecars ahead of their branch |
| `sync_readers` | `UnmarkedRowsSurvive`, `ReadersCatchUp` | a writer with 3 commits and a reader, both pull and fetch; no faults; fair |
| `server_alone` | `TypeOK`, `NoLostServer`, `RunFilesNameOwnServers`, `PortInUseByOthers`, `CommandsEnd` | 1 terminal with start, stop, status and checkout, 2 checkouts of one repository, which share a database, and 1 of another, 4 processes; servers that never listen or hide their pid, 2 deaths or reused pids; fair |
| `server_two` | `StartsConverge` | 2 terminals with start and status, 1 project, 5 processes; 1 death, crash, lost run file or other program on the port; fair |
| `branches` | `TypeOK`, `SyncedHeadIsPresent`, `CommitsStayReachable`, `RemoteCheckoutIsComplete`, `PushSendsItsBranch`, `SyncEndsOnItsBranch` | 1 terminal, 2 branches and 1 throwaway name, 1 commit of the user and 1 of others; branch names used again, commits on `origin/<b>` and while a command waits, a server that cannot be reached, failed applies, unknown checked-out branch |
| `working_tree` | `TypeOK`, `NoStrayScratch`, `RowChangesAreTold`, `NamedCommitIsNarrow`, `ResetKeepsSchema`, `ResetReachesEveryTable` | 2 tables, one of which changes between 3 versions of its schema, two of them the same but for foreign keys, and 2 of the rows; failing commands, statements and cleanups, a CLI that dies in a rebuild, HEAD's rows not fitting a new schema |
| `import` | `ParentsComeFirst`, `CommitsTheSource` | 3 tables with all 64 sets of foreign keys between them, one empty, one NOT NULL with a rejected row and '', one with both kinds of bytes and NULL, two with an auto-increment key; any number of imports with and without `--continue`, every step failing |
| `session` | `StoredTokenWorks`, `RunsAtMostOnce`, `LogoutClears`, `CommandsEnd` | 2 users, 2 terminals, 5 refresh tokens; refused access tokens, no network, lost answers; fair |

The bounds are the smallest at which the hazards can happen: two commits can arrive
in one batch or in two, and the third of `apply_pull` changes no table; three
calls are a failure, a retry and a call after the retry; one altered table is
enough, since a rebuild touches no other (the theorems cover any number);
two clients with two commits each can diverge, merge, and push on an old base; four processes are a
server, its failed restart, and one more for each of two databases; two branches
are one to leave and one to arrive at, and with one commit on each side they can
diverge; three tables are the smallest cycle that holds back a table behind it;
five tokens are one in the file, one forgotten by the file, one in each
terminal and a new one.  One throwaway name means that a second apply waits
while a failed rollback has left the first name behind.  Every bound
is a constant and appears in a guard; none cuts a call short, except that a push
or an apply which would exceed `MaxServer` or `MaxStore` waits.

The faults a run leaves out break its properties:

* `statusFails` breaks `LocalRowsSurvive`: `assertNoUncommittedChanges` takes a
  failed query for a clean working set, and the import truncates the user's
  tables.  So does `appWrites`, for rows written after the check.
* `headFails` breaks `WholeBatchOrNothing`: `readBranchHash` answers null for a
  failed query as for a missing branch, and an existing branch is rebuilt from
  the root commit.
* `tornWrite` breaks `InServerOrder` once the server answers with its full
  history: a sidecar that does not parse is the empty set.
* `backFails`, `resetFails` and `crash` break `FailedApplyLeavesNoRows`; so does
  a first fetch, whose rollback cannot check out a branch that does not exist.
* Sidecars ahead of their branch (`advanceFails`) break `ServerKeepsRows` and
  `SyncedIsTracked`; a push after a fetch breaks
  `ServerKeepsRows`, and, when its answer is lost or the process dies,
  `ServerTakesOnce`, because a fetch saves the server's head as the push base
  without merging it.  `SyncedIsTracked` is about a pull's head: a fetch breaks it.
  Either of the two, a fetch or a sidecar ahead of its branch, breaks
  `UnmarkedRowsSurvive` as well when a process may die (`crash`), or when an answer to
  a push may be lost (`answerLost`) and a merge may stop at a conflict (`conflicts`):
  the user's row comes back from the server and is merged before its own commit is
  marked, a push of another client drops it there, and the next merge takes it for
  deleted.  Section 4.8 proves that nothing else does.
* Without `synced > 0` before the first commit (`earlyWork`), a first push has
  no base and replaces the server's rows; when its answer is lost, the same
  commits are sent, and taken, again (`ServerTakesOnce`).  A commit made while the
  first pull waits for its answer is replaced by it (`UnmarkedRowsSurvive`).
* A second terminal, or a command that dies (`crash`), breaks `NoLostServer`,
  `PortInUseByOthers` and `RunFilesNameOwnServers`: of two starts
  the one that loses the port may save its pid last, and a status may remove the
  run file another start has just written.  `server_two` shows that the next
  starts repair this.  A lost run file, or the bare name of a repository next to
  a checkout of it, breaks `NoLostServer` until the next start adopts the server; a
  foreign program on the port breaks `RunFilesNameOwnServers`, because
  `lsof` may find it after the probe found the own server.  A lost run file breaks
  `PortInUseByOthers` only together with a bare name, for which the stale run file
  of a checkout is found instead, or with a foreign program, behind
  which the own server has yet to take the port.
* `Branches`: `plainCheckout` (`deltix checkout`, which does not save the config,
  section 3.2), `mergeElsewhere` (a local merge into another branch checks that
  branch out, or changes it behind its sync state) and `pushUnmerged` (a push of
  a branch that a fetch has left behind) each break `SyncedHeadIsPresent`;
  `commitAnywhere` (a commit while a throwaway branch is checked out)
  breaks `CommitsStayReachable`.  `otherServer` breaks `PushSendsItsBranch`: the push
  takes the branch that another checkout has checked out for its own.  With
  `branchUnknown` the config's branch is taken instead, which breaks
  `PushSendsItsBranch` and `SyncEndsOnItsBranch` for users of `plainCheckout`, and
  `CommitsStayReachable` for those who delete the branch that the config names
  (`deleteConfigured`).  `deleteUnmerged`, the deletion of a server branch
  that is not merged, breaks nothing and is left out for the number of states.
* `WorkingTree`: schema changes while a command runs (`ddlMeanwhile`) are undone by
  the rebuild, which breaks `ResetKeepsSchema`.
* `Import`: `emptyOverRows`, the import of a table that is empty in the source
  over local rows, breaks `CommitsTheSource`: the comment at `V` 1424 says that the
  table is truncated, and no statement does it.
* `Session`: a login or logout next to a running command (`race`), and an answer
  to a refresh that is lost after the server replaced the token (`refreshLost`),
  break `StoredTokenWorks`.

What the runs' instances leave out, or the properties except, are these things
the code does, each seen in the model:

* `dolt branch -f` fails after the sidecar was written (`V` 1373, 1381): the batch
  is skipped for good.
* A failed `deltix commit` leaves its tables staged (`V` 146-153); a pull checks only
  the tables it touches (`V` 1266), and its `dolt commit` takes the others along (`V`
  1354).  When that apply fails later, the rows go with the throwaway branch,
  although the comment at `V` 1391 says that the repository is as it was before.
* When no query tells that a throwaway branch is checked out, a push sends what is
  on it under the name of the config's branch (`V` 464, 1087-1096).
* A rebuild whose RENAME fails loses the table: its cleanup drops the only copy (`V`
  386, 400).  A rebuilt table has lost its foreign keys (`V` 384), one that was staged
  comes back from `reset --data` as it was staged, and a copy whose cleanup failed is
  published by the next `dolt add -A`.
* A merging pull moves `origin/<branch>` to the merged head, unpushed commits
  included (`remote.ts` 109); they count as pushed, and a later pull drops their
  rows.  `UnmarkedRowsSurvive` is about the other rows.
* A commit made while a push waits for its answer is marked as pushed
  (`push.ts` 37).
* The client's own push comes back with the next pull, changes no table, and
  `dolt commit` fails (`V` 1368): the pull can not succeed.
* Two checkouts of one repository take each other's server for their own,
  because a server is known by its database (`M` 357).

Deadlock is not checked: users may stop using the program, and bounded histories
end.

### 3.2 What does not hold

`branch_rekeyed` checks `SyncedHeadIsPresent` for users who use `deltix checkout`,
and finds that it fails.  The command does not save the branch in the config
(`branching.ts` 93); the next pull sees a config that differs from the active
branch, takes the difference for a renamed branch, and gives the server head of
the one to the other.  What lies below that head on the server's branch is not
asked for again.

### 3.3 Fairness

* `ApplyCommits!FairSpec`: weak fairness of the steps of a call that has begun.
  The code awaits one command after the other, and every command has a timeout.
* `DeltixSync!FairSpec`: weak fairness of the steps of a command that has begun
  (requests have a timeout), and readers pull again and again (strong
  fairness: they fetch in between).  Nothing is assumed of writers or of
  commands nobody started.
* `LocalServer!FairSpec`: weak fairness of a command's steps; `waitForPort` has a
  deadline.  Servers need not bind or exit.  `BusySpec`, for convergence only,
  adds that spawned servers try to bind, that signalled ones exit and that every
  terminal runs `start` again and again (strong fairness, since a terminal is
  busy with other commands in between).
* `Session!FairSpec`: weak fairness of the steps of a command that was started;
  requests end with an answer, an error or a timeout.

## 4. Proofs

TLAPS checks eight modules, for every value of the constants that satisfies the
`ConstantsAssumption` of the module and the assumption named in the theorem, which
leaves out faults and users with which the statement fails (section 3.1; where it
leaves out more, section 5 says so).
Each proof finds an inductive invariant, checked with TLC before it was proved,
has a lemma for each action and cites it in every theorem.

### 4.1 ApplyCommits_proofs

* `TypeSafe`: `TypeOK` is an invariant.  It is proved through `TypeInv`, which
  adds `Shape`: while a call works on the throwaway branch, that branch exists,
  and so does the target once the call has returned to it.
* `ServerOrder`, `SyncedRecorded`, `PullIsAtomic`, `Implements`: the target
  branch holds every server commit at most once and in order, the saved head is
  never ahead of the sidecar, the branch moves by whole batches, and
  `ApplyCommits` implements `PullLog`.  They assume
  `Sound == {"tornWrite", "headFails"} \cap Faults = {}`, the two faults with
  which the statements fail (section 3.1).

`InServerOrder` alone is not inductive: that a batch can be appended depends on
what the sidecar, the batch in memory and the throwaway branch have in common.
`OrderInv` says it in five parts: `SidecarInv` (the sidecar is an initial part
of the server's history and covers the saved head), `TargetInv` (the target is
ascending and holds recorded commits only), `BatchInv` (before the sidecar is
written the pending commits are the unrecorded ones up to the answer's head),
`LoopInv` (what is done and what is left of the batch) and `TempInv` (the
throwaway branch is the target plus the done part, in order).

### 4.2 Branches_proofs

`Sound` assumes one terminal, users without `plainCheckout`, `mergeElsewhere`,
`pushUnmerged`, `deleteConfigured` and `commitAnywhere`, and no `otherServer`: with
each of these six a property fails
(section 3.1), and two commands in one checkout at the same time take the
checked-out branch from each other.  The server may be offline, applies may fail
and nothing may tell what is checked out.  Nothing is assumed of
the numbers of branches, commits and throwaway names, and branches of the server
may be deleted unmerged.

* `TypeSafe`: `TypeOK`, with a checked-out branch that exists.
* `SyncedHeadSafe`: `SyncedHeadIsPresent`.
* `CommitsAreKept`: `CommitsStayReachable`.
* `CheckoutIsComplete`, `PushIsItsBranch`, `SyncEndsInPlace`:
  `RemoteCheckoutIsComplete`, `PushSendsItsBranch`, `SyncEndsOnItsBranch`, the last two
  with the exception for a throwaway or tracking branch that nothing told of.

`SyncedHeadIsPresent` says nothing of what is checked out, but the next
re-keying of the sync state depends on it.  `Placed` says what can be checked
out between two commands: the branch of the config; `origin/<branch>` of it,
which a failed fetch left and for which the re-keyed head is present as well;
or a throwaway branch that a failed rollback left, in which case nothing is
saved for the branch of the config.  The other parts of the invariant carry the
answer of the server to the write of the sync state: `AnswerInv` (what the server
answered is on `origin/<branch>` or among the commits to apply, and a branch to
fast-forward has what its tracking branch has), `SidecarInv` (a sidecar names what
`origin/<branch>` has, except while a pull advances it), `SyncedInv` (the same for
the saved head), `StepInv` and `PlaceInv` (which command is at which step, on
which branch) and `RootInv` (the `dolt init` commit).

### 4.3 WorkingTree_proofs

`Sound` leaves out schema changes
while a command runs, with which `ResetKeepsSchema` fails (section 3.1); failing
commands, statements and cleanups, the death of the CLI, rows that do not fit and
an application that writes between any two steps remain.

* `TypeSafe`, `NoScratch`: `TypeOK`, `NoStrayScratch`.
* `RowChangesTold`, `CommitIsNarrow`: `RowChangesAreTold`, `NamedCommitIsNarrow`.
* `SchemasAreKept`, `ResetIsComplete`: `ResetKeepsSchema`,
  `ResetReachesEveryTable`.

`CommitInv` says at each step of a commit which row changes the next tree may
have, those the application writes meanwhile included.  `RebuildInv` says for each
statement of `rebuildWithHeadData` which of the table and its copy exists, with
which schema and which rows; `DoneInv`, that every table that is done has HEAD's
rows or is as it was staged.  `ScratchInv` says that the copy exists at these steps only,
or was left, and that the trees which have a copy that was left agree on its schema:
otherwise a later reset would take the copy for an altered table and rebuild it.
`ShapeInv` says which command is at which step.

### 4.4 DeltixSync_proofs

For any number of clients, commits and edits, and a server that is empty or not:

* `TypeCorrect`: `TypeOK`, with no assumption.  `TypeInv` adds `ShapeOf`: branches,
  sidecars and calls number only what the client's store and the server have, and
  every history has the `dolt init` commit.
* `TakesOnce`: `ServerTakesOnce`, for users who join first and do not fetch, and
  any faults.  `OnceInv` is about the commits a push would send: `Clean` says that
  they differ from each other and that the server has them, if at all, only
  behind the saved head; a push is accepted when that head is the server's.  An
  answer that is lost leaves them behind it; a pull that recreates them moves
  `origin/<branch>` to a history with them.  `FreshInv` says that the identities of new
  commits are unused.
* `SavedHeadIsTracked`: `SyncedIsTracked`, when nobody fetches and a branch follows
  its sidecar.  `HasInv` says what `Covers` what in the steps of a pull: sidecars and
  saved head their branches, the answer the history it was applied to, and after
  the merge the branch as well; and that a push which is accepted without a base
  comes from a client without `origin/<branch>`.

### 4.5 LocalServer_proofs

* `TypeCorrect`: `TypeOK`, with no assumption: any terminals, projects and faults.
* `NothingLost`: `NoLostServer`, for one
  terminal, no lost run file and checkouts only.  `KeepInv` says that each server
  is named by its run file or known to the command that spawned it (`FiledInv`),
  and what a command has found out: before it removes or writes a run file, no
  server runs but the one it is about to record or stop (`CommandInv`).
* `OwnServersNamed`: `RunFilesNameOwnServers`, for one terminal and no other program
  on the port.  Neither the database, asked on one connection, nor the pid,
  looked up after it, names a checkout; what connects them is `PortInv`: one server
  holds the port, and one that does not hold it yet belongs to a command that
  waits for it.  `NamesInv` carries what was learnt through the command's steps.
* `NeverBlocksItself`: `PortInUseByOthers`, for one terminal and checkouts, unless a
  run file gets lost and another program takes the port as well; it needs both
  assumptions (section 3.1).  Beside other programs it follows from `KeepInv`.
  When run files get lost there is a server that no file names, and the start has to
  find it.  `FileInv` says that a run file which names a process while a server of its
  checkout runs names that server, so that a dead pid in it means that none runs;
  `PortInv`, that such a server holds the port and answers; `LookupInv` carries both
  through the steps of the command.

### 4.6 Session_proofs

* `EffectAtMostOnce`, `LogoutLeavesNoFile`: `RunsAtMostOnce`, `LogoutClears`, for any
  terminals and faults, a login or logout beside other commands included.
* `SessionSurvives`: `StoredTokenWorks`, without the two things that break it and
  with enough names for tokens.  With a server that replaces tokens the session is a
  chain, and `OneChain` says where its last link is: in the file, or with the one
  terminal that is about to store it.  `FewSessions` counts the tokens in use,
  so that the server always has a new one to give.

### 4.7 More about ApplyCommits

* `ExactCommits`, `UserRowsSurvive`: `PulledCommitIsExact`, `LocalRowsSurvive`, when
  besides `Sound` status queries do not fail open and the application does not write
  during a call.  `RowsInv` adds to `OrderInv` whose rows the working set holds at each
  step: those of an import are in tables of commits that the sidecar lacks and,
  while a call runs, in those of its current commit (`PulledInv`), so that what an earlier
  call left staged is imported again before it is committed; and no table of the batch has rows of the user once the working set
  was checked (`CleanInv`).  What the user has staged in other tables can be anything.
* `RollbackClears`: `FailedApplyLeavesNoRows`, when the rollback itself works and the
  target exists.  `RollbackInv` says in which tables rows of a call can be at which
  step; here nothing is assumed of the user, of the application or of the sidecar.

### 4.8 DeltixRows_proofs

`ServerRowsKept` and `UnmarkedSurvive`: `ServerKeepsRows` and `UnmarkedRowsSurvive`,
for any number of clients, commits and edits.  `Settled` assumes that users join
first and do not fetch, and that a branch follows its sidecar; each of the three
is needed (section 3.1), and lost answers, failed applies, conflicts and crashes
remain.

The server loses no row when its commits are `Ascending`, and a push that is taken
keeps them so when each commit it brings has the rows of the server and of the
commits before it (`Adds`, and `PushInv` once they are sent).  Whether they have is
decided by the pulls before: `Holds` says that a branch has the rows of what its
sidecar and its saved head stand for, which a three-way merge keeps only because no
side drops a row the other side has.  That takes knowing who has what from whom.
The rows of others come from the server, and every commit of the branch hands
them on (`Origins`); the client's own rows that the server has are still in the
branch, also when the answer to their push was lost (`SentStays`); a history with
another own row has the commit that inserted it (`Marks`), so that a merge sees
such a row as new and not as deleted.  `Sidecars` closes the one gap left: a merge
commit is made only when the server has something above the saved head, so a push
of it on the old base is refused.  `PullInv` carries all of it through the steps
of a pull, with the answer above everything the client has got.

`UnmarkedSurviveFetches` is `UnmarkedRowsSurvive` again, for users who fetch and with
sidecars that run ahead, where the server may lose rows and most of the above fails.
It assumes `Finishing`: users join first, no process dies, and not both of
`answerLost` and `conflicts` can happen; each of these is needed (section 3.1).
`FetchInv` follows the client's own rows only.  `TracedInv` says that wherever such
a row is, on the server or in another client's copy, the commit that inserted it is in
the branch, and that a client without a saved head has none.  `BaseInv` says that the
commits the branch shares with `origin/<branch>` have only marked ones, except
between the merge of a pull and `advanceRemoteRef`; they are the base of the next
merge, so that an unmarked row is never in it.  A merge that is left to the user
escapes the exception, and is harmless because what the server took is marked by
then (`AnswerInv`).

### 4.9 Import_proofs

For any tables and any acyclic foreign keys:

* `TopoOrderOf`: `TopoOrder(tables)` has the same tables, each once, and no table
  stands before one it refers to.  `LoopInv` is the invariant of the `while`: what is done
  and what is queued are together the tables all of whose parents are done.  A queue that
  runs empty with tables left would need a cycle among them, and each turn moves one
  table, so `Len(tables)` turns are enough.
* `ParentsAreThere`: `ParentsComeFirst`.  The steps between the order and the rows
  carry it: `NoParentLater` (no table that waits is a parent of one before it) and
  `Made` (what was in front of the command exists).
* `SourceIsCommitted`: `CommitsTheSource`, unless a table that is empty in the source is
  imported over local rows, with which it fails (section 3.1).  `Filled` says that
  what the command has passed has the rows that Dolt took of the CSV, decoded, which
  are all of them unless `--continue` was given; that these are rows of the source is
  what the two conversions do (`AdoptedOf`, `CompleteOf`).

The induction theorems of the library take an operator as a parameter.
`SetInduction` says the same of a set of numbers, through its least missing one, and
`Recursion` gives the recursive functions their equations.

### 4.10 Only model-checked

* Liveness (`CallEnds`, `CommandsEnd`, `StartsConverge`, `ReadersCatchUp`) is out of
  the prover's reach.

## 5. Not modelled

* *Binary manager*: it downloads, unpacks, renames and checks a digest.  What
  could go wrong is what the file system does between two of its calls, and no
  other part depends on their order.
* *Sync preferences*, repositories, roles, log and diff: single requests without
  local state.
* *Command line, printing, logging, process spawning, the global configuration,
  certificates*: input and output.
* `clone` is a pull into a new directory and has no actions of its own; the schema
  that a push sends with the rows of an older commit (`V` 465) has none
  either, since the sync modules have rows without a schema.
