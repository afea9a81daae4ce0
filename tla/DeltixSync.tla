----------------------------- MODULE DeltixSync -----------------------------
(***************************************************************************)
(* Several clones of one repository and the Deltix server: `deltix push`,  *)
(* `pull`, `fetch` and the commits users make, on one branch with one      *)
(* table.  ApplyCommits has the inside of applyCommits; here it is one     *)
(* step that succeeds, fails, or leaves its sidecar ahead of the branch.   *)
(*                                                                         *)
(* A commit carries the whole table, as the code exports and imports it.   *)
(* The rows of the table are named by the commit that inserted them.  A    *)
(* branch head is its history: the set of the numbers, in the client's     *)
(* object store, of the commits it reaches, with 0 for the `dolt init`     *)
(* commit; the empty set is a branch that does not exist.                  *)
(***************************************************************************)
EXTENDS Naturals, Sequences, FiniteSets

CONSTANTS
  Clients,
  Seed,       \* who made the first commit of a seeded server; not a client
  Seeded,     \* TRUE: the server's branch has a commit before any client acts
  Readers,    \* the clients whose users never commit
  MaxServer,  \* bound: commits on the server
  MaxStore,   \* bound: commits in one client's store
  MaxEdits,   \* bound: rows one user inserts
  Uses,       \* "fetch": users fetch; "earlyWork": they commit and push before a first pull
  Faults      \* "applyFails", "advanceFails", "answerLost", "conflicts", "crash"

ASSUME ConstantsAssumption ==
  /\ Seed \notin Clients /\ Seeded \in BOOLEAN /\ Readers \subseteq Clients
  /\ MaxServer \in Nat \ {0} /\ MaxStore \in Nat \ {0} /\ MaxEdits \in Nat
  /\ Uses \subseteq {"fetch", "earlyWork"}
  /\ Faults \subseteq {"applyFails", "advanceFails", "answerLost", "conflicts", "crash"}

VARIABLES
  server,    \* the server's branch: what each commit is a copy of, and its table
  store,     \* each client's Dolt commits, in the order they were made
  local,     \* the history of the client's branch
  tracking,  \* the history of origin/<branch>
  sidecar,   \* per target branch, the server commits applied to it
  synced,    \* .deltix-sync-state: position of the saved server head; 0: none
  merging,   \* the clients in the middle of a conflicting merge
  call       \* the command each client runs

vars == <<server, store, local, tracking, sidecar, synced, merging, call>>

Ids     == (Clients \cup {Seed}) \X (1..MaxStore)
Commits == [id : Ids, rows : SUBSET Ids]
Objects == [id : Ids, rows : SUBSET Ids, changed : BOOLEAN]
Froms   == {<<"none", 0>>, <<"local", 0>>} \cup ({"server"} \X (1..MaxServer))
Numbers == 0..MaxStore
Modes   == {"ff", "merge", "fetch"}
Calls   == [pc : {"idle", "push", "pushRef", "apply", "merge", "ref", "save"},
            from : Froms, batch : Seq(Commits), mode : Modes,
            todo : SUBSET (1..MaxServer), upto : 0..MaxServer, head : SUBSET Numbers]

Idle == [pc |-> "idle", from |-> <<"none", 0>>, batch |-> << >>, mode |-> "ff",
         todo |-> {}, upto |-> 0, head |-> {}]

TypeOK ==
  /\ server \in Seq(Commits) /\ Len(server) <= MaxServer
  /\ store \in [Clients -> Seq(Objects)]
  /\ \A c \in Clients : /\ Len(store[c]) <= MaxStore
                        /\ local[c] \cup tracking[c] \subseteq 0..Len(store[c])
  /\ local \in [Clients -> SUBSET Numbers]
  /\ tracking \in [Clients -> SUBSET Numbers]
  /\ sidecar \in [Clients -> [{"branch", "tracking"} -> SUBSET (1..MaxServer)]]
  /\ synced \in [Clients -> 0..Len(server)]
  /\ merging \in SUBSET Clients
  /\ call \in [Clients -> Calls]

-----------------------------------------------------------------------------
\* The members of a finite set of numbers in ascending order.
InOrder(S) == [i \in 1..Cardinality(S) |->
                 CHOOSE n \in S : Cardinality({m \in S : m <= n}) = i]

Top(h)       == CHOOSE n \in h : \A m \in h : m <= n
RowsAt(c, h)  == LET n == Top(h) IN IF n = 0 THEN {} ELSE store[c][n].rows
ServerRows    == IF server = << >> THEN {} ELSE server[Len(server)].rows
IdsIn(c, h)   == {store[c][n].id : n \in h \ {0}}
Fails(f)      == f \in Faults
Ends(c)       == call' = [call EXCEPT ![c] = Idle]
At(c, pc)     == call[c].pc = pc
Goto(c, pc)   == call' = [call EXCEPT ![c].pc = pc]

Init ==
  /\ server = IF Seeded THEN <<[id |-> <<Seed, 1>>, rows |-> {<<Seed, 1>>}]>> ELSE << >>
  /\ store    = [c \in Clients |-> << >>]
  /\ local    = [c \in Clients |-> {0}]
  /\ tracking = [c \in Clients |-> {}]
  /\ sidecar  = [c \in Clients |-> [b \in {"branch", "tracking"} |-> {}]]
  /\ synced   = [c \in Clients |-> 0]
  /\ merging  = {}
  /\ call     = [c \in Clients |-> Idle]

-----------------------------------------------------------------------------
\* The user.

\* Users who clone first wait for a first pull that completed.
Joined(c)   == synced[c] > 0 \/ "earlyWork" \in Uses
Inserted(c) == {n \in DOMAIN store[c] : <<c, n>> \in store[c][n].rows}

\* The user inserts a row and runs `deltix commit`, also while a command of
\* another terminal waits for the server.
UserCommits(c) ==
  LET n == Len(store[c]) + 1
  IN  /\ c \notin merging \cup Readers
      /\ Joined(c)
      /\ n <= MaxStore /\ Cardinality(Inserted(c)) < MaxEdits
      /\ store' = [store EXCEPT ![c] = Append(@, [id |-> <<c, n>>,
                       rows |-> RowsAt(c, local[c]) \cup {<<c, n>>}, changed |-> TRUE])]
      /\ local' = [local EXCEPT ![c] = @ \cup {n}]
      /\ UNCHANGED <<server, tracking, sidecar, synced, merging, call>>

\* The user resolves the conflicts, keeping both sides, and commits the merge.
UserResolves(c) ==
  LET n == Len(store[c]) + 1
      ours == RowsAt(c, local[c])
      all  == ours \cup RowsAt(c, tracking[c])
  IN  /\ c \in merging /\ At(c, "idle")
      /\ n <= MaxStore
      /\ store' = [store EXCEPT ![c] =
                     Append(@, [id |-> <<c, n>>, rows |-> all, changed |-> all # ours])]
      /\ local' = [local EXCEPT ![c] = @ \cup tracking[c] \cup {n}]
      /\ merging' = merging \ {c}
      /\ UNCHANGED <<server, tracking, sidecar, synced, call>>

\* `deltix pull --abort`
UserAborts(c) ==
  /\ c \in merging /\ At(c, "idle")
  /\ merging' = merging \ {c}
  /\ UNCHANGED <<server, store, local, tracking, sidecar, synced, call>>

-----------------------------------------------------------------------------
\* Mutant of RemoteHead: the push base is not sent (the code before 0.8.7).
RemoteHead_None(c) == <<"none", 0>>

\* getRemoteHead: the saved server head, else the local hash of
\* origin/<branch>, which the server does not know.
RemoteHead(c) ==
  IF synced[c] > 0 THEN <<"server", synced[c]>>
  ELSE IF tracking[c] # {} THEN <<"local", 0>> ELSE <<"none", 0>>

\* getUnpushedCommits: what origin/<branch> does not reach, without the
\* commits that change no table against their first parent.
Unpushed(c) == {n \in local[c] \ (tracking[c] \cup {0}) : store[c][n].changed}

PushCollect(c) ==
  LET ns == InOrder(Unpushed(c))
  IN  /\ At(c, "idle")
      /\ Joined(c)
      /\ ns # << >>
      /\ call' = [call EXCEPT ![c] = [Idle EXCEPT
                    !.pc = "push", !.from = RemoteHead(c),
                    !.batch = [i \in DOMAIN ns |-> [id   |-> store[c][ns[i]].id,
                                                    rows |-> store[c][ns[i]].rows]]]]
      /\ UNCHANGED <<server, store, local, tracking, sidecar, synced, merging>>

\* The server takes a push whose base is its own head, or that has no base;
\* it answers any other one with 409.
Accepts(from) == from \in {<<"none", 0>>, <<"server", Len(server)>>}

PushRequest(c) ==
  /\ At(c, "push")
  /\ \/ /\ Accepts(call[c].from)
        /\ Len(server) + Len(call[c].batch) <= MaxServer
        /\ server' = server \o call[c].batch
        /\ \/ Goto(c, "pushRef")
           \/ Fails("answerLost") /\ Ends(c)
     \/ ~Accepts(call[c].from) /\ Ends(c) /\ UNCHANGED server
  /\ UNCHANGED <<store, local, tracking, sidecar, synced, merging>>

\* advanceRemoteRef(getBranchHead): the head is read after the answer.
PushAdvance(c) ==
  /\ At(c, "pushRef")
  /\ tracking' = [tracking EXCEPT ![c] = local[c]]
  /\ Ends(c)
  /\ UNCHANGED <<server, store, local, sidecar, synced, merging>>

-----------------------------------------------------------------------------
\* The commits after `from`, or all of them when the server does not know it.
Answer(from) == IF from[1] = "server" THEN (from[2] + 1)..Len(server) ELSE DOMAIN server

\* runPull compares `from` with the local head: hashes of two different
\* spaces, unless `from` is the fallback to origin/<branch>.
Diverged(c) == \/ RemoteHead(c)[1] = "server"
               \/ RemoteHead(c)[1] = "local" /\ local[c] # tracking[c]

PullCall(c) == [Idle EXCEPT
  !.pc   = IF Answer(RemoteHead(c)) # {} THEN "apply" ELSE IF Diverged(c) THEN "merge" ELSE "save",
  !.mode = IF Diverged(c) THEN "merge" ELSE "ff",
  !.todo = Answer(RemoteHead(c)),
  !.upto = Len(server)]

\* Mutant of PullRequest: the server head is saved as soon as it is known.
PullRequest_SavesFirst(c) ==
  /\ At(c, "idle")
  /\ call' = [call EXCEPT ![c] = PullCall(c)]
  /\ synced' = [synced EXCEPT ![c] = Len(server)]
  /\ UNCHANGED <<server, store, local, tracking, sidecar, merging>>

PullRequest(c) ==
  /\ At(c, "idle")
  /\ call' = [call EXCEPT ![c] = PullCall(c)]
  /\ UNCHANGED <<server, store, local, tracking, sidecar, synced, merging>>

FetchRequest(c) ==
  /\ At(c, "idle")
  /\ "fetch" \in Uses
  /\ RemoteHead(c) # <<"none", 0>>
  /\ call' = [call EXCEPT ![c] = [Idle EXCEPT
                !.pc = IF Answer(RemoteHead(c)) # {} THEN "apply" ELSE "save",
                !.mode = "fetch",
                !.todo = Answer(RemoteHead(c)), !.upto = Len(server)]]
  /\ UNCHANGED <<server, store, local, tracking, sidecar, synced, merging>>

-----------------------------------------------------------------------------
\* Mutant of TargetOf: fetch applies to the user's branch.
TargetOf_FetchesIntoBranch(c) == IF call[c].mode = "merge" THEN "tracking" ELSE "branch"

TargetOf(c) == IF call[c].mode = "ff" THEN "branch" ELSE "tracking"
Pending(c)  == call[c].todo \ sidecar[c][TargetOf(c)]
BaseOf(c)   == IF TargetOf(c) = "branch" THEN local[c]
               ELSE IF tracking[c] = {} THEN {0} ELSE tracking[c]

\* `dolt commit` fails on a commit that changes nothing: the table of each
\* pending commit must differ from the one before it.
Recreatable(c) ==
  LET ps == InOrder(Pending(c))
  IN  \A i \in DOMAIN ps :
        server[ps[i]].rows # IF i = 1 THEN RowsAt(c, BaseOf(c)) ELSE server[ps[i - 1]].rows

\* The rows of an unfinished merge are uncommitted changes.
Refused(c) == Pending(c) # {} /\ (c \in merging \/ ~Recreatable(c))

AfterApply(c) == CASE call[c].mode = "ff"    -> "ref"
                   [] call[c].mode = "merge" -> "merge"
                   [] call[c].mode = "fetch" -> "save"

Recorded(c) == [sidecar EXCEPT ![c][TargetOf(c)] = @ \cup call[c].todo]

\* applyCommits, in one step; `head` is what it returns.
Apply(c) ==
  LET ps   == InOrder(Pending(c))
      len  == Len(store[c])
      grown == BaseOf(c) \cup {len + i : i \in DOMAIN ps}
  IN  /\ At(c, "apply")
      /\ ~Refused(c)
      /\ len + Len(ps) <= MaxStore
      /\ store' = [store EXCEPT ![c] = @ \o [i \in DOMAIN ps |->
                     [id |-> server[ps[i]].id, rows |-> server[ps[i]].rows, changed |-> TRUE]]]
      /\ IF TargetOf(c) = "branch"
         THEN local' = [local EXCEPT ![c] = grown] /\ UNCHANGED tracking
         ELSE tracking' = [tracking EXCEPT ![c] = grown] /\ UNCHANGED local
      /\ sidecar' = Recorded(c)
      /\ call' = [call EXCEPT ![c].pc = AfterApply(c), ![c].head = grown]
      /\ UNCHANGED <<server, synced, merging>>

ApplyFails(c) ==
  /\ At(c, "apply")
  /\ Refused(c) \/ Fails("applyFails")
  /\ Ends(c)
  /\ UNCHANGED <<server, store, local, tracking, sidecar, synced, merging>>

\* The sidecar is written, then `dolt branch -f` fails.
ApplyLoses(c) ==
  /\ At(c, "apply")
  /\ Fails("advanceFails") /\ ~Refused(c)
  /\ sidecar' = Recorded(c)
  /\ Ends(c)
  /\ UNCHANGED <<server, store, local, tracking, synced, merging>>

-----------------------------------------------------------------------------
\* Mutants of MergeTracking: the branch takes origin/<branch> as it is; the
\* pull stops at what it fetched.
MergeTracking_TakesTheirs(c) ==
  /\ At(c, "merge") /\ tracking[c] # {}
  /\ local' = [local EXCEPT ![c] = tracking[c]]
  /\ Goto(c, "ref")
  /\ UNCHANGED <<server, store, tracking, sidecar, synced, merging>>

MergeTracking_Skipped(c) ==
  /\ At(c, "merge") /\ Goto(c, "save")
  /\ UNCHANGED <<server, store, local, tracking, sidecar, synced, merging>>

\* `dolt merge origin/<branch>`: a three-way merge of the table's rows.
MergedRows(c) ==
  LET base   == RowsAt(c, local[c] \cap tracking[c])
      ours   == RowsAt(c, local[c])
      theirs == RowsAt(c, tracking[c])
  IN  (ours \cap theirs) \cup (ours \ base) \cup (theirs \ base)

\* mergeFromRemote: nothing new, a fast-forward or a merge commit.
MergeTracking(c) ==
  LET n == Len(store[c]) + 1
  IN  /\ At(c, "merge")
      /\ tracking[c] # {} /\ c \notin merging
      /\ \/ /\ tracking[c] \subseteq local[c]
            /\ UNCHANGED <<store, local>>
         \/ /\ local[c] \subseteq tracking[c]
            /\ local' = [local EXCEPT ![c] = tracking[c]]
            /\ UNCHANGED store
         \/ /\ ~(tracking[c] \subseteq local[c]) /\ ~(local[c] \subseteq tracking[c])
            /\ n <= MaxStore
            /\ store' = [store EXCEPT ![c] = Append(@, [id |-> <<c, n>>, rows |-> MergedRows(c),
                                       changed |-> MergedRows(c) # RowsAt(c, local[c])])]
            /\ local' = [local EXCEPT ![c] = @ \cup tracking[c] \cup {n}]
      /\ Goto(c, "ref")
      /\ UNCHANGED <<server, tracking, sidecar, synced, merging>>

\* Conflicts end the pull with the merge unfinished and nothing saved.
MergeConflicts(c) ==
  /\ At(c, "merge")
  /\ Fails("conflicts")
  /\ tracking[c] # {} /\ c \notin merging
  /\ ~(tracking[c] \subseteq local[c]) /\ ~(local[c] \subseteq tracking[c])
  /\ merging' = merging \cup {c}
  /\ Ends(c)
  /\ UNCHANGED <<server, store, local, tracking, sidecar, synced>>

\* No origin/<branch>, or the rows of an unfinished merge.
MergeFails(c) ==
  /\ At(c, "merge")
  /\ tracking[c] = {} \/ c \in merging
  /\ Ends(c)
  /\ UNCHANGED <<server, store, local, tracking, sidecar, synced, merging>>

\* advanceRemoteRef: the merged head, or what applyCommits returned.
PullAdvance(c) ==
  /\ At(c, "ref")
  /\ tracking' = [tracking EXCEPT ![c] = IF call[c].mode = "merge" THEN local[c] ELSE call[c].head]
  /\ Goto(c, "save")
  /\ UNCHANGED <<server, store, local, sidecar, synced, merging>>

\* Mutant of SaveSyncState: the position after the head is saved.
SaveSyncState_Next(c) ==
  /\ At(c, "save")
  /\ synced' = [synced EXCEPT ![c] = call[c].upto + 1]
  /\ Ends(c)
  /\ UNCHANGED <<server, store, local, tracking, sidecar, merging>>

\* saveSyncState, if the answer named a head.
SaveSyncState(c) ==
  /\ At(c, "save")
  /\ synced' = [synced EXCEPT ![c] = IF call[c].upto > 0 THEN call[c].upto ELSE @]
  /\ Ends(c)
  /\ UNCHANGED <<server, store, local, tracking, sidecar, merging>>

\* The CLI process dies, or gives up on an error, between two steps.
Crash(c) ==
  /\ ~At(c, "idle")
  /\ Fails("crash")
  /\ Ends(c)
  /\ UNCHANGED <<server, store, local, tracking, sidecar, synced, merging>>

-----------------------------------------------------------------------------
User(c) == UserCommits(c) \/ UserResolves(c) \/ UserAborts(c)
Push(c) == PushCollect(c) \/ PushRequest(c) \/ PushAdvance(c)
Pull(c) == \/ Apply(c) \/ ApplyFails(c) \/ ApplyLoses(c)
           \/ MergeTracking(c) \/ MergeConflicts(c) \/ MergeFails(c)
           \/ PullAdvance(c) \/ SaveSyncState(c)

Next == \E c \in Clients : \/ User(c) \/ Push(c) \/ Pull(c)
                           \/ PullRequest(c) \/ FetchRequest(c) \/ Crash(c)

Spec == Init /\ [][Next]_vars

\* A command that was started runs on, and readers pull again and again.
FairSpec == /\ Spec
            /\ \A c \in Clients : WF_vars(Pull(c)) /\ WF_vars(PushRequest(c)) /\ WF_vars(PushAdvance(c))
            /\ \A c \in Readers : SF_vars(PullRequest(c))

-----------------------------------------------------------------------------
\* No row that reached the server leaves it again: no push overwrites what
\* another client pushed (the push base of runPush; "No more silent data loss
\* on a shared repo").
ServerKeepsRows == [][ServerRows \subseteq ServerRows']_server

\* The server gets no commit twice, whatever answer was lost and whatever push
\* was repeated.
ServerTakesOnce ==
  \A p, q \in DOMAIN server : server[p].id = server[q].id => p = q

\* A row whose commit origin/<branch> does not reach yet stays in the table of
\* the branch, whatever is pulled and merged ("deltix pull (merges)").
OwnRows(c, h) == RowsAt(c, h) \cap {<<c, n>> : n \in Inserted(c)}

UnmarkedRowsSurvive ==
  [][\A c \in Clients :
       OwnRows(c, local[c]) \cap {<<c, n>> : n \in local[c] \ tracking[c]} \subseteq RowsAt(c, local[c])']_local

\* The saved server head never runs ahead of origin/<branch>: what the server
\* will not send again, the client has.
SyncedIsTracked ==
  \A c \in Clients : {server[p].id : p \in 1..synced[c]} \subseteq IdsIn(c, tracking[c])

\* A client that only reads ends with the rows of the server.
ReadersCatchUp ==
  \A c \in Readers : []<>(RowsAt(c, local[c]) = ServerRows)
=============================================================================
