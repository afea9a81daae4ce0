------------------------------ MODULE Branches ------------------------------
(***************************************************************************)
(* One clone with several branches: `deltix branch`, `checkout`, `merge`,  *)
(* and the sync commands as far as they depend on which branch is checked  *)
(* out.  The branch is named in three places, which this module keeps      *)
(* apart: the active branch of the Dolt repository, .deltix/config.toml    *)
(* and .deltix-sync-state.                                                 *)
(*                                                                         *)
(* Every commit changes a table of its own (DeltixSync has the rows), so a *)
(* history is a set of commits, 0 being the `dolt init` commit; the empty  *)
(* set is a branch that does not exist.                                    *)
(***************************************************************************)
EXTENDS Naturals

CONSTANTS
  Branch,      \* the names users give to branches
  Main,        \* DEFAULT_BRANCH
  Temps,       \* bound: names of throwaway branches (_deltix_pull_...)
  Terminals,   \* the terminals commands run in
  MaxOwn,      \* bound: commits of the user, numbered from 1
  MaxOthers,   \* bound: commits of others, numbered after them
  Uses,        \* the freedoms users take, each in the guard that names it
  Faults       \* see AllFaults

(***************************************************************************)
(* offline       : the Deltix server does not answer;                      *)
(* applyFails    : a command of applyCommits fails;                        *)
(* branchUnknown : neither a sql-server nor `dolt branch -a` tells what is *)
(*                 checked out;                                            *)
(* otherServer   : the sql-server of another checkout of the repository is *)
(*                 on the default port, and tells what it has checked out. *)
(***************************************************************************)
AllFaults == {"offline", "applyFails", "branchUnknown", "otherServer"}

ASSUME ConstantsAssumption ==
  /\ Main \in Branch /\ Branch \cap Temps = {}
  /\ \A b \in Branch : <<"origin", b>> \notin Branch \cup Temps  \* see Origin
  /\ MaxOwn \in Nat /\ MaxOthers \in Nat
  /\ Uses \subseteq {"plainCheckout", "mergeElsewhere", "reuseName", "pushUnmerged",
                    "deleteUnmerged", "deleteConfigured", "commitOnOrigin", "commitMeanwhile", "commitAnywhere"}
  /\ Faults \subseteq AllFaults

VARIABLES
  refs,     \* the Dolt branches: what each one reaches
  active,   \* the checked-out branch
  config,   \* the branch in .deltix/config.toml
  synced,   \* .deltix-sync-state: a branch and the server's head; no head: no file
  sidecar,  \* per branch, the server commits applied to it
  server,   \* the server's branches
  made,     \* how many commits the user and the others made
  call      \* the command each terminal runs

vars == <<refs, active, config, synced, sidecar, server, made, call>>
remote == <<server, made>>
names  == <<config, synced>>

Origin(b) == <<"origin", b>>
Refs      == Branch \cup Temps \cup {Origin(b) : b \in Branch}
Histories == SUBSET (0..(MaxOwn + MaxOthers))
Checkouts == {"checkout", "branch checkout"}
Syncs     == {"pull", "fetch", "push"}
Calls == [pc : {"idle", "ask", "switch", "request", "apply", "import", "merge",
                "advance", "save", "send", "mark"},
          cmd : Checkouts \cup Syncs \cup {"none"}, name : Refs,
          source : {"local", "origin", "server", "created"},
          todo : Histories, upto : Histories, head : Histories,
          target : Refs, temp : Refs]
Idle == [pc |-> "idle", cmd |-> "none", name |-> Main, source |-> "local",
         todo |-> {}, upto |-> {}, head |-> {}, target |-> Main, temp |-> Main]

-----------------------------------------------------------------------------
Exists(r)   == refs[r] # {}
Tracking(r) == IF r \in Branch THEN refs[Origin(r)] ELSE {}
At(t, pc)   == call[t].pc = pc
Step(t, pc) == call' = [call EXCEPT ![t].pc = pc]
Ends(t)     == call' = [call EXCEPT ![t] = Idle]
Fails(f)    == f \in Faults

\* Whether the server answers.  tryLocalFallback: when it does not, or wants
\* another login, the local repository does what it can.
Online == {TRUE} \cup {FALSE : f \in {"offline"} \cap Faults}

\* The answers of getCurrentBranch but null, and resolveServerIdentity.
CurrentBranch == {active} \cup (IF Fails("otherServer") THEN Branch ELSE {})
Remembered == config

\* The branch reconcileBranch goes on with: on null the config's.
Reconciled == CurrentBranch \cup (IF Fails("branchUnknown") THEN {Remembered} ELSE {})

\* Whether dolt sql-server is up, which the user may change at any time
\* (LocalServer).
Serving == BOOLEAN

\* A local clone of a server whose default branch has no commits yet.
Init ==
  /\ refs = [r \in Refs |-> IF r = Main THEN {0} ELSE {}]
  /\ active = Main /\ config = Main
  /\ synced = [branch |-> Main, head |-> {}]
  /\ sidecar = [r \in Refs |-> {}]
  /\ server = [b \in Branch |-> IF b = Main THEN {0} ELSE {}]
  /\ made = [own |-> 0, others |-> 0]
  /\ call = [t \in Terminals |-> Idle]

-----------------------------------------------------------------------------
AllIdle == \A t \in Terminals : At(t, "idle")

\* The user, the local server, and the other users of the Deltix server.

UserCommits ==
  /\ IF AllIdle THEN active \in Branch \/ "commitOnOrigin" \in Uses
                ELSE "commitMeanwhile" \in Uses /\ (active \in Branch \/ "commitAnywhere" \in Uses)
  /\ made.own < MaxOwn
  /\ made' = [made EXCEPT !.own = @ + 1]
  /\ refs' = [refs EXCEPT ![active] = @ \cup {made'.own}]
  /\ UNCHANGED <<active, names, sidecar, server, call>>

\* Others act whenever it can matter: their steps commute with the steps of
\* a command that do not read the server.
OthersMayAct == \E t \in Terminals : call[t].pc \in {"idle", "send"}

OthersPush(b) ==
  /\ OthersMayAct
  /\ server[b] # {} /\ made.others < MaxOthers
  /\ made' = [made EXCEPT !.others = @ + 1]
  /\ server' = [server EXCEPT ![b] = @ \cup {MaxOwn + made'.others}]
  /\ UNCHANGED <<refs, active, names, sidecar, call>>

\* They create b from a (Merges has the merges of branches of the server).
OthersBranch(a, b) ==
  /\ OthersMayAct
  /\ server[a] # {} /\ server[b] = {}
  /\ server' = [server EXCEPT ![b] = server[a]]
  /\ UNCHANGED <<refs, active, names, sidecar, made, call>>

-----------------------------------------------------------------------------
\* createBranch: the new branch starts at the active one.
NewBranch(b) == refs' = [refs EXCEPT ![b] = refs[active]]

\* `deltix branch create`: locally; the first push creates it on the server.
CreatesBranch(t, b) ==
  /\ At(t, "idle")
  /\ ~Exists(b)
  /\ "reuseName" \in Uses \/ (synced.branch # b /\ sidecar[b] = {} /\ ~Exists(Origin(b)))
  /\ NewBranch(b)
  /\ UNCHANGED <<active, names, sidecar, remote, call>>

\* Mutant of DeletesBranch: the active branch may be deleted.
DeletesBranch_Active(t, b) == \E serving \in Serving :
  /\ At(t, "idle") /\ b # Main /\ Exists(b)
  /\ refs' = [refs EXCEPT ![b] = {}]
  /\ UNCHANGED <<active, names, sidecar, remote, call>>

DeletesOnServer(b) ==
  /\ server[b] # {}
  /\ "deleteUnmerged" \in Uses \/ server[b] \subseteq server[Main]
  /\ server' = [server EXCEPT ![b] = {}]

\* deleteBranch: with -D through a running sql-server, else with -d, which
\* refuses a branch that is not merged.
DeletesHere(b, serving) ==
  /\ Exists(b) /\ b # active
  /\ b # config \/ "deleteConfigured" \in Uses
  /\ serving \/ refs[b] \subseteq refs[active]
  /\ refs' = [refs EXCEPT ![b] = {}]

\* `deltix branch delete`: on the server, or else locally.
DeletesBranch(t, b) == \E online \in Online, serving \in Serving :
  /\ At(t, "idle")
  /\ b # Main
  /\ IF online THEN DeletesOnServer(b) /\ UNCHANGED refs
               ELSE DeletesHere(b, serving) /\ UNCHANGED server
  /\ UNCHANGED <<active, names, sidecar, made, call>>

\* Mutant of Landing: `checkout -b` without the start point (issue 57).
Landing_AtHead(b) == IF Exists(b) THEN refs[b] ELSE refs[active]

\* checkoutBranch: a branch that does not exist starts at origin/<b>, or else
\* at the active branch.
Landing(b) == IF Exists(b) THEN refs[b]
              ELSE IF Tracking(b) # {} THEN Tracking(b) ELSE refs[active]

MergesOnServer(a, b) ==
  /\ server[a] # {} /\ server[b] # {}
  /\ server' = [server EXCEPT ![b] = @ \cup server[a]]

\* mergeBranches: in a session of the sql-server, which leaves the active
\* branch alone, or with a checkout of the target.
MergesHere(a, b, serving) ==
  /\ b = active \/ "mergeElsewhere" \in Uses
  /\ Exists(a)
  /\ serving => Exists(b)
  /\ refs' = [refs EXCEPT ![b] = Landing(b) \cup refs[a]]
  /\ active' = IF serving THEN active ELSE b

\* `deltix merge`: on the server, or else locally.
Merges(t, a, b) == \E online \in Online, serving \in Serving :
  /\ At(t, "idle")
  /\ IF online THEN MergesOnServer(a, b) /\ UNCHANGED <<refs, active>>
               ELSE MergesHere(a, b, serving) /\ UNCHANGED server
  /\ UNCHANGED <<names, sidecar, made, call>>

-----------------------------------------------------------------------------
\* checkoutBranchLocalFirst

\* listBranches decides where the branch comes from.
Source(b) == IF Exists(b) THEN "local" ELSE IF Exists(Origin(b)) THEN "origin" ELSE "server"

CheckoutBegins(t, b, cmd) ==
  /\ At(t, "idle")
  /\ cmd = "branch checkout" \/ "plainCheckout" \in Uses
  /\ call' = [call EXCEPT ![t] = [Idle EXCEPT
                !.pc = IF Source(b) = "server" THEN "ask" ELSE "switch",
                !.cmd = cmd, !.name = b, !.source = Source(b)]]
  /\ UNCHANGED <<refs, active, names, sidecar, remote>>

\* The server's branches and the whole history of this one; any error, and
\* the branch is created at the active one.
CheckoutAsks(t) == \E online \in Online :
  /\ At(t, "ask")
  /\ LET b    == call[t].name
         todo == server[b] \ {0}
     IN  call' = [call EXCEPT ![t] =
           IF online /\ server[b] # {}
           THEN [@ EXCEPT !.pc = IF todo = {} THEN "save" ELSE "apply",
                          !.todo = todo, !.upto = server[b], !.target = Origin(b)]
           ELSE [@ EXCEPT !.pc = "switch", !.source = "created"]]
  /\ UNCHANGED <<refs, active, names, sidecar, remote>>

\* Mutant of Switch: `deltix branch checkout` leaves the config alone.
Switch_LeavesConfig(t) ==
  /\ At(t, "switch")
  /\ refs' = [refs EXCEPT ![call[t].name] = Landing(call[t].name)]
  /\ active' = call[t].name
  /\ Ends(t)
  /\ UNCHANGED <<names, sidecar, remote>>

\* LocalProjectService.setBranch.
SetBranch(b) == config' = b

\* `deltix branch checkout` writes the config, `deltix checkout` does not (and
\* so a crash before the write is a `deltix checkout`).
Persists(cmd) == cmd = "branch checkout"

\* checkout(), at the end of a checkout and of a fetch; around a running
\* server, which is stopped and started again.
Switch(t) ==
  LET b == call[t].name
  IN  /\ At(t, "switch")
      /\ refs' = [refs EXCEPT ![b] = Landing(b)]
      /\ active' = b
      /\ IF Persists(call[t].cmd) THEN SetBranch(b) ELSE UNCHANGED config
      /\ Ends(t)
      /\ UNCHANGED <<synced, sidecar, remote>>

-----------------------------------------------------------------------------
\* Mutant of SyncBegins: always the default branch, as before 0.8.8.
SyncBegins_OnMain(t, cmd) ==
  /\ At(t, "idle")
  /\ call' = [call EXCEPT ![t] = [Idle EXCEPT
                !.pc = IF cmd = "push" THEN "send" ELSE "request", !.cmd = cmd, !.name = Main]]
  /\ UNCHANGED <<refs, active, names, sidecar, remote>>

\* renameSyncStateBranch.
Rekeyed(old, new) == IF synced.branch = old THEN [synced EXCEPT !.branch = new] ELSE synced

\* reconcileBranch: the branch that is checked out wins over the config, and
\* the sync state of the config's branch becomes that of the other one.
SyncBegins(t, cmd) == \E b \in Reconciled :
  /\ At(t, "idle")
  /\ cmd = "push" => "pushUnmerged" \in Uses \/ Tracking(b) \subseteq refs[b]
  /\ SetBranch(b)
  /\ synced' = Rekeyed(Remembered, b)
  /\ call' = [call EXCEPT ![t] = [Idle EXCEPT
                !.pc = IF cmd = "push" THEN "send" ELSE "request", !.cmd = cmd, !.name = b]]
  /\ UNCHANGED <<refs, active, sidecar, remote>>

\* getRemoteHead: the saved head if it is this branch's.
Knows(r)  == synced.branch = r /\ synced.head # {}
HasFrom(r) == Knows(r) \/ Tracking(r) # {}
OnServer(r) == r \in Branch /\ server[r] # {}

\* The commits after the saved head, or all of them when the server cannot
\* reach it from the branch.
Answer(r) == IF Knows(r) /\ synced.head \subseteq server[r]
             THEN server[r] \ synced.head ELSE server[r] \ {0}

Diverged(r) == Exists(r) /\ (Knows(r) \/ (Tracking(r) # {} /\ refs[r] # Tracking(r)))

\* runPull and runFetch up to the answer of the server, which has no branch
\* origin/<b> or _deltix_pull_....
Request(t) == \E online \in Online :
  LET r == call[t].name
      pull == call[t].cmd = "pull"
      merge == pull /\ Diverged(r)
      next == IF Answer(r) # {} THEN "apply" ELSE IF merge THEN "merge" ELSE "save"
  IN  /\ At(t, "request")
      /\ IF online /\ OnServer(r) /\ (pull \/ HasFrom(r))
         THEN call' = [call EXCEPT ![t] = [@ EXCEPT
                !.pc = next, !.todo = Answer(r), !.upto = server[r],
                !.target = IF pull /\ ~merge THEN r ELSE Origin(r)]]
         ELSE Ends(t)
      /\ UNCHANGED <<refs, active, names, sidecar, remote>>

-----------------------------------------------------------------------------
\* applyCommits (ApplyCommits has its inside): a throwaway branch at the
\* target is checked out, the commits land on what is checked out, and the
\* target moves to the throwaway branch.

Pending(t) == call[t].todo \ sidecar[call[t].target]
BaseOf(r)  == IF Exists(r) THEN refs[r] ELSE {0}

\* A failed block of checkoutBranchLocalFirst falls through to the checkout.
GivesUp(t) == IF call[t].cmd \in Checkouts
              THEN call' = [call EXCEPT ![t].pc = "switch", ![t].source = "created"]
              ELSE Ends(t)

\* Mutant of ApplyBegins: the replay starts from the root commit.
ApplyBegins_AtRoot(t) == \E temp \in Temps :
  /\ At(t, "apply") /\ ~Exists(temp)
  /\ refs' = [refs EXCEPT ![temp] = {0}]
  /\ active' = temp
  /\ call' = [call EXCEPT ![t].pc = "import", ![t].temp = temp]
  /\ UNCHANGED <<names, sidecar, remote>>

\* `dolt checkout` refuses to work next to a running sql-server, and the new
\* throwaway branch stays.
ApplyBegins(t) == \E temp \in Temps, serving \in Serving :
  /\ At(t, "apply")
  /\ ~Exists(temp)
  /\ refs' = [refs EXCEPT ![temp] = BaseOf(call[t].target)]
  /\ IF serving
     THEN GivesUp(t) /\ UNCHANGED active
     ELSE /\ active' = temp
          /\ call' = [call EXCEPT ![t].pc = "import", ![t].temp = temp]
  /\ UNCHANGED <<names, sidecar, remote>>

AfterApply(t) == IF call[t].cmd # "pull" THEN "save"
                 ELSE IF call[t].target = call[t].name THEN "advance" ELSE "merge"

ApplyFinishes(t) ==
  LET c  == call[t]
      on == [refs EXCEPT ![active] = @ \cup Pending(t)]
  IN  /\ At(t, "import")
      /\ refs' = [on EXCEPT ![c.target] = on[c.temp], ![c.temp] = {}]
      /\ active' = c.target
      /\ sidecar' = [sidecar EXCEPT ![c.target] = @ \cup c.todo]
      /\ call' = [call EXCEPT ![t].pc = AfterApply(t), ![t].head = on[c.temp]]
      /\ UNCHANGED <<names, remote>>

\* After some of the commits.  The rollback checks out the target and drops
\* the throwaway branch, or stops because there is no target yet.
ApplyFails(t) == \E done \in SUBSET Pending(t) :
  LET c == call[t]
  IN  /\ At(t, "import")
      /\ Fails("applyFails")
      /\ IF Exists(c.target)
         THEN refs' = [refs EXCEPT ![c.temp] = {}] /\ active' = c.target
         ELSE refs' = [refs EXCEPT ![active] = @ \cup done] /\ UNCHANGED active
      /\ GivesUp(t)
      /\ UNCHANGED <<names, sidecar, remote>>

\* mergeFromRemote; without origin/<b> there is nothing to merge.
MergeTracking(t) ==
  LET b == call[t].name
  IN  /\ At(t, "merge")
      /\ IF Exists(Origin(b))
         THEN /\ refs' = [refs EXCEPT ![b] = Landing(b) \cup Tracking(b)]
              /\ active' = b
              /\ call' = [call EXCEPT ![t].pc = "advance", ![t].head = refs'[b]]
         ELSE Ends(t) /\ UNCHANGED <<refs, active>>
      /\ UNCHANGED <<names, sidecar, remote>>

AdvanceTracking(t) ==
  /\ At(t, "advance")
  /\ refs' = [refs EXCEPT ![Origin(call[t].name)] = call[t].head]
  /\ Step(t, "save")
  /\ UNCHANGED <<active, names, sidecar, remote>>

\* Mutant of AfterSave: the fetch does not return to the branch.
AfterSave_StaysOnOrigin(t) == IF call[t].cmd \in Checkouts THEN "switch" ELSE "idle"

\* A fetch that applied something has to return to the branch.
AfterSave(t) == IF call[t].cmd \in Checkouts \/ (call[t].cmd = "fetch" /\ call[t].todo # {})
                THEN "switch" ELSE "idle"

SaveSyncState(t) ==
  /\ At(t, "save")
  /\ synced' = [branch |-> call[t].name, head |-> call[t].upto]
  /\ IF AfterSave(t) = "idle" THEN Ends(t) ELSE Step(t, AfterSave(t))
  /\ UNCHANGED <<refs, active, config, sidecar, remote>>

-----------------------------------------------------------------------------
\* runPush.  getUnpushedCommits reads the log of what is checked out; what the
\* server gets has a name of the user's (pushes of others are left out).
PushCollects(t) ==
  LET b     == call[t].name
      batch == refs[active] \ (Tracking(b) \cup {0})
  IN  /\ At(t, "send")
      /\ call[t].todo = {}
      /\ IF b \in Branch /\ batch # {}
         THEN call' = [call EXCEPT ![t].todo = batch]
         ELSE Ends(t)
      /\ UNCHANGED <<refs, active, names, sidecar, remote>>

\* The first push of a branch creates it; a push must name the server's head.
Accepts(b) == IF Knows(b) THEN synced.head = server[b] ELSE Tracking(b) = {}

PushSends(t) == \E online \in Online :
  LET b == call[t].name
  IN  /\ At(t, "send")
      /\ call[t].todo # {}
      /\ IF online /\ Accepts(b)
         THEN server' = [server EXCEPT ![b] = @ \cup {0} \cup call[t].todo] /\ Step(t, "mark")
         ELSE UNCHANGED server /\ Ends(t)
      /\ UNCHANGED <<refs, active, names, sidecar, made>>

PushMarks(t) ==
  /\ At(t, "mark")
  /\ refs' = [refs EXCEPT ![Origin(call[t].name)] = IF Exists(call[t].name) THEN refs[call[t].name] ELSE @]
  /\ Ends(t)
  /\ UNCHANGED <<active, names, sidecar, remote>>

-----------------------------------------------------------------------------
World == \/ UserCommits
         \/ \E b \in Branch : OthersPush(b)
         \/ \E a, b \in Branch : OthersBranch(a, b)

Command(t) ==
  \/ \E b \in Branch : CreatesBranch(t, b) \/ DeletesBranch(t, b)
  \/ \E a, b \in Branch : Merges(t, a, b)
  \/ \E b \in Branch, cmd \in Checkouts : CheckoutBegins(t, b, cmd)
  \/ \E cmd \in Syncs : SyncBegins(t, cmd)
  \/ CheckoutAsks(t) \/ Switch(t)
  \/ Request(t) \/ ApplyBegins(t) \/ ApplyFinishes(t) \/ ApplyFails(t)
  \/ MergeTracking(t) \/ AdvanceTracking(t) \/ SaveSyncState(t)
  \/ PushCollects(t) \/ PushSends(t) \/ PushMarks(t)

Next == World \/ \E t \in Terminals : Command(t)
Spec == Init /\ [][Next]_vars

-----------------------------------------------------------------------------
TypeOK ==
  /\ refs \in [Refs -> Histories]
  /\ active \in Refs /\ Exists(active)
  /\ config \in Refs
  /\ synced \in [branch : Refs, head : Histories]
  /\ sidecar \in [Refs -> Histories]
  /\ server \in [Branch -> Histories]
  /\ made \in [own : 0..MaxOwn, others : 0..MaxOthers]
  /\ call \in [Terminals -> Calls]

\* The head saved for a branch is one the clone has: the server will not send
\* again what it covers (readSyncState: "the persisted server-head hash for
\* `branch` (or `null` if never synced)").
SyncedHeadIsPresent ==
  LET b == synced.branch IN synced.head \subseteq refs[b] \cup Tracking(b) \cup {0}

\* No commit is lost: whatever is fetched, merged, checked out or rolled back,
\* it stays on some branch of the clone or of the server.  Only a deletion may
\* lose it (branches of the server may be deleted by anyone).
Known == UNION {refs[r] : r \in Refs} \cup UNION {server[b] : b \in Branch}

CommitsStayReachable ==
  [][Known \subseteq Known' \/ \E t \in Terminals, b \in Branch : DeletesBranch(t, b)]_<<refs, server>>

\* A checkout that reports origin or the server as its source leaves a branch
\* with all that origin/<b> has, and all that the server had when it was asked
\* ("remote branch without local branch", issue 57).
RemoteCheckoutIsComplete ==
  [][\A t \in Terminals :
       At(t, "switch") /\ call[t].source \in {"origin", "server"} /\ call'[t] = Idle
         => call[t].upto \cup Tracking(call[t].name) \subseteq refs'[call[t].name] \cup {0}]_call

\* What a push adds to a branch of the server is on the branch of that name
\* here, whichever branch the config remembers; or, when nothing told the push
\* that a failed rollback had left a throwaway branch checked out, on that one.
PushSendsItsBranch ==
  [][\A t \in Terminals : At(t, "send") /\ call'[t].pc = "mark" =>
       server'[call[t].name] \subseteq
         server[call[t].name] \cup refs[call[t].name] \cup (IF active \in Temps THEN refs[active] ELSE {})]_server

\* A pull or fetch that came to its end has the branch it worked on checked
\* out, and the config names it.  One that had nothing to apply, and was not
\* told what is checked out, may leave there what a failed call had left.
SyncEndsOnItsBranch ==
  [][\A t \in Terminals :
       call[t].cmd \in {"pull", "fetch"} /\ call[t].pc \in {"save", "switch"} /\ call'[t] = Idle
         => /\ config' = call[t].name
            /\ active' = call[t].name \/ (call[t].todo = {} /\ active' \notin Branch)]_call
=============================================================================
