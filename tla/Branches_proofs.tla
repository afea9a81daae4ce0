-------------------------- MODULE Branches_proofs ---------------------------
(***************************************************************************)
(* Theorems about Branches, for every number of branches, commits and      *)
(* throwaway names.                                                        *)
(***************************************************************************)
EXTENDS Branches, TLAPS

\* What the theorems assume: one terminal, users without the freedoms that
\* break the properties, and no other checkout's sql-server that answers for this
\* one.  The question what is checked out may stay without an answer.
Sound ==
  /\ \A t, u \in Terminals : t = u
  /\ Uses \cap {"plainCheckout", "mergeElsewhere", "pushUnmerged", "deleteConfigured", "commitAnywhere"} = {}
  /\ "otherServer" \notin Faults

Applying == {"apply", "import"}
Root     == {0}

-----------------------------------------------------------------------------
\* Which command is at which step, and which names it has.
StepInv(t) == LET c == call[t] IN
  /\ c.pc = "idle" => c = Idle
  /\ c.cmd # "checkout"
  /\ c.pc = "ask" => c.cmd \in Checkouts
  /\ c.pc = "request" => c.cmd \in {"pull", "fetch"}
  /\ c.pc \in Applying \cup {"save"} => c.cmd \in Checkouts \cup {"pull", "fetch"}
  /\ c.pc \in {"merge", "advance"} => c.cmd = "pull"
  /\ c.pc = "switch" => c.cmd \in Checkouts \cup {"fetch"}
  /\ c.pc \in {"send", "mark"} => c.cmd = "push"
  /\ c.cmd \in Checkouts \/ c.pc \notin {"idle", "request", "send"} \/ (c.pc = "send" /\ c.todo # {})
       => c.name \in Branch
  /\ c.pc \in Applying => /\ c.target \in {c.name, Origin(c.name)}
                          /\ c.target = c.name => c.cmd = "pull"
  /\ c.pc \in Applying => c.todo # {}
  /\ c.pc = "import" => c.temp \in Temps
  /\ c.cmd \notin Checkouts => c.source = "local"

\* What is checked out between commands: the branch of the config, or what a
\* failed fetch left.
Placed ==
  /\ Exists(config)
  /\ \/ active = config
     \/ config \in Branch /\ active = Origin(config)
     \/ active \in Temps /\ (synced.branch = config => synced.head \subseteq Root)

\* Which branch is checked out, and that a sync runs on the branch of the
\* config while a checkout creates the branch it goes to.  A sync that was not
\* told what is checked out starts from any place.
PlaceInv(t) == LET c == call[t] IN
  /\ c.cmd \in Syncs => config = c.name /\ Exists(c.name)
  /\ c.cmd \in Checkouts /\ (c.pc # "switch" \/ c.source \in {"origin", "server"}) /\ c.source # "local"
       => ~Exists(c.name)
  /\ c.pc \in {"idle", "request", "merge", "send", "mark"} => Placed
  /\ c.pc = "apply" /\ c.cmd \in Syncs => Placed
  /\ c.pc = "advance" => active = c.name
  /\ c.pc = "import" => active = c.temp /\ refs[c.temp] = BaseOf(c.target)
  /\ c.pc = "save" /\ (c.cmd = "pull" \/ (c.cmd = "fetch" /\ c.todo = {})) =>
       \/ active = c.name
       \/ c.todo = {} /\ (active = Origin(c.name) \/ (active \in Temps /\ c.upto \subseteq Root))

\* What the server answered is in the branch, or among the commits to apply.
AnswerInv(t) == LET c == call[t] IN
  /\ c.pc \in Applying /\ c.target = Origin(c.name) => c.upto \subseteq c.todo \cup Tracking(c.name) \cup Root
  /\ c.pc \in Applying /\ c.target = c.name =>
       /\ c.upto \subseteq c.todo \cup Root
       /\ Tracking(c.name) \subseteq refs[c.name] /\ sidecar[c.name] \subseteq refs[c.name]
  /\ c.pc \in {"merge", "save"} => c.upto \subseteq Tracking(c.name) \cup Root
  /\ c.pc = "advance" => c.upto \cup Tracking(c.name) \cup sidecar[c.name] \subseteq c.head \cup Root /\ 0 \in c.head
  /\ c.pc = "switch" /\ c.source \in {"origin", "server"} => c.upto \subseteq Tracking(c.name) \cup Root
  /\ c.pc \in {"send", "mark"} => Tracking(c.name) \subseteq refs[c.name]
  /\ c.pc = "send" => c.todo \subseteq refs[c.name] \cup (IF active \in Temps THEN refs[active] ELSE {})

\* The sidecar of a branch names what origin/<branch> has, except while a pull
\* moves it there.
SidecarInv ==
  \A b \in Branch :
    /\ sidecar[Origin(b)] \subseteq refs[Origin(b)]
    /\ sidecar[b] \subseteq Tracking(b) \/ \E t \in Terminals : call[t].pc = "advance" /\ call[t].name = b

RootInv == \A r \in Refs : Exists(r) => 0 \in refs[r]

\* What a saved head is covered by: origin/<branch>, or the odd branch itself
\* that a failed fetch left checked out.
Home(r) == IF r \in Branch THEN refs[Origin(r)] ELSE IF r \in Temps THEN {} ELSE refs[r]
SyncedInv == synced.head \subseteq Home(synced.branch) \cup Root

IInv ==
  /\ TypeOK /\ SidecarInv /\ RootInv /\ SyncedInv
  /\ \A t \in Terminals : StepInv(t) /\ PlaceInv(t) /\ AnswerInv(t)

-----------------------------------------------------------------------------
\* The names of branches differ.
LEMMA Names ==
  /\ Branch \subseteq Refs /\ Temps \subseteq Refs /\ Main \in Branch
  /\ \A b \in Branch : Origin(b) \in Refs /\ Origin(b) \notin Branch /\ Origin(b) \notin Temps
  /\ \A b : b \in Branch => b \notin Temps
  /\ \A a, b : Origin(a) = Origin(b) => a = b
  /\ \A r \in Refs : r \in Branch \/ r \in Temps \/ \E b \in Branch : r = Origin(b)
BY ConstantsAssumption DEF Refs, Origin

LEMMA HistoryOps ==
  /\ Root \in Histories /\ {} \in Histories
  /\ \A g, h \in Histories : g \cup h \in Histories /\ g \ h \in Histories
  /\ \A g \in Histories : \A s : g \ s \in Histories
  /\ \A g \in Histories : \A s \in SUBSET g : s \in Histories
<1>1. 0 \in 0..(MaxOwn + MaxOthers)
  BY ConstantsAssumption
<1> QED
  BY <1>1 DEF Histories, Root

LEMMA IdleCall == Idle \in Calls
BY Names, HistoryOps DEF Idle, Calls

\* A ref that is written, and the others.
LEMMA WriteRef ==
  ASSUME refs \in [Refs -> Histories], NEW r \in Refs, NEW h \in Histories, refs' = [refs EXCEPT ![r] = h]
  PROVE  refs' \in [Refs -> Histories] /\ refs'[r] = h /\ \A q \in Refs \ {r} : refs'[q] = refs[q]
OBVIOUS

LEMMA InitInv == Init => IInv
<1> SUFFICES ASSUME Init PROVE IInv
  OBVIOUS
<1>1. TypeOK
  BY Names, HistoryOps, IdleCall, ConstantsAssumption DEF Init, TypeOK, Exists, Root
<1>2. SidecarInv /\ RootInv /\ SyncedInv
  BY Names DEF Init, SidecarInv, RootInv, SyncedInv, Exists, Tracking
<1>3. ASSUME NEW t \in Terminals PROVE StepInv(t) /\ PlaceInv(t) /\ AnswerInv(t)
  <2>1. call[t] = Idle /\ Placed
    BY <1>3, Names DEF Init, Placed, Exists
  <2> QED
    BY <2>1 DEF StepInv, PlaceInv, AnswerInv, Idle, Applying, Checkouts, Syncs
<1> QED
  BY <1>1, <1>2, <1>3 DEF IInv

\* The end of a command, and the steps between commands.
LEMMA IdleInv ==
  ASSUME IInv, Sound, NEW t \in Terminals, call[t].pc # "advance", call'[t] = Idle,
         (TypeOK /\ RootInv /\ SyncedInv /\ Placed)', UNCHANGED sidecar,
         \A r \in Refs \ (Branch \cup Temps) : refs[r] \subseteq refs'[r]
  PROVE  IInv'
<1>1. \A u \in Terminals : u = t
  BY DEF Sound
<1>2. SidecarInv'
  BY <1>1, Names DEF IInv, SidecarInv, Tracking
<1>3. ASSUME NEW u \in Terminals PROVE (StepInv(u) /\ PlaceInv(u) /\ AnswerInv(u))'
  <2>1. call'[u] = Idle
    BY <1>1
  <2>2. StepInv(u)'
    BY <2>1, Names DEF StepInv, Idle, Applying, Checkouts
  <2>3. PlaceInv(u)'
    BY <2>1 DEF PlaceInv, Idle, Checkouts, Syncs
  <2>4. AnswerInv(u)'
    BY <2>1 DEF AnswerInv, Idle, Applying
  <2> QED
    BY <2>2, <2>3, <2>4
<1> QED
  BY <1>2, <1>3 DEF IInv

-----------------------------------------------------------------------------
\* The user, the local server and the other users.

LEMMA UserCommitsInv ==
  ASSUME IInv, Sound, UserCommits
  PROVE  IInv'
<1> USE DEF IInv
<1>1. active \in Refs /\ Exists(active) /\ made' \in [own : 0..MaxOwn, others : 0..MaxOthers]
  BY ConstantsAssumption DEF UserCommits, TypeOK
<1>2. refs[active] \cup {made'.own} \in Histories
  <2>1. made'.own \in 0..(MaxOwn + MaxOthers)
    BY <1>1, ConstantsAssumption
  <2> QED
    BY <1>1, <2>1 DEF TypeOK, Histories
<1>3. /\ refs' \in [Refs -> Histories] /\ refs'[active] = refs[active] \cup {made'.own}
      /\ \A r \in Refs \ {active} : refs'[r] = refs[r]
  BY <1>1, <1>2, WriteRef DEF UserCommits, TypeOK
<1>4. UNCHANGED <<active, config, synced, sidecar, server, call>>
  BY DEF UserCommits, names
<1>5. (TypeOK /\ RootInv)'
  BY <1>1, <1>3, <1>4 DEF TypeOK, RootInv, Exists
<1>6. SyncedInv'
  <2>1. Home(synced.branch) \subseteq Home(synced.branch)'
    BY <1>1, <1>3, <1>4, Names DEF Home, TypeOK
  <2> QED
    BY <1>4, <2>1 DEF SyncedInv
<1>7. CASE AllIdle
  <2>1. ASSUME NEW t \in Terminals PROVE IInv'
    <3>1. call[t] = Idle /\ Placed
      BY <1>7, <2>1 DEF AllIdle, At, StepInv, PlaceInv
    <3>2. Placed'
      BY <1>1, <1>3, <1>4, <3>1 DEF Placed, Exists, TypeOK
    <3>3. \A r \in Refs : refs[r] \subseteq refs'[r]
      BY <1>3
    <3>4. call[t].pc # "advance" /\ call'[t] = Idle
      BY <1>4, <3>1 DEF Idle
    <3> QED
      BY <1>4, <1>5, <1>6, <2>1, <3>2, <3>3, <3>4, IdleInv
  <2>2. CASE Terminals = {}
    BY <1>3, <1>4, <1>5, <1>6, <2>2, Names DEF SidecarInv, Tracking
  <2> QED
    BY <2>1, <2>2
<1>8. CASE ~AllIdle
  <2>1. active \in Branch
    BY <1>8 DEF UserCommits, Sound
  <2>2. \A r \in Refs : (Exists(r) <=> Exists(r)') /\ (Tracking(r)' = Tracking(r)) /\ refs[r] \subseteq refs'[r]
    BY <1>1, <1>3, <2>1, Names DEF Exists, Tracking
  <2>3. SidecarInv'
    BY <1>4, <2>2, Names DEF SidecarInv
  <2>4. ASSUME NEW t \in Terminals PROVE (StepInv(t) /\ PlaceInv(t) /\ AnswerInv(t))'
    <3>1. call[t] \in Calls /\ call[t].name \in Refs /\ call[t].temp \in Refs /\ call[t].target \in Refs
      BY <2>4 DEF TypeOK, Calls
    <3>2. StepInv(t)'
      BY <1>4 DEF StepInv
    <3>3. call[t].pc # "import"
      BY <2>1, Names DEF StepInv, PlaceInv
    <3>4. PlaceInv(t)'
      <4>1. config \in Refs /\ (Placed => Placed')
        BY <1>4, <2>2 DEF Placed, TypeOK
      <4> QED
        BY <1>4, <2>2, <3>1, <3>3, <4>1 DEF PlaceInv
    <3>5. AnswerInv(t)'
      <4>1. refs[active] \subseteq refs'[active] /\ refs[call[t].name] \subseteq refs'[call[t].name]
        BY <1>1, <2>2, <3>1
      <4>2. Tracking(call[t].name)' = Tracking(call[t].name)
        BY <1>4, <2>2, <3>1 DEF Tracking
      <4> QED
        BY <1>4, <4>1, <4>2 DEF AnswerInv
    <3> QED
      BY <3>2, <3>4, <3>5
  <2> QED
    BY <1>5, <1>6, <2>3, <2>4
<1> QED
  BY <1>7, <1>8

\* What happens on the server.
LEMMA RemoteInv ==
  ASSUME IInv, UNCHANGED <<refs, active, config, synced, sidecar, call>>,
         server' \in [Branch -> Histories], made' \in [own : 0..MaxOwn, others : 0..MaxOthers]
  PROVE  IInv'
<1> USE DEF IInv
<1>1. TypeOK' /\ RootInv' /\ SyncedInv' /\ SidecarInv'
  BY DEF TypeOK, RootInv, SyncedInv, SidecarInv, Exists, Home, Tracking
<1>2. ASSUME NEW t \in Terminals PROVE (StepInv(t) /\ PlaceInv(t) /\ AnswerInv(t))'
  BY DEF StepInv, PlaceInv, AnswerInv, Placed, Exists, Tracking, BaseOf
<1> QED
  BY <1>1, <1>2

LEMMA OthersPushInv ==
  ASSUME IInv, NEW b \in Branch, OthersPush(b)
  PROVE  IInv'
<1>1. made' \in [own : 0..MaxOwn, others : 0..MaxOthers] /\ MaxOwn + made'.others \in 0..(MaxOwn + MaxOthers)
  BY ConstantsAssumption DEF IInv, TypeOK, OthersPush
<1>2. server' \in [Branch -> Histories]
  BY <1>1 DEF IInv, TypeOK, OthersPush, Histories
<1> QED
  BY <1>1, <1>2, RemoteInv DEF OthersPush, names

LEMMA OthersBranchInv ==
  ASSUME IInv, NEW a \in Branch, NEW b \in Branch, OthersBranch(a, b)
  PROVE  IInv'
<1>1. server' \in [Branch -> Histories]
  BY DEF IInv, TypeOK, OthersBranch
<1> QED
  BY <1>1, RemoteInv DEF OthersBranch, names, IInv, TypeOK

-----------------------------------------------------------------------------
\* What the steps of a command have in common: the fields of its record, the
\* refs of origin that grow, and the one terminal.

LEMMA Fields ==
  ASSUME TypeOK, NEW t \in Terminals
  PROVE  /\ call[t] \in Calls /\ call[t].name \in Refs /\ call[t].target \in Refs /\ call[t].temp \in Refs
         /\ call[t].todo \in Histories /\ call[t].upto \in Histories /\ call[t].head \in Histories
         /\ call[t].cmd \in Checkouts \cup Syncs \cup {"none"}
BY DEF TypeOK, Calls

LEMMA OriginsGrow ==
  ASSUME IInv, \A r \in Refs \ (Branch \cup Temps) : refs[r] \subseteq refs'[r]
  PROVE  /\ \A r \in Refs : Home(r) \subseteq Home(r)'
         /\ \A r \in Refs : Tracking(r) \subseteq Tracking(r)'
         /\ UNCHANGED synced => SyncedInv'
<1>1. \A r \in Refs : Home(r) \subseteq Home(r)' /\ Tracking(r) \subseteq Tracking(r)'
  BY Names DEF Home, Tracking
<1>2. UNCHANGED synced => SyncedInv'
  BY <1>1 DEF SyncedInv, IInv, TypeOK
<1> QED
  BY <1>1, <1>2

LEMMA OneTerminal ==
  ASSUME Sound, NEW t \in Terminals,
         (TypeOK /\ SidecarInv /\ RootInv /\ SyncedInv /\ StepInv(t) /\ PlaceInv(t) /\ AnswerInv(t))'
  PROVE  IInv'
<1>1. \A u \in Terminals : u = t
  BY DEF Sound
<1> QED
  BY <1>1 DEF IInv

\* The other parts of the invariant where only the record of the command changes.
LEMMA OnlyCall ==
  ASSUME IInv, Sound, NEW t \in Terminals, call[t].pc # "advance",
         UNCHANGED <<refs, active, config, synced, sidecar>>, call' \in [Terminals -> Calls],
         server' \in [Branch -> Histories], UNCHANGED made,
         (StepInv(t) /\ PlaceInv(t) /\ AnswerInv(t))'
  PROVE  IInv'
<1>1. \A u \in Terminals : u = t
  BY DEF Sound
<1>2. TypeOK' /\ RootInv' /\ SyncedInv'
  BY DEF IInv, TypeOK, RootInv, SyncedInv, Exists, Home
<1>3. SidecarInv'
  BY <1>1, Names DEF IInv, SidecarInv, Tracking
<1> QED
  BY <1>2, <1>3, OneTerminal

\* A command that ends without another change, on the branch of the config or
\* on what a failed fetch left.
LEMMA OnlyEnds ==
  ASSUME IInv, Sound, NEW t \in Terminals, call[t].pc # "advance", Ends(t), Placed,
         UNCHANGED <<refs, active, config, synced, sidecar, server, made>>
  PROVE  IInv'
<1>1. call' \in [Terminals -> Calls] /\ call'[t] = Idle
  BY IdleCall DEF IInv, TypeOK, Ends
<1>2. (TypeOK /\ RootInv /\ SyncedInv /\ Placed)'
  BY <1>1 DEF IInv, TypeOK, RootInv, SyncedInv, Exists, Home, Placed
<1> QED
  BY <1>1, <1>2, IdleInv

-----------------------------------------------------------------------------
\* `deltix branch` and `deltix merge`.

LEMMA CreatesBranchInv ==
  ASSUME IInv, Sound, NEW t \in Terminals, NEW b \in Branch, CreatesBranch(t, b)
  PROVE  IInv'
<1>1. /\ call[t] = Idle /\ Placed /\ b \in Refs /\ active \in Refs /\ b # active
      /\ refs[active] \in Histories /\ 0 \in refs[active]
  BY Names DEF IInv, CreatesBranch, At, StepInv, PlaceInv, TypeOK, RootInv, Exists
<1>2. /\ refs' \in [Refs -> Histories] /\ refs'[b] = refs[active]
      /\ \A r \in Refs \ {b} : refs'[r] = refs[r]
  BY <1>1 DEF IInv, TypeOK, CreatesBranch, NewBranch
<1>3. UNCHANGED <<active, config, synced, sidecar, server, made, call>>
  BY DEF CreatesBranch, names, remote
<1>4. (TypeOK /\ RootInv /\ Placed)'
  BY <1>1, <1>2, <1>3 DEF IInv, TypeOK, RootInv, Exists, Placed
<1>5. call'[t] = Idle /\ call[t].pc # "advance"
  BY <1>1, <1>3 DEF Idle
<1>6. \A r \in Refs \ (Branch \cup Temps) : refs[r] \subseteq refs'[r]
  BY <1>2
<1> QED
  BY <1>3, <1>4, <1>5, <1>6, OriginsGrow, IdleInv

LEMMA DeletesBranchInv ==
  ASSUME IInv, Sound, NEW t \in Terminals, NEW b \in Branch, DeletesBranch(t, b)
  PROVE  IInv'
<1>1. call[t] = Idle /\ Placed /\ b \in Refs
  BY Names DEF IInv, DeletesBranch, At, StepInv, PlaceInv
<1>2. /\ UNCHANGED <<active, config, synced, sidecar, made, call>>
      /\ server' \in [Branch -> Histories]
  BY HistoryOps DEF IInv, TypeOK, DeletesBranch, DeletesOnServer, DeletesHere, names
<1>3. \/ UNCHANGED refs
      \/ b # active /\ b # config /\ refs' = [refs EXCEPT ![b] = {}]
  BY DEF DeletesBranch, DeletesHere, Sound
<1>4. (TypeOK /\ RootInv /\ Placed)' /\ \A r \in Refs \ (Branch \cup Temps) : refs[r] \subseteq refs'[r]
  <2>1. CASE UNCHANGED refs
    BY <1>1, <1>2, <2>1 DEF IInv, TypeOK, RootInv, Exists, Placed
  <2>2. CASE b # active /\ b # config /\ refs' = [refs EXCEPT ![b] = {}]
    BY <1>1, <1>2, <2>2, HistoryOps DEF IInv, TypeOK, RootInv, Exists, Placed
  <2> QED
    BY <1>3, <2>1, <2>2
<1>5. call'[t] = Idle /\ call[t].pc # "advance"
  BY <1>1, <1>2 DEF Idle
<1> QED
  BY <1>2, <1>4, <1>5, OriginsGrow, IdleInv

\* What a checkout or a merge leaves on a branch has the first commit.
LEMMA LandingOk ==
  ASSUME IInv, NEW b \in Branch
  PROVE  /\ Landing(b) \in Histories /\ 0 \in Landing(b) /\ Tracking(b) \in Histories
         /\ Exists(b) => Landing(b) = refs[b]
         /\ ~Exists(b) => Tracking(b) \subseteq Landing(b)
<1>1. /\ active \in Refs /\ Exists(active) /\ b \in Refs /\ Origin(b) \in Refs
      /\ Tracking(b) = refs[Origin(b)] /\ refs \in [Refs -> Histories]
  BY Names DEF IInv, TypeOK, Tracking
<1> QED
  BY <1>1 DEF IInv, Landing, Exists, RootInv

LEMMA MergesInv ==
  ASSUME IInv, Sound, NEW t \in Terminals, NEW a \in Branch, NEW b \in Branch, Merges(t, a, b)
  PROVE  IInv'
<1>1. call[t] = Idle /\ Placed /\ b \in Refs /\ a \in Refs /\ refs \in [Refs -> Histories]
  BY Names DEF IInv, Merges, At, StepInv, PlaceInv, TypeOK
<1>2. /\ UNCHANGED <<config, synced, sidecar, made, call>>
      /\ server' \in [Branch -> Histories]
  <2>1. server' = server \/ server' = [server EXCEPT ![b] = @ \cup server[a]]
    BY DEF Merges, MergesOnServer
  <2>2. server[b] \cup server[a] \in Histories
    BY HistoryOps DEF IInv, TypeOK
  <2>3. UNCHANGED <<config, synced, sidecar, made, call>>
    BY DEF Merges, names
  <2> QED
    BY <2>1, <2>2, <2>3 DEF IInv, TypeOK
<1>3. CASE UNCHANGED <<refs, active>>
  <2>1. (TypeOK /\ RootInv /\ Placed)' /\ \A r \in Refs \ (Branch \cup Temps) : refs[r] \subseteq refs'[r]
    BY <1>1, <1>2, <1>3 DEF IInv, TypeOK, RootInv, Exists, Placed
  <2>2. call'[t] = Idle /\ call[t].pc # "advance"
    BY <1>1, <1>2 DEF Idle
  <2> QED
    BY <1>2, <2>1, <2>2, OriginsGrow, IdleInv
<1>4. CASE b = active /\ active' = b /\ refs' = [refs EXCEPT ![b] = Landing(b) \cup refs[a]]
  <2>1. Landing(b) \cup refs[a] \in Histories /\ 0 \in Landing(b) \cup refs[a]
    BY <1>1, LandingOk, HistoryOps
  <2>2. refs' \in [Refs -> Histories] /\ 0 \in refs'[b] /\ \A r \in Refs \ {b} : refs'[r] = refs[r]
    BY <1>1, <1>4, <2>1
  <2>3. (TypeOK /\ RootInv /\ Placed)' /\ \A r \in Refs \ (Branch \cup Temps) : refs[r] \subseteq refs'[r]
    BY <1>1, <1>2, <1>4, <2>2 DEF IInv, TypeOK, RootInv, Exists, Placed
  <2>4. call'[t] = Idle /\ call[t].pc # "advance"
    BY <1>1, <1>2 DEF Idle
  <2> QED
    BY <1>2, <2>3, <2>4, OriginsGrow, IdleInv
<1> QED
  BY <1>3, <1>4 DEF Merges, MergesHere, Sound

-----------------------------------------------------------------------------
\* `deltix branch checkout`.

LEMMA CheckoutBeginsInv ==
  ASSUME IInv, Sound, NEW t \in Terminals, NEW b \in Branch, NEW cmd \in Checkouts, CheckoutBegins(t, b, cmd)
  PROVE  IInv'
<1>1. call[t] = Idle /\ cmd = "branch checkout" /\ b \in Refs
  BY Names DEF IInv, CheckoutBegins, At, StepInv, Sound
<1> DEFINE c == [Idle EXCEPT !.pc = IF Source(b) = "server" THEN "ask" ELSE "switch",
                             !.cmd = cmd, !.name = b, !.source = Source(b)]
<1>2. c \in Calls
  BY <1>1, IdleCall DEF Calls, Source, Checkouts
<1>3. /\ c.pc \in {"ask", "switch"} /\ c.cmd = "branch checkout" /\ c.name = b /\ c.source = Source(b)
      /\ c.upto = {}
  BY <1>1 DEF Idle
<1>4. call' \in [Terminals -> Calls] /\ call'[t] = c
  BY <1>2 DEF CheckoutBegins, IInv, TypeOK
<1> HIDE DEF c
<1>5. UNCHANGED <<refs, active, config, synced, sidecar, server, made>>
  BY DEF CheckoutBegins, names, remote
<1>6. StepInv(t)'
  BY <1>3, <1>4 DEF StepInv, Applying, Checkouts
<1>7. PlaceInv(t)'
  BY <1>3, <1>4, <1>5 DEF PlaceInv, Source, Exists, Checkouts, Syncs
<1>8. AnswerInv(t)'
  BY <1>3, <1>4 DEF AnswerInv, Applying
<1>9. call[t].pc # "advance" /\ server' \in [Branch -> Histories]
  <2>1. call[t].pc # "advance"
    BY DEF CheckoutBegins, At
  <2>2. server' = server
    BY <1>5
  <2> QED
    BY <2>1, <2>2 DEF IInv, TypeOK
<1> QED
  BY <1>4, <1>5, <1>6, <1>7, <1>8, <1>9, OnlyCall

LEMMA CheckoutAsksInv ==
  ASSUME IInv, Sound, NEW t \in Terminals, CheckoutAsks(t)
  PROVE  IInv'
<1> DEFINE c == call[t]
           b == c.name
           asked == [c EXCEPT !.pc = IF server[b] \ {0} = {} THEN "save" ELSE "apply",
                              !.todo = server[b] \ {0}, !.upto = server[b], !.target = Origin(b)]
           created == [c EXCEPT !.pc = "switch", !.source = "created"]
<1>1. /\ c.pc = "ask" /\ c.cmd \in Checkouts /\ c.cmd # "checkout" /\ b \in Branch /\ b # Origin(b)
      /\ c.source # "local" => ~Exists(b)
  BY Names DEF IInv, StepInv, PlaceInv, CheckoutAsks, At
<1>2. UNCHANGED <<refs, active, config, synced, sidecar, server, made>> /\ server' \in [Branch -> Histories]
  BY DEF CheckoutAsks, names, remote, IInv, TypeOK
<1>3. c \in Calls /\ server[b] \in Histories /\ server[b] \ {0} \in Histories /\ Origin(b) \in Refs
  BY <1>1, Fields, Names, HistoryOps DEF IInv, TypeOK
<1>4. \/ server[b] # {} /\ call' = [call EXCEPT ![t] = asked]
      \/ call' = [call EXCEPT ![t] = created]
  BY DEF CheckoutAsks
<1>5. /\ asked \in Calls /\ asked.pc \in {"save", "apply"} /\ asked.cmd = c.cmd /\ asked.name = b
      /\ asked.source = c.source /\ asked.todo = server[b] \ {0} /\ asked.upto = server[b]
      /\ asked.target = Origin(b)
      /\ asked.pc = "apply" => server[b] \ {0} # {}
      /\ asked.pc = "save" => server[b] \subseteq {0}
      /\ created \in Calls /\ created.pc = "switch" /\ created.cmd = c.cmd /\ created.name = b
      /\ created.source = "created"
  BY <1>3 DEF Calls
<1> HIDE DEF asked, created
<1>6. CASE call' = [call EXCEPT ![t] = asked]
  <2>1. call' \in [Terminals -> Calls] /\ call'[t] = asked
    BY <1>5, <1>6 DEF IInv, TypeOK
  <2>2. StepInv(t)'
    BY <1>1, <1>5, <2>1 DEF StepInv, Applying, Checkouts
  <2>3. PlaceInv(t)'
    BY <1>1, <1>2, <1>5, <2>1 DEF PlaceInv, Exists, Checkouts, Syncs
  <2>4. AnswerInv(t)'
    <3>1. Origin(b) # b /\ asked.upto \subseteq asked.todo \cup Root
          /\ (asked.pc = "save" => asked.upto \subseteq Root)
      BY <1>1, <1>5 DEF Root
    <3> QED
      BY <1>5, <2>1, <3>1 DEF AnswerInv, Applying
  <2> QED
    BY <1>1, <1>2, <2>1, <2>2, <2>3, <2>4, OnlyCall
<1>7. CASE call' = [call EXCEPT ![t] = created]
  <2>1. call' \in [Terminals -> Calls] /\ call'[t] = created
    BY <1>5, <1>7 DEF IInv, TypeOK
  <2>2. StepInv(t)'
    BY <1>1, <1>5, <2>1 DEF StepInv, Applying, Checkouts
  <2>3. PlaceInv(t)'
    BY <1>1, <1>2, <1>5, <2>1 DEF PlaceInv, Exists, Checkouts, Syncs
  <2>4. AnswerInv(t)'
    BY <1>5, <2>1 DEF AnswerInv, Applying
  <2> QED
    BY <1>1, <1>2, <2>1, <2>2, <2>3, <2>4, OnlyCall
<1> QED
  BY <1>4, <1>6, <1>7

\* The end of a command that leaves its branch checked out: `b' is the ref that
\* changed, if any.
LEMMA EndsOnBranch ==
  ASSUME IInv, Sound, NEW t \in Terminals, call[t].pc # "advance", Ends(t),
         NEW b \in Branch, NEW h \in Histories, 0 \in h,
         refs' = [refs EXCEPT ![b] = h], active' \in Refs, active' = config', 0 \in refs'[active'],
         UNCHANGED <<synced, sidecar, server, made>>
  PROVE  IInv'
<1>1. b \in Refs /\ refs \in [Refs -> Histories] /\ config' \in Refs
  BY Names DEF IInv, TypeOK
<1>2. call' \in [Terminals -> Calls] /\ call'[t] = Idle
  BY IdleCall DEF IInv, TypeOK, Ends
<1>3. refs' \in [Refs -> Histories] /\ \A r \in Refs \ {b} : refs'[r] = refs[r]
  BY <1>1
<1>4. refs'[b] = h
  BY <1>1
<1>5. (TypeOK /\ RootInv /\ Placed)'
  BY <1>1, <1>2, <1>3, <1>4 DEF IInv, TypeOK, RootInv, Exists, Placed
<1>6. \A r \in Refs \ (Branch \cup Temps) : refs[r] \subseteq refs'[r]
  BY <1>3
<1> QED
  BY <1>2, <1>5, <1>6, OriginsGrow, IdleInv

LEMMA SwitchInv ==
  ASSUME IInv, Sound, NEW t \in Terminals, Switch(t)
  PROVE  IInv'
<1> DEFINE b == call[t].name
<1>1. /\ call[t].pc = "switch" /\ call[t].cmd \in {"branch checkout", "fetch"} /\ b \in Branch
      /\ call[t].cmd = "fetch" => config = b
  BY DEF IInv, StepInv, PlaceInv, Switch, At, Checkouts, Syncs
<1>2. /\ Landing(b) \in Histories /\ 0 \in Landing(b) /\ b \in Refs
  BY <1>1, LandingOk, Names
<1>3. /\ refs' = [refs EXCEPT ![b] = Landing(b)] /\ active' = b /\ config' = b
      /\ Ends(t) /\ UNCHANGED <<synced, sidecar, server, made>>
  BY <1>1 DEF Switch, Persists, SetBranch, remote
<1>4. refs'[b] = Landing(b)
  BY <1>2, <1>3 DEF IInv, TypeOK
<1> QED
  BY <1>1, <1>2, <1>3, <1>4, EndsOnBranch

-----------------------------------------------------------------------------
\* pull, fetch and push up to the answer of the server.

LEMMA SyncBeginsInv ==
  ASSUME IInv, Sound, NEW t \in Terminals, NEW cmd \in Syncs, SyncBegins(t, cmd)
  PROVE  IInv'
<1>1. PICK b \in {active, config} :
        /\ cmd = "push" => Tracking(b) \subseteq refs[b]
        /\ config' = b /\ synced' = Rekeyed(config, b)
        /\ call' = [call EXCEPT ![t] = [Idle EXCEPT
             !.pc = IF cmd = "push" THEN "send" ELSE "request", !.cmd = cmd, !.name = b]]
  <2>1. Reconciled \subseteq {active, config}
    BY DEF Reconciled, CurrentBranch, Remembered, Fails, Sound
  <2> QED
    BY <2>1 DEF SyncBegins, SetBranch, Remembered, Sound
<1> DEFINE c == [Idle EXCEPT !.pc = IF cmd = "push" THEN "send" ELSE "request", !.cmd = cmd, !.name = b]
<1>2. /\ call[t].pc = "idle" /\ Placed /\ active \in Refs /\ Exists(active) /\ config \in Refs
      /\ b \in Refs /\ Exists(b)
      /\ UNCHANGED <<refs, active, sidecar, server, made>>
  BY <1>1 DEF IInv, SyncBegins, At, PlaceInv, Placed, TypeOK, remote
<1>3. /\ c \in Calls /\ c.pc \in {"send", "request"} /\ c.cmd = cmd /\ c.name = b /\ c.todo = {}
      /\ c.source = "local"
      /\ c.pc = "send" <=> cmd = "push"
  BY <1>2, IdleCall DEF Calls, Idle, Syncs, Checkouts
<1>4. call' \in [Terminals -> Calls] /\ call'[t] = c
  BY <1>1, <1>3 DEF IInv, TypeOK
<1> HIDE DEF c
<1>5. /\ synced' \in [branch : Refs, head : Histories] /\ synced'.head = synced.head
      /\ synced'.branch = IF synced.branch = config THEN b ELSE synced.branch
  BY <1>1, <1>2 DEF Rekeyed, IInv, TypeOK
<1>6. SyncedInv'
  <2>1. CASE b = config \/ synced.branch # config
    BY <1>2, <1>5, <2>1 DEF IInv, SyncedInv, Home
  <2>2. CASE config \in Branch /\ b = Origin(config) /\ synced.branch = config
    <3>1. Home(b) = refs[b] /\ Home(config) = refs[b]
      BY <2>2, Names DEF Home
    <3> QED
      BY <1>2, <1>5, <2>2, <3>1 DEF IInv, SyncedInv, Home
  <2>3. CASE b \in Temps /\ synced.branch = config /\ synced.head \subseteq Root
    BY <1>2, <1>5, <2>3 DEF SyncedInv
  <2> QED
    BY <1>1, <1>2, <2>1, <2>2, <2>3 DEF Placed
<1>7. Placed'
  <2>1. CASE b = active
    BY <1>1, <1>2, <2>1 DEF Placed, Exists
  <2>2. CASE b = config
    BY <1>1, <1>2, <1>5, <2>2 DEF Placed, Exists
  <2> QED
    BY <1>1, <2>1, <2>2
<1>8. TypeOK' /\ RootInv'
  BY <1>1, <1>2, <1>4, <1>5 DEF IInv, TypeOK, RootInv, Exists
<1>9. SidecarInv'
  <2>1. \A u \in Terminals : u = t
    BY DEF Sound
  <2> QED
    BY <1>2, <2>1, Names DEF IInv, SidecarInv, Tracking
<1>10. StepInv(t)'
  BY <1>3, <1>4 DEF StepInv, Applying, Checkouts, Syncs
<1>11. PlaceInv(t)'
  BY <1>1, <1>2, <1>3, <1>4, <1>7 DEF PlaceInv, Checkouts, Syncs, Exists
<1>12. AnswerInv(t)'
  BY <1>1, <1>2, <1>3, <1>4 DEF AnswerInv, Applying, Tracking
<1> QED
  BY <1>6, <1>8, <1>9, <1>10, <1>11, <1>12, OneTerminal

\* What the server answers covers what it has, together with what the saved
\* head stands for.
LEMMA AnswerOk ==
  ASSUME IInv, NEW r \in Branch
  PROVE  /\ Answer(r) \in Histories
         /\ server[r] \subseteq Answer(r) \cup Tracking(r) \cup Root
         /\ Exists(r) /\ ~Diverged(r) => /\ server[r] \subseteq Answer(r) \cup Root
                                         /\ Tracking(r) = {} \/ refs[r] = Tracking(r)
<1>1. server[r] \in Histories /\ Tracking(r) = refs[Origin(r)]
  BY Names DEF IInv, TypeOK, Tracking
<1>2. Answer(r) \in Histories
  BY <1>1, HistoryOps DEF Answer
<1>3. Knows(r) => synced.head \subseteq Tracking(r) \cup Root
  BY <1>1 DEF IInv, SyncedInv, Knows, Home
<1>4. CASE Knows(r)
  BY <1>1, <1>2, <1>3, <1>4 DEF Answer, Diverged, Root
<1>5. CASE ~Knows(r)
  BY <1>1, <1>2, <1>5 DEF Answer, Diverged, Root
<1> QED
  BY <1>4, <1>5

LEMMA RequestInv ==
  ASSUME IInv, Sound, NEW t \in Terminals, Request(t)
  PROVE  IInv'
<1> DEFINE c == call[t]
           r == c.name
           merge == c.cmd = "pull" /\ Diverged(r)
           next == IF Answer(r) # {} THEN "apply" ELSE IF merge THEN "merge" ELSE "save"
           tgt == IF c.cmd = "pull" /\ ~merge THEN r ELSE Origin(r)
           d == [c EXCEPT !.pc = next, !.todo = Answer(r), !.upto = server[r], !.target = tgt]
<1>1. /\ c.pc = "request" /\ c.cmd \in {"pull", "fetch"} /\ r \in Refs /\ config = r /\ Placed /\ Exists(r)
  BY Fields DEF IInv, Request, At, StepInv, PlaceInv, Syncs
<1>2. UNCHANGED <<refs, active, config, synced, sidecar, server, made>>
  BY DEF Request, names, remote
<1>3. CASE Ends(t)
  BY <1>1, <1>2, <1>3, OnlyEnds
<1>4. CASE r \in Branch /\ call' = [call EXCEPT ![t] = d]
  <2>1. /\ Answer(r) \in Histories /\ server[r] \in Histories /\ tgt \in Refs /\ Origin(r) # r
        /\ tgt \in {r, Origin(r)} /\ c \in Calls
        /\ tgt = r => (c.cmd = "pull" /\ ~Diverged(r))
    BY <1>1, <1>4, AnswerOk, Names, Fields DEF IInv, TypeOK
  <2>2. /\ next \in {"apply", "merge", "save"}
        /\ next = "apply" <=> Answer(r) # {}
        /\ next = "merge" => c.cmd = "pull"
    OBVIOUS
  <2> HIDE DEF next, tgt
  <2>3. /\ d \in Calls /\ d.pc = next /\ d.cmd = c.cmd /\ d.name = r /\ d.todo = Answer(r)
        /\ d.source = c.source /\ d.upto = server[r] /\ d.target = tgt
    BY <2>1, <2>2 DEF Calls
  <2> HIDE DEF d
  <2>4. call' \in [Terminals -> Calls] /\ call'[t] = d
    BY <1>4, <2>3 DEF IInv, TypeOK
  <2>5. StepInv(t)'
    BY <1>1, <1>4, <2>1, <2>2, <2>3, <2>4 DEF IInv, StepInv, Applying, Checkouts
  <2>6. PlaceInv(t)'
    <3>1. Placed'
      BY <1>1, <1>2 DEF Placed, Exists
    <3>2. Answer(r) = {} /\ active \in Temps => active = r \/ server[r] \subseteq Root
      BY <1>1, <1>4, Names DEF Placed, Answer, Knows, Root
    <3>3. Answer(r) = {} => active = r \/ active = Origin(r) \/ (active \in Temps /\ server[r] \subseteq Root)
      BY <1>1, <3>2 DEF Placed
    <3>4. refs'[r] # {} /\ UNCHANGED <<config, active>>
      BY <1>1, <1>2 DEF Exists
    <3>5. /\ d.cmd \in {"pull", "fetch"} /\ d.pc \in {"apply", "merge", "save"} /\ d.name = r
          /\ d.pc = "save" => d.todo = {}
      BY <1>1, <2>2, <2>3
    <3> QED
      BY <1>1, <2>3, <2>4, <3>1, <3>3, <3>4, <3>5 DEF PlaceInv, Checkouts, Syncs, Exists
  <2>7. AnswerInv(t)'
    <3>1. sidecar[r] \subseteq Tracking(r)
      BY <1>1, <1>4 DEF IInv, SidecarInv, Sound
    <3>2. \A q : Tracking(q)' = Tracking(q)
      BY <1>2 DEF Tracking
    <3>3. /\ server[r] \subseteq Answer(r) \cup Tracking(r) \cup Root
          /\ tgt = r => /\ server[r] \subseteq Answer(r) \cup Root
                        /\ Tracking(r) \subseteq refs[r]
      BY <1>1, <1>4, <2>1, AnswerOk
    <3> QED
      BY <1>2, <2>1, <2>2, <2>3, <2>4, <3>1, <3>2, <3>3 DEF AnswerInv, Applying
  <2> QED
    BY <1>1, <1>2, <2>4, <2>5, <2>6, <2>7, OnlyCall DEF IInv, TypeOK
<1> QED
  BY <1>3, <1>4 DEF Request, OnServer

-----------------------------------------------------------------------------
\* The application of commits.

\* A command that gives up ends, or goes on to the checkout.
LEMMA GivesUpInv ==
  ASSUME IInv, Sound, NEW t \in Terminals, call[t].pc \in Applying, GivesUp(t),
         (refs \in [Refs -> Histories] /\ active \in Refs /\ RootInv /\ SyncedInv /\ Exists(active))',
         call[t].cmd \in Syncs => Placed', UNCHANGED <<config, synced, sidecar, server, made>>,
         \A r \in Refs \ (Branch \cup Temps) : refs[r] \subseteq refs'[r]
  PROVE  IInv'
<1> DEFINE c == call[t]
           d == [c EXCEPT !.pc = "switch", !.source = "created"]
<1>1. c \in Calls /\ c.cmd \in Checkouts \cup {"pull", "fetch"} /\ c.pc # "advance"
  BY Fields DEF IInv, StepInv, Applying
<1>2. CASE c.cmd \in Checkouts
  <2>1. d \in Calls /\ d.pc = "switch" /\ d.cmd = c.cmd /\ d.name = c.name /\ d.source = "created"
    BY <1>1 DEF Calls
  <2>2. call' = [call EXCEPT ![t] = d]
    BY <1>2 DEF GivesUp
  <2> HIDE DEF d
  <2>3. call' \in [Terminals -> Calls] /\ call'[t] = d
    BY <2>1, <2>2 DEF IInv, TypeOK
  <2>4. TypeOK'
    BY <2>3 DEF IInv, TypeOK
  <2>5. SidecarInv'
    <3>1. \A u \in Terminals : u = t
      BY DEF Sound
    <3> QED
      BY <1>1, <3>1, Names DEF IInv, SidecarInv, Tracking
  <2>6. c.name \in Branch /\ c.cmd # "checkout"
    BY <1>2 DEF IInv, StepInv
  <2>7. StepInv(t)'
    BY <1>2, <2>1, <2>3, <2>6 DEF StepInv, Applying
  <2>8. PlaceInv(t)' /\ AnswerInv(t)'
    BY <1>2, <2>1, <2>3 DEF PlaceInv, AnswerInv, Applying, Checkouts, Syncs
  <2> QED
    BY <2>4, <2>5, <2>7, <2>8, OneTerminal
<1>3. CASE c.cmd \notin Checkouts
  <2>1. call' \in [Terminals -> Calls] /\ call'[t] = Idle
    BY <1>3, IdleCall DEF IInv, TypeOK, GivesUp, Ends
  <2>2. (TypeOK /\ Placed)'
    BY <1>1, <1>3, <2>1 DEF IInv, TypeOK, Syncs
  <2> QED
    BY <1>1, <2>1, <2>2, IdleInv
<1> QED
  BY <1>2, <1>3

LEMMA ApplyBeginsInv ==
  ASSUME IInv, Sound, NEW t \in Terminals, ApplyBegins(t)
  PROVE  IInv'
<1> DEFINE c == call[t]
<1>1. PICK temp \in Temps :
        /\ ~Exists(temp) /\ refs' = [refs EXCEPT ![temp] = BaseOf(c.target)]
        /\ \/ GivesUp(t) /\ UNCHANGED active
           \/ active' = temp /\ call' = [call EXCEPT ![t].pc = "import", ![t].temp = temp]
  BY DEF ApplyBegins
<1>2. /\ c.pc = "apply" /\ c.cmd \in Checkouts \cup {"pull", "fetch"} /\ c.name \in Branch
      /\ c.target \in {c.name, Origin(c.name)} /\ c.todo # {}
      /\ UNCHANGED <<config, synced, sidecar, server, made>>
      /\ c.cmd \in Syncs => config = c.name /\ Placed
  BY DEF ApplyBegins, At, IInv, StepInv, PlaceInv, Applying, names, remote, Checkouts, Syncs
<1>3. /\ temp \in Refs /\ active \in Refs /\ Exists(active) /\ refs \in [Refs -> Histories]
      /\ c.target \in Refs /\ c.target # temp /\ c.name # temp /\ active # temp
      /\ Origin(c.name) # temp /\ Origin(c.name) \in Refs /\ c.name \in Refs
  BY <1>1, <1>2, Names DEF IInv, TypeOK
<1>4. BaseOf(c.target) \in Histories /\ 0 \in BaseOf(c.target)
  BY <1>3, HistoryOps DEF BaseOf, Exists, IInv, RootInv, Root
<1>5. /\ refs' \in [Refs -> Histories] /\ refs'[temp] = BaseOf(c.target)
      /\ \A r \in Refs \ {temp} : refs'[r] = refs[r]
  BY <1>1, <1>3, <1>4
<1>6. \A r \in Refs \ (Branch \cup Temps) : refs[r] \subseteq refs'[r]
  BY <1>5
<1>7. RootInv' /\ SyncedInv'
  BY <1>2, <1>4, <1>5, <1>6, OriginsGrow DEF IInv, RootInv, Exists
<1>8. CASE GivesUp(t) /\ UNCHANGED active
  <2>1. (active \in Refs /\ Exists(active))' /\ (c.cmd \in Syncs => Placed')
    BY <1>2, <1>3, <1>5, <1>8 DEF Exists, Placed
  <2>2. c.pc \in Applying
    BY <1>2 DEF Applying
  <2> QED
    BY <1>2, <1>5, <1>6, <1>7, <1>8, <2>1, <2>2, GivesUpInv
<1>9. CASE active' = temp /\ call' = [call EXCEPT ![t].pc = "import", ![t].temp = temp]
  <2> DEFINE d == [c EXCEPT !.pc = "import", !.temp = temp]
  <2>1. /\ d \in Calls /\ d.pc = "import" /\ d.cmd = c.cmd /\ d.name = c.name /\ d.source = c.source
        /\ d.todo = c.todo /\ d.upto = c.upto /\ d.target = c.target /\ d.temp = temp
    BY <1>3, Fields DEF Calls, IInv
  <2>2. call' = [call EXCEPT ![t] = d]
    BY <1>9
  <2> HIDE DEF d
  <2>3. call' \in [Terminals -> Calls] /\ call'[t] = d
    BY <2>1, <2>2 DEF IInv, TypeOK
  <2>4. TypeOK'
    BY <1>2, <1>3, <1>4, <1>5, <1>9, <2>3 DEF IInv, TypeOK, Exists
  <2>5. SidecarInv'
    <3>1. \A u \in Terminals : u = t
      BY DEF Sound
    <3> QED
      BY <1>2, <1>6, <3>1, Names DEF IInv, SidecarInv, Tracking
  <2>6. StepInv(t)'
    BY <1>2, <1>3, <2>1, <2>3 DEF IInv, StepInv, Applying
  <2>7. refs'[c.name] = refs[c.name] /\ refs'[c.target] = refs[c.target] /\ Tracking(c.name) = refs[Origin(c.name)]
        /\ refs'[Origin(c.name)] = refs[Origin(c.name)]
    BY <1>2, <1>3, <1>5 DEF Tracking
  <2>8. PlaceInv(t)'
    <3>1. \A q : refs'[q] = refs[q] => BaseOf(q)' = BaseOf(q) /\ (Exists(q)' <=> Exists(q))
      BY DEF BaseOf, Exists
    <3>2. /\ c.cmd \in Syncs => config = c.name /\ Exists(c.name)
          /\ c.cmd \in Checkouts /\ c.source # "local" => ~Exists(c.name)
      BY <1>2 DEF IInv, PlaceInv
    <3> QED
      BY <1>2, <1>5, <1>9, <2>1, <2>3, <2>7, <3>1, <3>2 DEF PlaceInv
  <2>9. AnswerInv(t)'
    <3>1. \A q \in Branch : Tracking(q)' = refs'[Origin(q)]
      BY DEF Tracking
    <3> QED
      BY <1>2, <2>1, <2>3, <2>7, <3>1 DEF IInv, AnswerInv, Applying
  <2> QED
    BY <1>7, <2>4, <2>5, <2>6, <2>8, <2>9, OneTerminal
<1> QED
  BY <1>1, <1>8, <1>9

\* What the import works on: the throwaway branch at the target's base.
LEMMA ImportFacts ==
  ASSUME IInv, NEW t \in Terminals, call[t].pc = "import"
  PROVE  LET c == call[t] IN
         /\ c.cmd \in Checkouts \cup {"pull", "fetch"} /\ c.name \in Branch /\ c.temp \in Temps
         /\ c.target \in {c.name, Origin(c.name)} /\ c.todo # {} /\ active = c.temp
         /\ refs[c.temp] = BaseOf(c.target) /\ 0 \in BaseOf(c.target)
         /\ c.cmd \in Syncs => config = c.name /\ Exists(c.name)
         /\ c.target = c.name => c.cmd = "pull"
         /\ c.cmd \in Checkouts /\ c.source # "local" => ~Exists(c.name)
         /\ c.target \in Refs /\ c.temp \in Refs /\ c.name \in Refs /\ Origin(c.name) \in Refs
         /\ c.temp \notin {c.name, Origin(c.name), c.target} /\ c.name # Origin(c.name)
<1> DEFINE c == call[t]
<1>1. /\ c.cmd \in Checkouts \cup {"pull", "fetch"} /\ c.name \in Branch /\ c.temp \in Temps
      /\ c.target \in {c.name, Origin(c.name)} /\ c.todo # {} /\ active = c.temp
      /\ c.target = c.name => c.cmd = "pull"
      /\ refs[c.temp] = BaseOf(c.target)
      /\ c.cmd \in Syncs => config = c.name /\ Exists(c.name)
      /\ c.cmd \in Checkouts /\ c.source # "local" => ~Exists(c.name)
  BY DEF IInv, StepInv, PlaceInv, Applying, Checkouts, Syncs
<1>2. /\ c.target \in Refs /\ c.temp \in Refs /\ c.name \in Refs /\ Origin(c.name) \in Refs
      /\ c.temp \notin {c.name, Origin(c.name), c.target} /\ c.name # Origin(c.name)
  BY <1>1, Names
<1>3. 0 \in BaseOf(c.target)
  BY <1>2 DEF IInv, RootInv, BaseOf, Exists
<1> QED
  BY <1>1, <1>2, <1>3

LEMMA ApplyFailsInv ==
  ASSUME IInv, Sound, NEW t \in Terminals, ApplyFails(t)
  PROVE  IInv'
<1> DEFINE c == call[t]
<1>1. PICK done \in SUBSET Pending(t) :
        /\ IF Exists(c.target)
           THEN refs' = [refs EXCEPT ![c.temp] = {}] /\ active' = c.target
           ELSE refs' = [refs EXCEPT ![active] = @ \cup done] /\ UNCHANGED active
        /\ c.pc = "import" /\ GivesUp(t) /\ UNCHANGED <<config, synced, sidecar, server, made>>
  BY DEF ApplyFails, At, names, remote
<1>2. /\ c.cmd \in Checkouts \cup {"pull", "fetch"} /\ c.name \in Branch /\ c.temp \in Temps
      /\ c.target \in {c.name, Origin(c.name)} /\ active = c.temp
      /\ refs[c.temp] = BaseOf(c.target) /\ 0 \in BaseOf(c.target)
      /\ c.cmd \in Syncs => config = c.name /\ Exists(c.name)
      /\ c.target = c.name => c.cmd = "pull"
      /\ c.target \in Refs /\ c.temp \in Refs /\ c.temp # c.target
  BY <1>1, ImportFacts
<1>3. refs \in [Refs -> Histories] /\ done \in Histories
  <2>1. refs \in [Refs -> Histories] /\ c.todo \in Histories
    BY Fields DEF IInv, TypeOK
  <2>2. done \subseteq c.todo
    BY <1>1 DEF Pending
  <2> HIDE DEF c
  <2> QED
    BY <2>1, <2>2, HistoryOps
<1>4. CASE Exists(c.target)
  <2>1. /\ refs' \in [Refs -> Histories] /\ refs'[c.temp] = {}
        /\ \A r \in Refs \ {c.temp} : refs'[r] = refs[r]
    BY <1>1, <1>2, <1>3, <1>4, HistoryOps
  <2>2. (active \in Refs /\ RootInv /\ Exists(active))'
    BY <1>1, <1>2, <1>4, <2>1 DEF IInv, RootInv, Exists
  <2>3. \A r \in Refs \ (Branch \cup Temps) : refs[r] \subseteq refs'[r]
    BY <1>2, <2>1
  <2>4. c.cmd \in Syncs => Placed'
    <3>1. c.cmd \in Syncs => refs'[c.name] = refs[c.name] /\ c.name # c.temp
      BY <1>2, <2>1, Names
    <3> QED
      BY <1>1, <1>2, <1>4, <3>1 DEF Placed, Exists
  <2> QED
    BY <1>1, <2>1, <2>2, <2>3, <2>4, OriginsGrow, GivesUpInv DEF Applying
<1>5. CASE ~Exists(c.target)
  <2>1. refs[c.temp] \cup done \in Histories
    <3>1. refs[c.temp] \in Histories
      BY <1>2, <1>3
    <3> QED
      BY <1>3, <3>1, HistoryOps
  <2>2. /\ refs' \in [Refs -> Histories] /\ refs'[c.temp] = refs[c.temp] \cup done /\ active' = c.temp
        /\ \A r \in Refs \ {c.temp} : refs'[r] = refs[r]
    BY <1>1, <1>2, <1>3, <1>5, <2>1
  <2>3. (active \in Refs /\ RootInv /\ Exists(active))'
    BY <1>2, <2>2 DEF IInv, RootInv, Exists
  <2>4. \A r \in Refs \ (Branch \cup Temps) : refs[r] \subseteq refs'[r]
    BY <1>2, <2>2
  <2>5. c.cmd \in Syncs => Placed'
    <3>1. SUFFICES ASSUME c.cmd \in Syncs PROVE Placed'
      OBVIOUS
    <3>2. c.target = Origin(c.name) /\ refs[c.target] = {} /\ config = c.name
      BY <1>2, <1>5, <3>1 DEF Exists
    <3>3. synced.branch = config => synced.head \subseteq Root
      BY <1>2, <3>2 DEF IInv, SyncedInv, Home
    <3>4. refs'[c.name] = refs[c.name]
      BY <1>2, <2>2, Names
    <3> QED
      BY <1>1, <1>2, <2>2, <3>1, <3>3, <3>4 DEF Placed, Exists
  <2> QED
    BY <1>1, <2>2, <2>3, <2>4, <2>5, OriginsGrow, GivesUpInv DEF Applying
<1> QED
  BY <1>4, <1>5

LEMMA ApplyFinishesInv ==
  ASSUME IInv, Sound, NEW t \in Terminals, ApplyFinishes(t)
  PROVE  IInv'
<1> DEFINE c == call[t]
           h == BaseOf(c.target) \cup Pending(t)
           d == [c EXCEPT !.pc = AfterApply(t), !.head = h]
<1>1. c.pc = "import" /\ UNCHANGED <<config, synced, server, made>>
  BY DEF ApplyFinishes, At, names, remote
<1>2. /\ c.cmd \in Checkouts \cup {"pull", "fetch"} /\ c.name \in Branch /\ c.temp \in Temps
      /\ c.target \in {c.name, Origin(c.name)} /\ c.todo # {} /\ active = c.temp
      /\ refs[c.temp] = BaseOf(c.target) /\ 0 \in BaseOf(c.target)
      /\ c.cmd \in Syncs => config = c.name /\ Exists(c.name)
      /\ c.target = c.name => c.cmd = "pull"
      /\ c.cmd \in Checkouts /\ c.source # "local" => ~Exists(c.name)
      /\ c.target \in Refs /\ c.temp \in Refs /\ c.name \in Refs /\ Origin(c.name) \in Refs
      /\ c.temp \notin {c.name, Origin(c.name), c.target} /\ c.name # Origin(c.name)
  BY <1>1, ImportFacts
<1>3. refs \in [Refs -> Histories] /\ sidecar \in [Refs -> Histories] /\ c \in Calls /\ c.todo \in Histories
  BY Fields DEF IInv, TypeOK
<1>4. h \in Histories /\ sidecar[c.target] \cup c.todo \in Histories
  <2>1. refs[c.temp] \in Histories /\ sidecar[c.target] \in Histories
    BY <1>2, <1>3
  <2>2. Pending(t) \in Histories
    BY <1>3, HistoryOps DEF Pending
  <2> QED
    BY <1>2, <1>3, <2>1, <2>2, HistoryOps
<1>5. /\ refs' = [[refs EXCEPT ![c.temp] = h] EXCEPT ![c.target] = h, ![c.temp] = {}]
      /\ active' = c.target /\ sidecar' = [sidecar EXCEPT ![c.target] = @ \cup c.todo]
      /\ call' = [call EXCEPT ![t] = d]
  BY <1>2, <1>3 DEF ApplyFinishes
<1>6. /\ d \in Calls /\ d.cmd = c.cmd /\ d.name = c.name /\ d.source = c.source
      /\ d.todo = c.todo /\ d.upto = c.upto /\ d.target = c.target /\ d.temp = c.temp /\ d.head = h
      /\ d.pc = IF c.cmd # "pull" THEN "save" ELSE IF c.target = c.name THEN "advance" ELSE "merge"
  BY <1>3, <1>4 DEF AfterApply, Calls
<1>7. BaseOf(c.target) \subseteq h /\ c.todo \subseteq h \cup sidecar[c.target] /\ refs[c.target] \subseteq h
  BY DEF BaseOf, Pending, Exists
<1> HIDE DEF d, h
<1>8. /\ refs' \in [Refs -> Histories] /\ refs'[c.temp] = {} /\ refs'[c.target] = h
      /\ \A r \in Refs \ {c.temp, c.target} : refs'[r] = refs[r]
  BY <1>2, <1>3, <1>4, <1>5, HistoryOps
<1>9. /\ sidecar' \in [Refs -> Histories] /\ sidecar'[c.target] = sidecar[c.target] \cup c.todo
      /\ \A r \in Refs \ {c.target} : sidecar'[r] = sidecar[r]
  BY <1>2, <1>3, <1>4, <1>5
<1>10. call' \in [Terminals -> Calls] /\ call'[t] = d
  BY <1>5, <1>6 DEF IInv, TypeOK
<1>11. 0 \in h
  BY <1>2, <1>7
<1>12. TypeOK' /\ RootInv'
  BY <1>1, <1>2, <1>5, <1>8, <1>9, <1>10, <1>11 DEF IInv, TypeOK, RootInv, Exists
<1>13. \A r \in Refs \ (Branch \cup Temps) : refs[r] \subseteq refs'[r]
  BY <1>2, <1>7, <1>8
<1>14. SyncedInv' /\ \A b \in Branch : Tracking(b) = refs[Origin(b)] /\ Tracking(b)' = refs'[Origin(b)]
  BY <1>1, <1>13, OriginsGrow DEF Tracking
<1>15. \A b \in Branch : sidecar[Origin(b)] \subseteq refs[Origin(b)] /\ sidecar[b] \subseteq refs[Origin(b)]
  <2>1. \A u \in Terminals : u = t
    BY DEF Sound
  <2> QED
    BY <1>1, <1>14, <2>1 DEF IInv, SidecarInv
<1>16. StepInv(t)'
  BY <1>2, <1>6, <1>10 DEF IInv, StepInv, Applying
<1>17. PlaceInv(t)'
  <2>1. refs[c.name] \subseteq refs'[c.name] /\ (c.target # c.name => refs'[c.name] = refs[c.name])
    BY <1>2, <1>7, <1>8
  <2>2. c.cmd \in Syncs => config' = c.name /\ refs'[c.name] # {}
    BY <1>1, <1>2, <2>1 DEF Exists
  <2>3. c.cmd \in Checkouts /\ c.source # "local" => refs'[c.name] = {}
    BY <1>2, <2>1 DEF Exists, Checkouts
  <2>4. d.pc = "merge" => Placed'
    BY <1>2, <1>5, <1>6, <2>2 DEF Placed, Exists, Syncs
  <2> QED
    BY <1>2, <1>5, <1>6, <1>10, <2>2, <2>3, <2>4 DEF PlaceInv, Checkouts, Syncs, Exists
<1>18. CASE c.target = Origin(c.name)
  <2>1. /\ c.upto \subseteq c.todo \cup refs[c.target] \cup Root
        /\ sidecar[c.target] \subseteq h
    BY <1>1, <1>2, <1>7, <1>14, <1>15, <1>18 DEF IInv, AnswerInv, Applying
  <2>2. c.upto \subseteq h \cup Root /\ sidecar'[c.target] \subseteq h
    BY <1>7, <1>9, <2>1
  <2>3. SidecarInv'
    <3>1. ASSUME NEW b \in Branch
          PROVE  sidecar'[Origin(b)] \subseteq refs'[Origin(b)] /\ sidecar'[b] \subseteq refs'[Origin(b)]
      <4>1. b \in Refs /\ Origin(b) \in Refs /\ b # c.target /\ Origin(b) # c.temp /\ b # c.temp
            /\ refs[Origin(b)] \subseteq refs'[Origin(b)]
        BY <1>2, <1>13, <1>18, Names
      <4>2. CASE Origin(b) = c.target
        BY <1>8, <1>9, <1>15, <2>2, <4>1, <4>2
      <4>3. CASE Origin(b) # c.target
        BY <1>9, <1>15, <4>1, <4>3
      <4> QED
        BY <4>2, <4>3
    <3> QED
      BY <1>14, <3>1 DEF SidecarInv
  <2>4. AnswerInv(t)'
    BY <1>2, <1>6, <1>8, <1>10, <1>14, <1>18, <2>2 DEF AnswerInv, Applying
  <2> QED
    BY <1>12, <1>14, <1>16, <1>17, <2>3, <2>4, OneTerminal
<1>19. CASE c.target = c.name
  <2>1. /\ c.upto \subseteq c.todo \cup Root /\ refs[Origin(c.name)] \subseteq refs[c.name]
        /\ sidecar[c.name] \subseteq refs[c.name]
    BY <1>1, <1>2, <1>14, <1>19 DEF IInv, AnswerInv, Applying
  <2>2. c.upto \cup refs[Origin(c.name)] \cup sidecar'[c.name] \subseteq h \cup Root
    BY <1>7, <1>9, <1>19, <2>1
  <2>3. d.pc = "advance" /\ refs'[Origin(c.name)] = refs[Origin(c.name)]
    BY <1>2, <1>6, <1>8, <1>19
  <2>4. SidecarInv'
    <3>1. ASSUME NEW b \in Branch
          PROVE  sidecar'[Origin(b)] \subseteq refs'[Origin(b)] /\ (sidecar'[b] \subseteq refs'[Origin(b)] \/ b = c.name)
      BY <1>2, <1>8, <1>9, <1>15, <1>19, Names
    <3> QED
      BY <1>6, <1>10, <1>14, <2>3, <3>1 DEF SidecarInv
  <2>5. AnswerInv(t)'
    BY <1>2, <1>6, <1>10, <1>11, <1>14, <2>2, <2>3 DEF AnswerInv, Applying
  <2> QED
    BY <1>12, <1>14, <1>16, <1>17, <2>4, <2>5, OneTerminal
<1> QED
  BY <1>2, <1>18, <1>19

-----------------------------------------------------------------------------
\* The end of a pull and of a fetch.

LEMMA MergeTrackingInv ==
  ASSUME IInv, Sound, NEW t \in Terminals, MergeTracking(t)
  PROVE  IInv'
<1> DEFINE c == call[t]
           b == c.name
           h == refs[b] \cup Tracking(b)
           d == [c EXCEPT !.pc = "advance", !.head = h]
<1>1. /\ c.pc = "merge" /\ c.cmd = "pull" /\ b \in Branch /\ config = b /\ Exists(b)
      /\ Placed /\ c.upto \subseteq Tracking(b) \cup Root
      /\ UNCHANGED <<config, synced, sidecar, server, made>>
  BY DEF MergeTracking, At, IInv, StepInv, PlaceInv, AnswerInv, Syncs, names, remote
<1>2. /\ b \in Refs /\ Origin(b) \in Refs /\ b # Origin(b) /\ c \in Calls
      /\ refs \in [Refs -> Histories] /\ Tracking(b) = refs[Origin(b)]
      /\ Landing(b) = refs[b] /\ 0 \in refs[b]
  BY <1>1, Names, Fields, LandingOk DEF IInv, TypeOK, Tracking
<1>3. h \in Histories /\ 0 \in h
  <2>1. refs[b] \in Histories /\ Tracking(b) \in Histories
    BY <1>2
  <2> QED
    BY <1>2, <2>1, HistoryOps
<1>4. CASE Ends(t) /\ UNCHANGED <<refs, active>>
  BY <1>1, <1>4, OnlyEnds
<1>5. CASE refs' = [refs EXCEPT ![b] = h] /\ active' = b /\ call' = [call EXCEPT ![t] = d]
  <2>1. /\ d \in Calls /\ d.pc = "advance" /\ d.cmd = "pull" /\ d.name = b /\ d.head = h /\ d.upto = c.upto
        /\ d.source = c.source
    BY <1>1, <1>2, <1>3 DEF Calls
  <2> HIDE DEF d, h
  <2>2. /\ refs' \in [Refs -> Histories] /\ refs'[b] = h /\ \A r \in Refs \ {b} : refs'[r] = refs[r]
    BY <1>2, <1>3, <1>5
  <2>3. call' \in [Terminals -> Calls] /\ call'[t] = d
    BY <1>5, <2>1 DEF IInv, TypeOK
  <2>4. \A r \in Refs \ (Branch \cup Temps) : refs[r] \subseteq refs'[r]
    BY <1>1, <2>2
  <2>5. TypeOK' /\ RootInv' /\ SyncedInv'
    BY <1>1, <1>2, <1>3, <1>5, <2>2, <2>3, <2>4, OriginsGrow DEF IInv, TypeOK, RootInv, Exists
  <2>6. \A q \in Branch : Tracking(q)' = Tracking(q)
    BY <1>1, <2>2, Names DEF Tracking
  <2>7. \A q \in Branch : sidecar[Origin(q)] \subseteq refs[Origin(q)] /\ sidecar[q] \subseteq Tracking(q)
    <3>1. \A u \in Terminals : u = t
      BY DEF Sound
    <3> QED
      BY <1>1, <3>1 DEF IInv, SidecarInv
  <2>8. SidecarInv'
    BY <1>1, <2>4, <2>6, <2>7, Names DEF SidecarInv
  <2>9. StepInv(t)'
    BY <1>1, <2>1, <2>3 DEF IInv, StepInv, Applying, Checkouts
  <2>10. PlaceInv(t)'
    BY <1>1, <1>3, <1>5, <2>1, <2>2, <2>3 DEF PlaceInv, Exists, Checkouts, Syncs
  <2>11. Tracking(b) \subseteq h /\ sidecar[b] \subseteq Tracking(b)
    BY <1>1, <2>7 DEF h
  <2>12. AnswerInv(t)'
    BY <1>1, <1>3, <2>1, <2>3, <2>6, <2>11 DEF AnswerInv, Applying
  <2> QED
    BY <2>5, <2>8, <2>9, <2>10, <2>12, OneTerminal
<1>6. refs' = [refs EXCEPT ![b] = h] => refs'[b] = h
  BY <1>2
<1> QED
  BY <1>2, <1>4, <1>5, <1>6 DEF MergeTracking

LEMMA AdvanceTrackingInv ==
  ASSUME IInv, Sound, NEW t \in Terminals, AdvanceTracking(t)
  PROVE  IInv'
<1> DEFINE c == call[t]
           b == c.name
           d == [c EXCEPT !.pc = "save"]
<1>1. /\ c.pc = "advance" /\ c.cmd = "pull" /\ b \in Branch /\ config = b /\ Exists(b) /\ active = b
      /\ c.upto \cup Tracking(b) \cup sidecar[b] \subseteq c.head \cup Root /\ 0 \in c.head
      /\ UNCHANGED <<active, config, synced, sidecar, server, made>>
  BY DEF AdvanceTracking, At, IInv, StepInv, PlaceInv, AnswerInv, Syncs, names, remote
<1>2. /\ b \in Refs /\ Origin(b) \in Refs /\ b # Origin(b) /\ c \in Calls /\ c.head \in Histories
      /\ refs \in [Refs -> Histories] /\ Tracking(b) = refs[Origin(b)]
  BY <1>1, Names, Fields DEF IInv, TypeOK, Tracking
<1>3. /\ refs' \in [Refs -> Histories] /\ refs'[Origin(b)] = c.head
      /\ \A r \in Refs \ {Origin(b)} : refs'[r] = refs[r]
  BY <1>2 DEF AdvanceTracking
<1>4. d \in Calls /\ d.pc = "save" /\ d.cmd = "pull" /\ d.name = b /\ d.upto = c.upto /\ d.source = c.source
  BY <1>1, <1>2 DEF Calls
<1>5. call' = [call EXCEPT ![t] = d]
  BY DEF AdvanceTracking, Step
<1> HIDE DEF d
<1>6. call' \in [Terminals -> Calls] /\ call'[t] = d
  BY <1>4, <1>5 DEF IInv, TypeOK
<1>7. refs[Origin(b)] \cup c.upto \cup sidecar[b] \subseteq c.head
  BY <1>1, <1>2 DEF Root
<1>8. \A r \in Refs \ (Branch \cup Temps) : refs[r] \subseteq refs'[r]
  BY <1>3, <1>7
<1>9. TypeOK' /\ RootInv' /\ SyncedInv'
  BY <1>1, <1>2, <1>3, <1>6, <1>8, OriginsGrow DEF IInv, TypeOK, RootInv, Exists
<1>10. SidecarInv'
  <2>1. ASSUME NEW q \in Branch
        PROVE  sidecar[Origin(q)] \subseteq refs'[Origin(q)] /\ sidecar[q] \subseteq refs'[Origin(q)]
    <3>1. \A u \in Terminals : u = t
      BY DEF Sound
    <3>2. sidecar[Origin(q)] \subseteq refs[Origin(q)] /\ (sidecar[q] \subseteq refs[Origin(q)] \/ q = b)
      BY <3>1 DEF IInv, SidecarInv, Tracking
    <3> QED
      BY <1>3, <1>7, <1>8, <3>2, Names
  <2> QED
    BY <1>1, <2>1 DEF SidecarInv, Tracking
<1>11. StepInv(t)'
  BY <1>1, <1>4, <1>6 DEF IInv, StepInv, Applying, Checkouts
<1>12. PlaceInv(t)'
  BY <1>1, <1>2, <1>3, <1>4, <1>6 DEF PlaceInv, Exists, Checkouts, Syncs
<1>13. AnswerInv(t)'
  <2>1. \A q \in Branch : Tracking(q)' = refs'[Origin(q)]
    BY DEF Tracking
  <2> QED
    BY <1>1, <1>3, <1>4, <1>6, <1>7, <2>1 DEF AnswerInv, Applying
<1> QED
  BY <1>9, <1>10, <1>11, <1>12, <1>13, OneTerminal

LEMMA SaveSyncStateInv ==
  ASSUME IInv, Sound, NEW t \in Terminals, SaveSyncState(t)
  PROVE  IInv'
<1> DEFINE c == call[t]
           d == [c EXCEPT !.pc = "switch"]
<1>1. /\ c.pc = "save" /\ c.cmd \in Checkouts \cup {"pull", "fetch"} /\ c.cmd # "checkout" /\ c.name \in Branch
      /\ c.cmd \in Syncs => config = c.name /\ Exists(c.name)
      /\ c.cmd \in Checkouts /\ c.source # "local" => ~Exists(c.name)
      /\ c.cmd = "pull" \/ (c.cmd = "fetch" /\ c.todo = {}) =>
           active = c.name \/ active = Origin(c.name) \/ (active \in Temps /\ c.upto \subseteq Root)
      /\ c.upto \subseteq Tracking(c.name) \cup Root
      /\ UNCHANGED <<refs, active, config, sidecar, server, made>>
      /\ synced' = [branch |-> c.name, head |-> c.upto]
  BY DEF SaveSyncState, At, IInv, StepInv, PlaceInv, AnswerInv, Applying, Syncs, Checkouts, remote
<1>2. c \in Calls /\ c.upto \in Histories /\ c.name \in Refs /\ Tracking(c.name) = refs[Origin(c.name)]
  BY <1>1, Fields DEF IInv, Tracking
<1>3. synced' \in [branch : Refs, head : Histories] /\ synced'.branch = c.name /\ synced'.head = c.upto
  BY <1>1, <1>2
<1>4. SyncedInv' /\ RootInv'
  BY <1>1, <1>2, <1>3 DEF SyncedInv, IInv, RootInv, Home, Exists
<1>5. CASE AfterSave(t) = "idle"
  <2>1. c.cmd \in {"pull", "fetch"} /\ c.cmd \notin Checkouts /\ ~(c.cmd = "fetch" /\ c.todo # {})
    BY <1>1, <1>5 DEF AfterSave
  <2>2. call' \in [Terminals -> Calls] /\ call'[t] = Idle
    BY <1>5, IdleCall DEF SaveSyncState, Ends, IInv, TypeOK
  <2>3. (TypeOK /\ Placed)'
    BY <1>1, <1>3, <2>1, <2>2 DEF IInv, TypeOK, Exists, Placed, Syncs
  <2> QED
    BY <1>1, <1>4, <2>2, <2>3, IdleInv
<1>6. CASE AfterSave(t) # "idle"
  <2>1. c.cmd \in Checkouts \cup {"fetch"} /\ AfterSave(t) = "switch"
    BY <1>6 DEF AfterSave
  <2>2. d \in Calls /\ d.pc = "switch" /\ d.cmd = c.cmd /\ d.name = c.name /\ d.source = c.source /\ d.upto = c.upto
    BY <1>2 DEF Calls
  <2>3. call' = [call EXCEPT ![t] = d]
    BY <1>6, <2>1 DEF SaveSyncState, Step
  <2> HIDE DEF d
  <2>4. call' \in [Terminals -> Calls] /\ call'[t] = d
    BY <2>2, <2>3 DEF IInv, TypeOK
  <2>5. TypeOK'
    BY <1>1, <1>3, <2>4 DEF IInv, TypeOK, Exists
  <2>6. SidecarInv'
    <3>1. \A u \in Terminals : u = t
      BY DEF Sound
    <3> QED
      BY <1>1, <3>1, Names DEF IInv, SidecarInv, Tracking
  <2>7. StepInv(t)'
    BY <1>1, <2>1, <2>2, <2>4 DEF IInv, StepInv, Applying
  <2>8. PlaceInv(t)'
    BY <1>1, <2>2, <2>4 DEF PlaceInv, Exists
  <2>9. AnswerInv(t)'
    BY <1>1, <2>2, <2>4 DEF AnswerInv, Applying, Tracking
  <2> QED
    BY <1>4, <2>5, <2>6, <2>7, <2>8, <2>9, OneTerminal
<1> QED
  BY <1>5, <1>6

-----------------------------------------------------------------------------
\* A push.

LEMMA PushCollectsInv ==
  ASSUME IInv, Sound, NEW t \in Terminals, PushCollects(t)
  PROVE  IInv'
<1> DEFINE c == call[t]
           batch == refs[active] \ (Tracking(c.name) \cup {0})
           d == [c EXCEPT !.todo = batch]
<1>1. /\ c.pc = "send" /\ c.cmd = "push" /\ config = c.name /\ Exists(c.name) /\ Placed
      /\ Tracking(c.name) \subseteq refs[c.name]
      /\ UNCHANGED <<refs, active, config, synced, sidecar, server, made>>
  BY DEF PushCollects, At, IInv, StepInv, PlaceInv, AnswerInv, Syncs, names, remote
<1>2. CASE Ends(t)
  BY <1>1, <1>2, OnlyEnds
<1>3. CASE c.name \in Branch /\ batch # {} /\ call' = [call EXCEPT ![t] = d]
  <2>1. /\ c \in Calls /\ batch \in Histories
        /\ batch \subseteq refs[c.name] \cup (IF active \in Temps THEN refs[active] ELSE {})
    <3>1. c \in Calls /\ refs[active] \in Histories
      BY Fields DEF IInv, TypeOK
    <3>2. batch \in Histories
      BY <3>1, HistoryOps
    <3>3. active = c.name \/ active = Origin(c.name) \/ active \in Temps
      BY <1>1 DEF Placed
    <3>4. Tracking(c.name) = refs[Origin(c.name)]
      BY <1>3 DEF Tracking
    <3> QED
      BY <3>1, <3>2, <3>3, <3>4
  <2>2. d \in Calls /\ d.pc = "send" /\ d.cmd = "push" /\ d.name = c.name /\ d.todo = batch
        /\ d.source = c.source
    BY <1>1, <2>1 DEF Calls
  <2> HIDE DEF d, batch
  <2>3. call' \in [Terminals -> Calls] /\ call'[t] = d
    BY <1>3, <2>2 DEF IInv, TypeOK
  <2>4. StepInv(t)' /\ PlaceInv(t)'
    BY <1>1, <1>3, <2>2, <2>3 DEF IInv, StepInv, PlaceInv, Placed, Applying, Checkouts, Syncs, Exists
  <2>5. AnswerInv(t)'
    BY <1>1, <2>1, <2>2, <2>3 DEF AnswerInv, Applying, Tracking
  <2> QED
    BY <1>1, <2>3, <2>4, <2>5, OnlyCall DEF IInv, TypeOK
<1> QED
  BY <1>2, <1>3 DEF PushCollects

LEMMA PushSendsInv ==
  ASSUME IInv, Sound, NEW t \in Terminals, PushSends(t)
  PROVE  IInv'
<1> DEFINE c == call[t]
           d == [c EXCEPT !.pc = "mark"]
<1>1. /\ c.pc = "send" /\ c.cmd = "push" /\ config = c.name /\ Exists(c.name) /\ Placed
      /\ Tracking(c.name) \subseteq refs[c.name] /\ c.name \in Branch
      /\ UNCHANGED <<refs, active, config, synced, sidecar, made>>
  BY DEF PushSends, At, IInv, StepInv, PlaceInv, AnswerInv, Syncs, names
<1>2. CASE Ends(t) /\ UNCHANGED server
  BY <1>1, <1>2, OnlyEnds
<1>3. CASE server' = [server EXCEPT ![c.name] = @ \cup {0} \cup c.todo] /\ Step(t, "mark")
  <2>1. d \in Calls /\ d.pc = "mark" /\ d.cmd = "push" /\ d.name = c.name /\ d.source = c.source
    BY <1>1, Fields DEF Calls, IInv
  <2>2. server[c.name] \cup {0} \cup c.todo \in Histories
    <3>1. server[c.name] \in Histories /\ c.todo \in Histories
      BY <1>1, Fields DEF IInv, TypeOK
    <3> QED
      BY <3>1, HistoryOps DEF Root
  <2>3. server' \in [Branch -> Histories]
    BY <1>3, <2>2 DEF IInv, TypeOK
  <2>4. call' = [call EXCEPT ![t] = d]
    BY <1>3 DEF Step
  <2> HIDE DEF d
  <2>5. call' \in [Terminals -> Calls] /\ call'[t] = d
    BY <2>1, <2>4 DEF IInv, TypeOK
  <2>6. StepInv(t)' /\ PlaceInv(t)'
    BY <1>1, <2>1, <2>5 DEF IInv, StepInv, PlaceInv, Placed, Applying, Checkouts, Syncs, Exists
  <2>7. AnswerInv(t)'
    BY <1>1, <2>1, <2>5 DEF AnswerInv, Applying, Tracking
  <2> QED
    BY <1>1, <2>3, <2>5, <2>6, <2>7, OnlyCall
<1> QED
  BY <1>2, <1>3 DEF PushSends

LEMMA PushMarksInv ==
  ASSUME IInv, Sound, NEW t \in Terminals, PushMarks(t)
  PROVE  IInv'
<1> DEFINE c == call[t]
           b == c.name
<1>1. /\ c.pc = "mark" /\ c.cmd = "push" /\ config = b /\ Exists(b) /\ Placed
      /\ Tracking(b) \subseteq refs[b] /\ b \in Branch
      /\ UNCHANGED <<active, config, synced, sidecar, server, made>>
  BY DEF PushMarks, At, IInv, StepInv, PlaceInv, AnswerInv, Syncs, names, remote
<1>2. /\ b \in Refs /\ Origin(b) \in Refs /\ b # Origin(b) /\ refs \in [Refs -> Histories]
      /\ refs[Origin(b)] \subseteq refs[b]
  BY <1>1, Names DEF IInv, TypeOK, Tracking
<1>3. /\ refs' \in [Refs -> Histories] /\ refs'[Origin(b)] = refs[b]
      /\ \A r \in Refs \ {Origin(b)} : refs'[r] = refs[r]
  BY <1>1, <1>2 DEF PushMarks
<1>4. call' \in [Terminals -> Calls] /\ call'[t] = Idle
  BY IdleCall DEF PushMarks, Ends, IInv, TypeOK
<1>5. \A r \in Refs \ (Branch \cup Temps) : refs[r] \subseteq refs'[r]
  BY <1>2, <1>3
<1>6. (TypeOK /\ RootInv /\ SyncedInv /\ Placed)'
  BY <1>1, <1>2, <1>3, <1>4, <1>5, OriginsGrow DEF IInv, TypeOK, RootInv, Exists, Placed
<1> QED
  BY <1>1, <1>4, <1>5, <1>6, IdleInv

-----------------------------------------------------------------------------
LEMMA NextInv ==
  ASSUME IInv, Sound, Next
  PROVE  IInv'
<1>1. CASE World
  BY <1>1, UserCommitsInv, OthersPushInv, OthersBranchInv DEF World
<1>2. ASSUME NEW t \in Terminals, Command(t) PROVE IInv'
  <2>1. CASE \E b \in Branch : CreatesBranch(t, b) \/ DeletesBranch(t, b)
    BY <2>1, CreatesBranchInv, DeletesBranchInv
  <2>2. CASE \E a, b \in Branch : Merges(t, a, b)
    BY <2>2, MergesInv
  <2>3. CASE \E b \in Branch, cmd \in Checkouts : CheckoutBegins(t, b, cmd)
    BY <2>3, CheckoutBeginsInv
  <2>4. CASE \E cmd \in Syncs : SyncBegins(t, cmd)
    BY <2>4, SyncBeginsInv
  <2>5. CASE CheckoutAsks(t) \/ Switch(t) \/ Request(t)
    BY <2>5, CheckoutAsksInv, SwitchInv, RequestInv
  <2>6. CASE ApplyBegins(t) \/ ApplyFinishes(t) \/ ApplyFails(t)
    BY <2>6, ApplyBeginsInv, ApplyFinishesInv, ApplyFailsInv
  <2>7. CASE MergeTracking(t) \/ AdvanceTracking(t) \/ SaveSyncState(t)
    BY <2>7, MergeTrackingInv, AdvanceTrackingInv, SaveSyncStateInv
  <2>8. CASE PushCollects(t) \/ PushSends(t) \/ PushMarks(t)
    BY <2>8, PushCollectsInv, PushSendsInv, PushMarksInv
  <2> QED
    BY <1>2, <2>1, <2>2, <2>3, <2>4, <2>5, <2>6, <2>7, <2>8 DEF Command
<1> QED
  BY <1>1, <1>2 DEF Next

LEMMA StutterInv ==
  ASSUME IInv, UNCHANGED vars
  PROVE  IInv'
<1> USE DEF vars, names, remote
<1>1. TypeOK' /\ RootInv' /\ SyncedInv' /\ SidecarInv'
  BY DEF IInv, TypeOK, RootInv, SyncedInv, SidecarInv, Exists, Home, Tracking
<1>2. ASSUME NEW t \in Terminals PROVE (StepInv(t) /\ PlaceInv(t) /\ AnswerInv(t))'
  BY DEF IInv, StepInv, PlaceInv, AnswerInv, Placed, Exists, Tracking, BaseOf
<1> QED
  BY <1>1, <1>2 DEF IInv

\* The invariant of every reachable state.
LEMMA Invariance ==
  ASSUME Sound
  PROVE  Spec => []IInv
<1>1. IInv /\ [Next]_vars => IInv'
  BY NextInv, StutterInv
<1> QED
  BY <1>1, InitInv, PTL DEF Spec

-----------------------------------------------------------------------------
\* Every variable keeps its type: no command leaves a branch checked out that
\* does not exist.
THEOREM TypeSafe == ASSUME Sound PROVE Spec => []TypeOK
<1>1. IInv => TypeOK
  BY DEF IInv
<1> QED
  BY <1>1, Invariance, PTL

\* The head saved in .deltix-sync-state is covered by the branch it is saved for
\* or by its origin/<branch>, whatever is re-keyed, rolled back or checked out.
THEOREM SyncedHeadSafe == ASSUME Sound PROVE Spec => []SyncedHeadIsPresent
<1>1. ASSUME IInv PROVE SyncedHeadIsPresent
  <2>1. synced.head \subseteq Home(synced.branch) \cup Root
    BY <1>1 DEF IInv, SyncedInv
  <2>2. Home(synced.branch) \subseteq refs[synced.branch] \cup Tracking(synced.branch)
    BY DEF Home, Tracking
  <2> QED
    BY <2>1, <2>2 DEF SyncedHeadIsPresent, Root
<1> QED
  BY <1>1, Invariance, PTL

\* The steps that a command can take next.
LEMMA StepAt ==
  ASSUME Sound, NEW t \in Terminals, [Next]_vars, call' # call
  PROVE  /\ Command(t)
         /\ call[t].pc = "save" => SaveSyncState(t)
         /\ call[t].pc = "switch" => Switch(t)
         /\ call[t].pc = "send" => PushCollects(t) \/ PushSends(t)
<1>1. ~World
  BY DEF World, UserCommits, OthersPush, OthersBranch
<1>2. Command(t)
  BY <1>1 DEF Next, vars, Sound
<1>3. ASSUME call[t].pc \in {"save", "switch", "send"}
      PROVE  SaveSyncState(t) \/ Switch(t) \/ PushCollects(t) \/ PushSends(t)
  BY <1>2, <1>3 DEF Command, CreatesBranch, DeletesBranch, Merges, CheckoutBegins, SyncBegins, CheckoutAsks,
                    Request, ApplyBegins, ApplyFinishes, ApplyFails, MergeTracking, AdvanceTracking, PushMarks, At
<1> QED
  BY <1>2, <1>3 DEF SaveSyncState, Switch, PushCollects, PushSends, At

\* The end of a pull or a fetch that was not refused: its branch is checked out
\* and the config names it, or it had nothing to apply to the throwaway or tracking
\* branch that an earlier failure had left checked out.
THEOREM SyncEndsInPlace == ASSUME Sound PROVE Spec => SyncEndsOnItsBranch
<1> DEFINE Ended(t) == call[t].cmd \in {"pull", "fetch"} /\ call[t].pc \in {"save", "switch"} /\ call'[t] = Idle
                         => /\ config' = call[t].name
                            /\ active' = call[t].name \/ (call[t].todo = {} /\ active' \notin Branch)
<1>1. ASSUME IInv, [Next]_vars, call' # call, NEW t \in Terminals,
             call[t].cmd \in {"pull", "fetch"}, call[t].pc \in {"save", "switch"}, call'[t] = Idle
      PROVE  config' = call[t].name /\ (active' = call[t].name \/ (call[t].todo = {} /\ active' \notin Branch))
  <2>1. call[t] \in Calls /\ config = call[t].name
    BY <1>1, Fields DEF IInv, PlaceInv, Syncs
  <2>2. CASE Switch(t)
    BY <1>1, <2>1, <2>2 DEF Switch, Persists
  <2>3. CASE SaveSyncState(t)
    <3>1. AfterSave(t) = "idle"
      <4>1. CASE AfterSave(t) # "idle"
        <5>1. AfterSave(t) = "switch" /\ call' = [call EXCEPT ![t].pc = AfterSave(t)]
          BY <2>3, <4>1 DEF SaveSyncState, Step, AfterSave
        <5>2. [call[t] EXCEPT !.pc = "switch"].pc = "switch"
          BY <2>1 DEF Calls
        <5>3. call'[t] = [call[t] EXCEPT !.pc = "switch"]
          BY <1>1, <5>1 DEF IInv, TypeOK
        <5> QED
          BY <1>1, <5>2, <5>3 DEF Idle
      <4> QED
        BY <4>1
    <3>2. call[t].cmd = "pull" \/ (call[t].cmd = "fetch" /\ call[t].todo = {})
      BY <1>1, <3>1 DEF AfterSave
    <3>3. active = call[t].name \/ (call[t].todo = {} /\ active \notin Branch)
      <4>1. call[t].name \in Branch
        BY <1>1, <2>3 DEF IInv, StepInv, SaveSyncState, At
      <4> QED
        BY <1>1, <2>3, <3>2, <4>1, Names DEF IInv, PlaceInv, SaveSyncState, At
    <3> QED
      BY <2>1, <2>3, <3>3 DEF SaveSyncState
  <2> QED
    BY <1>1, <2>2, <2>3, StepAt
<1>2. IInv /\ [Next]_vars => [\A t \in Terminals : Ended(t)]_call
  BY <1>1
<1> QED
  BY <1>2, Invariance, PTL DEF Spec, SyncEndsOnItsBranch

\* A branch that a checkout took from origin or from the server has all that
\* they had, never a branch made at the active one (issue 57).
THEOREM CheckoutIsComplete == ASSUME Sound PROVE Spec => RemoteCheckoutIsComplete
<1> DEFINE Complete(t) ==
      At(t, "switch") /\ call[t].source \in {"origin", "server"} /\ call'[t] = Idle
        => call[t].upto \cup Tracking(call[t].name) \subseteq refs'[call[t].name] \cup {0}
<1>1. ASSUME IInv, [Next]_vars, call' # call, NEW t \in Terminals, At(t, "switch"),
             call[t].source \in {"origin", "server"}
      PROVE  call[t].upto \cup Tracking(call[t].name) \subseteq refs'[call[t].name] \cup {0}
  <2> DEFINE b == call[t].name
  <2>1. Switch(t) /\ call[t].cmd \in Checkouts \cup {"fetch"} /\ b \in Branch /\ b \in Refs
    BY <1>1, StepAt, Names DEF At, IInv, StepInv
  <2>2. refs'[b] = Landing(b) /\ refs \in [Refs -> Histories]
    BY <1>1, <2>1 DEF Switch, IInv, TypeOK
  <2>3. call[t].upto \subseteq Tracking(b) \cup Root
    BY <1>1 DEF IInv, AnswerInv, At
  <2>4. CASE call[t].cmd \in Checkouts
    <3>1. ~Exists(b)
      BY <1>1, <2>4 DEF IInv, PlaceInv
    <3> QED
      BY <1>1, <2>1, <2>2, <2>3, <3>1, LandingOk DEF Root
  <2>5. CASE call[t].cmd = "fetch"
    BY <1>1, <2>5 DEF IInv, StepInv, Checkouts
  <2> QED
    BY <2>1, <2>4, <2>5
<1>2. IInv /\ [Next]_vars => [\A t \in Terminals : Complete(t)]_call
  BY <1>1
<1> QED
  BY <1>2, Invariance, PTL DEF Spec, RemoteCheckoutIsComplete

\* A push adds to the branch of the server only what the branch of that name has
\* here, or a throwaway branch that was left checked out unknown to the push.
THEOREM PushIsItsBranch == ASSUME Sound PROVE Spec => PushSendsItsBranch
<1> DEFINE SendsIt(t) ==
      At(t, "send") /\ call'[t].pc = "mark" =>
        server'[call[t].name] \subseteq server[call[t].name] \cup refs[call[t].name]
                                \cup (IF active \in Temps THEN refs[active] ELSE {})
<1>1. ASSUME IInv, [Next]_vars, NEW t \in Terminals, At(t, "send"), call'[t].pc = "mark"
      PROVE  server'[call[t].name] \subseteq server[call[t].name] \cup refs[call[t].name]
                                \cup (IF active \in Temps THEN refs[active] ELSE {})
  <2> DEFINE b == call[t].name
  <2>1. call' # call
    BY <1>1 DEF At
  <2>2. PushCollects(t) \/ PushSends(t)
    BY <1>1, <2>1, StepAt DEF At
  <2>3. CASE PushCollects(t)
    <3>1. call[t] \in Calls
      BY <1>1, Fields DEF IInv
    <3>2. call'[t] = Idle \/ \E batch : call'[t] = [call[t] EXCEPT !.todo = batch]
      BY <2>3, <1>1 DEF PushCollects, Ends, IInv, TypeOK
    <3>3. Idle.pc # "mark" /\ \A batch : [call[t] EXCEPT !.todo = batch].pc = call[t].pc
      BY <3>1 DEF Idle, Calls
    <3> QED
      BY <1>1, <3>2, <3>3 DEF At
  <2>4. CASE PushSends(t)
    <3> DEFINE here == refs[b] \cup (IF active \in Temps THEN refs[active] ELSE {})
    <3>1. call[t].name \in Branch /\ call[t].todo \subseteq here /\ 0 \in refs[b] /\ b \in Refs
      <4>1. /\ call[t].name \in Branch /\ call[t].todo \subseteq here
            /\ call[t].cmd = "push" /\ Exists(b)
        BY <1>1, <2>4 DEF PushSends, At, IInv, StepInv, PlaceInv, AnswerInv, Syncs
      <4> QED
        BY <1>1, <4>1, Names DEF IInv, RootInv
    <3>2. server' = server \/ server' = [server EXCEPT ![b] = @ \cup {0} \cup call[t].todo]
      BY <2>4 DEF PushSends
    <3> QED
      BY <1>1, <3>1, <3>2 DEF IInv, TypeOK
  <2> QED
    BY <2>2, <2>3, <2>4
<1>2. IInv /\ [Next]_vars => [\A t \in Terminals : SendsIt(t)]_server
  BY <1>1
<1> QED
  BY <1>2, Invariance, PTL DEF Spec, PushSendsItsBranch

-----------------------------------------------------------------------------
\* A step keeps every commit when each branch is still covered by one.

LEMMA StillKnown ==
  ASSUME \A r \in Refs : \E q \in Refs : refs[r] \subseteq refs'[q],
         \A b \in Branch : server[b] \subseteq server'[b]
  PROVE  Known \subseteq Known'
BY DEF Known

\* One ref that grows, or that did not exist.
LEMMA OneRefKept ==
  ASSUME IInv, NEW r \in Refs, NEW h, refs[r] \subseteq h, refs' = [refs EXCEPT ![r] = h], server' = server
  PROVE  Known \subseteq Known'
<1>1. \A q \in Refs : refs[q] \subseteq refs'[q]
  BY DEF IInv, TypeOK
<1> QED
  BY <1>1, StillKnown

LEMMA WorldKeeps ==
  ASSUME IInv, World
  PROVE  Known \subseteq Known'
<1>1. CASE UserCommits
  <2>1. \A q \in Refs : refs[q] \subseteq refs'[q]
    BY <1>1 DEF UserCommits, IInv, TypeOK
  <2> QED
    BY <1>1, <2>1, StillKnown DEF UserCommits
<1>2. ASSUME NEW b \in Branch, OthersPush(b) PROVE Known \subseteq Known'
  <2>1. \A q \in Branch : server[q] \subseteq server'[q]
    BY <1>2 DEF OthersPush, IInv, TypeOK
  <2> QED
    BY <1>2, <2>1, StillKnown DEF OthersPush
<1>3. ASSUME NEW a \in Branch, NEW b \in Branch, OthersBranch(a, b) PROVE Known \subseteq Known'
  <2>1. \A q \in Branch : server[q] \subseteq server'[q]
    BY <1>3 DEF OthersBranch, IInv, TypeOK
  <2> QED
    BY <1>3, <2>1, StillKnown DEF OthersBranch
<1> QED
  BY <1>1, <1>2, <1>3 DEF World

LEMMA ApplyKeeps ==
  ASSUME IInv, NEW t \in Terminals, ApplyBegins(t) \/ ApplyFinishes(t) \/ ApplyFails(t)
  PROVE  Known \subseteq Known'
<1> DEFINE c == call[t]
<1>1. refs \in [Refs -> Histories] /\ server' = server
  BY DEF ApplyBegins, ApplyFinishes, ApplyFails, remote, IInv, TypeOK
<1>2. CASE ApplyBegins(t)
  <2>1. PICK temp \in Temps : refs[temp] = {} /\ refs' = [refs EXCEPT ![temp] = BaseOf(c.target)]
    BY <1>2 DEF ApplyBegins, Exists
  <2>2. temp \in Refs
    BY <2>1, Names
  <2> QED
    BY <1>1, <2>1, <2>2, OneRefKept
<1>3. CASE ApplyFinishes(t) \/ ApplyFails(t)
  <2>1. /\ c.temp \in Refs /\ c.target \in Refs /\ c.temp # c.target /\ active = c.temp
        /\ refs[c.temp] = BaseOf(c.target)
    BY <1>3, ImportFacts DEF ApplyFinishes, ApplyFails, At
  <2>2. CASE ApplyFinishes(t)
    <3> DEFINE h == BaseOf(c.target) \cup Pending(t)
    <3>1. refs' = [[refs EXCEPT ![c.temp] = h] EXCEPT ![c.target] = h, ![c.temp] = {}]
      BY <1>1, <2>1, <2>2 DEF ApplyFinishes
    <3>2. refs[c.temp] \subseteq h /\ refs[c.target] \subseteq h
      BY <2>1 DEF BaseOf, Exists
    <3> HIDE DEF h
    <3>3. refs'[c.target] = h /\ \A r \in Refs \ {c.temp, c.target} : refs'[r] = refs[r]
      BY <1>1, <2>1, <3>1
    <3>4. \A r \in Refs : \E q \in Refs : refs[r] \subseteq refs'[q]
      BY <2>1, <3>2, <3>3
    <3> QED
      BY <1>1, <3>4, StillKnown
  <2>3. CASE ApplyFails(t) /\ Exists(c.target)
    <3>1. refs' = [refs EXCEPT ![c.temp] = {}]
      BY <2>3 DEF ApplyFails
    <3>2. refs[c.temp] = refs[c.target]
      BY <2>1, <2>3 DEF BaseOf
    <3>3. \A r \in Refs \ {c.temp} : refs'[r] = refs[r]
      BY <1>1, <3>1
    <3>4. \A r \in Refs : \E q \in Refs : refs[r] \subseteq refs'[q]
      BY <2>1, <3>2, <3>3
    <3> QED
      BY <1>1, <3>4, StillKnown
  <2>4. CASE ApplyFails(t) /\ ~Exists(c.target)
    <3>1. PICK done : refs' = [refs EXCEPT ![active] = @ \cup done]
      BY <2>4 DEF ApplyFails
    <3>2. \A q \in Refs : refs[q] \subseteq refs'[q]
      BY <1>1, <2>1, <3>1
    <3> QED
      BY <1>1, <3>2, StillKnown
  <2> QED
    BY <1>3, <2>2, <2>3, <2>4
<1> QED
  BY <1>2, <1>3

LEMMA CommandKeeps ==
  ASSUME IInv, NEW t \in Terminals, Command(t), \A b \in Branch : ~DeletesBranch(t, b)
  PROVE  Known \subseteq Known'
<1>1. ASSUME UNCHANGED <<refs, server>> PROVE Known \subseteq Known'
  BY <1>1 DEF Known
<1>2. ASSUME NEW b \in Branch, CreatesBranch(t, b) PROVE Known \subseteq Known'
  BY <1>2, Names, OneRefKept DEF CreatesBranch, NewBranch, Exists, remote
<1>3. ASSUME NEW a \in Branch, NEW b \in Branch, Merges(t, a, b) PROVE Known \subseteq Known'
  <2>1. CASE MergesOnServer(a, b) /\ UNCHANGED refs
    <3>1. \A q \in Branch : server[q] \subseteq server'[q]
      BY <2>1 DEF MergesOnServer, IInv, TypeOK
    <3> QED
      BY <2>1, <3>1, StillKnown
  <2>2. CASE refs' = [refs EXCEPT ![b] = Landing(b) \cup refs[a]] /\ UNCHANGED server
    <3>1. refs[b] \subseteq Landing(b) /\ b \in Refs
      BY Names DEF Landing, Exists
    <3>2. \A q \in Refs : refs[q] \subseteq refs'[q]
      BY <2>2, <3>1 DEF IInv, TypeOK
    <3> QED
      BY <2>2, <3>2, StillKnown
  <2> QED
    BY <1>3, <2>1, <2>2 DEF Merges, MergesHere
<1>4. CASE Switch(t)
  <2>1. call[t].name \in Refs /\ refs[call[t].name] \subseteq Landing(call[t].name)
    BY Fields DEF IInv, Landing, Exists
  <2> QED
    BY <1>4, <2>1, OneRefKept DEF Switch, remote
<1>5. CASE MergeTracking(t)
  <2>1. call[t].name \in Refs /\ refs[call[t].name] \subseteq Landing(call[t].name) \cup Tracking(call[t].name)
    BY Fields DEF IInv, Landing, Exists
  <2> QED
    BY <1>1, <1>5, <2>1, OneRefKept DEF MergeTracking, remote
<1>6. CASE AdvanceTracking(t)
  <2>1. call[t].name \in Branch /\ Tracking(call[t].name) \subseteq call[t].head
    BY <1>6 DEF AdvanceTracking, At, IInv, StepInv, AnswerInv, Root
  <2> QED
    BY <1>6, <2>1, Names, OneRefKept DEF AdvanceTracking, remote, Tracking
<1>7. CASE PushMarks(t)
  <2>1. call[t].name \in Branch /\ Tracking(call[t].name) \subseteq refs[call[t].name]
    BY <1>7 DEF PushMarks, At, IInv, StepInv, AnswerInv
  <2> QED
    BY <1>7, <2>1, Names, OneRefKept DEF PushMarks, remote, Tracking
<1>8. CASE PushSends(t)
  <2>1. \A q \in Branch : server[q] \subseteq server'[q]
    BY <1>8 DEF PushSends, IInv, TypeOK
  <2> QED
    BY <1>8, <2>1, StillKnown DEF PushSends
<1>9. CASE ApplyBegins(t) \/ ApplyFinishes(t) \/ ApplyFails(t)
  BY <1>9, ApplyKeeps
<1>10. CASE \/ \E b \in Branch, cmd \in Checkouts : CheckoutBegins(t, b, cmd)
            \/ \E cmd \in Syncs : SyncBegins(t, cmd)
            \/ CheckoutAsks(t) \/ Request(t) \/ SaveSyncState(t) \/ PushCollects(t)
  BY <1>1, <1>10 DEF CheckoutBegins, SyncBegins, CheckoutAsks, Request, SaveSyncState, PushCollects, remote
<1> QED
  BY <1>2, <1>3, <1>4, <1>5, <1>6, <1>7, <1>8, <1>9, <1>10 DEF Command

\* No fetch, pull, push, merge, checkout or rollback takes the last branch away
\* that has a commit.
THEOREM CommitsAreKept == ASSUME Sound PROVE Spec => CommitsStayReachable
<1>1. IInv /\ [Next]_vars =>
        [Known \subseteq Known' \/ \E t \in Terminals, b \in Branch : DeletesBranch(t, b)]_<<refs, server>>
  BY WorldKeeps, CommandKeeps DEF Next, vars
<1> QED
  BY <1>1, Invariance, PTL DEF Spec, CommitsStayReachable
=============================================================================
