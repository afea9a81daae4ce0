-------------------------- MODULE DeltixRows_proofs --------------------------
(***************************************************************************)
(* No push, pull or merge of DeltixSync loses a row.  The server's commits *)
(* only add rows, because a push is taken where what it brings contains    *)
(* what is there; that it does so is a matter of which rows the clients    *)
(* have from whom.                                                         *)
(***************************************************************************)
EXTENDS DeltixSync_proofs

\* Users join before they commit and do not fetch, and a branch follows its
\* sidecar: with any of the three dropped, both theorems fail.
Settled == Joining /\ Whole

Sent(r)          == \E p \in DOMAIN server : r \in server[p].rows
Got(c)           == sidecar[c]["branch"] \cup sidecar[c]["tracking"]
HasRows(c, S, h) == \A p \in S : server[p].rows \subseteq RowsAt(c, h)
Pulling(c)       == call[c].pc \in {"apply", "merge", "ref", "save"}

Ascending == \A p, q \in DOMAIN server : p <= q => server[p].rows \subseteq server[q].rows

\* A sidecar has no gap above the saved head, and names something there when
\* origin/<branch> has commits that the branch does not have.
Sidecars(c) ==
  /\ \A b \in {"branch", "tracking"} : \A p \in sidecar[c][b] : (synced[c] + 1)..p \subseteq sidecar[c][b]
  /\ tracking[c] \subseteq local[c] \/ \E q \in sidecar[c]["tracking"] : q > synced[c]

\* The rows of others came from the server, and the branch loses none of them;
\* a client without a saved head has no rows of its own.
Origins(c) ==
  /\ \A n \in DOMAIN store[c] : \A r \in store[c][n].rows :
       IF r[1] = c THEN synced[c] > 0 ELSE \E p \in Got(c) : r \in server[p].rows
  /\ \A n \in local[c] \ {0} : \A r \in store[c][n].rows : r[1] # c => r \in RowsAt(c, local[c])

\* The client's own rows that the server has, the branch has.
SentStays(c) == \A r \in Ids : r[1] = c /\ Sent(r) => r \in RowsAt(c, local[c])

Holds(c) ==
  /\ HasRows(c, 1..synced[c], local[c]) /\ HasRows(c, 1..synced[c], tracking[c])
  /\ HasRows(c, sidecar[c]["branch"], local[c]) /\ HasRows(c, sidecar[c]["tracking"], tracking[c])

\* The commits to push add to the rows of the first b on the server, each to
\* those before it.
AddsTo(c, b) ==
  \A n \in New(c) : /\ \A p \in 1..b : server[p].rows \subseteq store[c][n].rows
                    /\ store[c][n].rows \subseteq RowsAt(c, local[c])
                    /\ \A m \in New(c) : n <= m => store[c][n].rows \subseteq store[c][m].rows
Adds(c) == synced[c] = Len(server) => AddsTo(c, synced[c])

\* A history with a row of the client's own has the commit that inserted it,
\* unless the row came back from the server.
Marks(c, h) == \A k \in h \ {0} : \A r \in store[c][k].rows : r[1] = c => r[2] \in h \/ Sent(r)
MarkInv(c)  == Marks(c, local[c]) /\ Marks(c, tracking[c])

\* A pull asks for what lies above the saved head; its answer ends above what
\* the sidecars have, and above the client's own rows.
PullInv(c) ==
  /\ At(c, "apply") => call[c].todo = (synced[c] + 1)..call[c].upto
  /\ Pulling(c) => /\ Got(c) \subseteq 1..call[c].upto /\ synced[c] <= call[c].upto
                   /\ \A r \in Ids : r[1] = c /\ Sent(r) => \E p \in 1..call[c].upto : r \in server[p].rows
  /\ At(c, "merge") => HasRows(c, 1..call[c].upto, tracking[c])
  /\ At(c, "ref") => HasRows(c, 1..call[c].upto, local[c])
  /\ At(c, "save") => /\ HasRows(c, 1..call[c].upto, local[c]) /\ HasRows(c, 1..call[c].upto, tracking[c])
                      /\ tracking[c] \subseteq local[c] /\ AddsTo(c, call[c].upto)

\* A push that will be taken adds to the rows of the server.
PushInv(c) ==
  /\ \A i \in DOMAIN call[c].batch : \A r \in call[c].batch[i].rows : r[1] # c => Sent(r)
  /\ At(c, "push") /\ synced[c] = Len(server) =>
       \A i \in DOMAIN call[c].batch :
         /\ \A p \in 1..synced[c] : server[p].rows \subseteq call[c].batch[i].rows
         /\ call[c].batch[i].rows \subseteq RowsAt(c, local[c])
         /\ \A j \in DOMAIN call[c].batch : i <= j => call[c].batch[i].rows \subseteq call[c].batch[j].rows
  /\ At(c, "pushRef") => sidecar[c]["tracking"] \subseteq 1..synced[c]

BranchRows(c) == Sidecars(c) /\ Origins(c) /\ SentStays(c) /\ Holds(c) /\ Adds(c) /\ MarkInv(c)
CallRows(c)   == PullInv(c) /\ PushInv(c)

RowInv == Ascending /\ \A c \in Clients : BranchRows(c) /\ CallRows(c)

(***************************************************************************)
(* What any step keeps.                                                    *)
(***************************************************************************)
LEMMA TopIs == ASSUME NEW h \in SUBSET Nat, NEW n \in h, \A m \in h : m <= n PROVE Top(h) = n
<1>1. Top(h) \in h /\ \A m \in h : m <= Top(h)
  BY DEF Top
<1>2. n \in Nat /\ Top(h) \in Nat /\ Top(h) <= n /\ n <= Top(h)
  BY <1>1
<1> QED
  BY <1>2

LEMMA RowsStay ==
  ASSUME TypeInv, NEW c \in Clients, Keeps(c), NEW x \in Clients
  PROVE  \A h : History(x, h) => RowsAt(x, h)' = RowsAt(x, h)
<1> SUFFICES ASSUME NEW h, History(x, h) PROVE RowsAt(x, h)' = RowsAt(x, h)
  OBVIOUS
<1>1. Top(h) \in 0..Len(store[x]) /\ Len(store[x]) \in Nat /\ DOMAIN store[x] = 1..Len(store[x])
  BY RowsTyped, Typed DEF History
<1>2. Top(h) # 0 => store'[x][Top(h)] = store[x][Top(h)]
  BY <1>1 DEF Keeps, Frame, Grows
<1> QED
  BY <1>2 DEF RowsAt

\* The rows of a history are those of one of its commits.
LEMMA RowsIn ==
  ASSUME TypeInv, NEW c \in Clients, NEW h, History(c, h)
  PROVE  \A r \in RowsAt(c, h) : \E n \in h \ {0} : n \in DOMAIN store[c] /\ r \in store[c][n].rows
<1>1. Top(h) \in h /\ Len(store[c]) \in Nat /\ DOMAIN store[c] = 1..Len(store[c])
  BY RowsTyped, Typed
<1> QED
  BY <1>1 DEF RowsAt, History

LEMMA NewTop ==
  ASSUME NEW c \in Clients, NEW n \in Nat \ {0}, NEW h, h \subseteq 0..n, n \in h
  PROVE  RowsAt(c, h)' = store'[c][n].rows
<1>1. Top(h) = n
  BY TopIs
<1> QED
  BY <1>1 DEF RowsAt

LEMMA ServerStays ==
  ASSUME TypeInv, NEW c \in Clients, Keeps(c)
  PROVE  /\ Len(server) \in Nat /\ Len(server') \in Nat /\ Len(server) <= Len(server')
         /\ DOMAIN server = 1..Len(server) /\ DOMAIN server' = 1..Len(server')
         /\ \A p \in 1..Len(server) : server'[p] = server[p]
         /\ \A r : Sent(r) => Sent(r)'
         /\ \A p \in 1..Len(server) : server[p].rows \subseteq Ids
<1>1. /\ Len(server) \in Nat /\ DOMAIN server = 1..Len(server) /\ server \in Seq(Commits)
      /\ server' \in Seq(Commits) /\ Len(server) <= Len(server')
      /\ \A p \in DOMAIN server : server'[p] = server[p]
  BY Typed DEF Keeps, Types, Grows
<1>2. Len(server') \in Nat /\ DOMAIN server' = 1..Len(server')
  BY <1>1
<1>3. \A p \in 1..Len(server) : server[p].rows \subseteq Ids
  <2>1. \A p \in 1..Len(server) : server[p] \in Commits
    BY <1>1
  <2> QED
    BY <2>1 DEF Commits
<1>4. \A r : Sent(r) => Sent(r)'
  BY <1>1, <1>2 DEF Sent
<1> QED
  BY <1>1, <1>2, <1>3, <1>4

LEMMA HasStays ==
  ASSUME TypeInv, NEW c \in Clients, Keeps(c), NEW x \in Clients
  PROVE  \A S \in SUBSET (1..Len(server)) : \A h :
           (S = {} \/ History(x, h)) /\ HasRows(x, S, h) => HasRows(x, S, h)'
BY RowsStay, ServerStays DEF HasRows

\* Without origin/<branch> there is nothing that it has.
LEMMA NoTracking ==
  ASSUME TypeInv, NEW c \in Clients, HasInv(c), tracking[c] = {}
  PROVE  1..synced[c] = {} /\ sidecar[c]["tracking"] = {}
BY DEF HasInv, Covers

\* The rows of the branches of x, where they stay as they are.
LEMMA SameRows ==
  ASSUME TypeInv, NEW c \in Clients, Keeps(c), NEW x \in Clients, HasInv(x)
  PROVE  /\ local'[x] = local[x] => RowsAt(x, local[x])' = RowsAt(x, local[x])
         /\ tracking'[x] = tracking[x] /\ tracking[x] # {} => RowsAt(x, tracking[x])' = RowsAt(x, tracking[x])
         /\ local'[x] = local[x] => \A S \in SUBSET (1..Len(server)) :
              HasRows(x, S, local[x]) => HasRows(x, S, local[x])'
         /\ tracking'[x] = tracking[x] => \A S \in SUBSET (1..Len(server)) :
              HasRows(x, S, tracking[x]) /\ (tracking[x] = {} => S = {}) => HasRows(x, S, tracking[x])'
         /\ \A n \in DOMAIN store[x] : store'[x][n] = store[x][n]
         /\ local[x] \ {0} \subseteq DOMAIN store[x] /\ tracking[x] \ {0} \subseteq DOMAIN store[x]
<1>1. History(x, local[x]) /\ (tracking[x] = {} \/ History(x, tracking[x])) /\ ShapeOf(x)
      /\ Len(store[x]) \in Nat /\ DOMAIN store[x] = 1..Len(store[x])
  BY Typed DEF ShapeOf
<1>2. \A n \in DOMAIN store[x] : store'[x][n] = store[x][n]
  BY DEF Keeps, Frame, Grows
<1>3. local[x] \ {0} \subseteq DOMAIN store[x] /\ tracking[x] \ {0} \subseteq DOMAIN store[x]
  BY <1>1 DEF History
<1>4. /\ local'[x] = local[x] => RowsAt(x, local[x])' = RowsAt(x, local[x])
      /\ tracking'[x] = tracking[x] /\ tracking[x] # {} => RowsAt(x, tracking[x])' = RowsAt(x, tracking[x])
  BY <1>1, RowsStay
<1>5. /\ local'[x] = local[x] => \A S \in SUBSET (1..Len(server)) :
            HasRows(x, S, local[x]) => HasRows(x, S, local[x])'
      /\ tracking'[x] = tracking[x] => \A S \in SUBSET (1..Len(server)) :
            HasRows(x, S, tracking[x]) /\ (tracking[x] = {} => S = {}) => HasRows(x, S, tracking[x])'
  BY <1>1, HasStays
<1> QED
  BY <1>2, <1>3, <1>4, <1>5

\* A step that changes nothing of x but, perhaps, its call.
LEMMA BranchStays ==
  ASSUME TypeInv, NEW c \in Clients, Keeps(c), NEW x \in Clients, HasInv(x), BranchRows(x),
         store'[x] = store[x], local'[x] = local[x], tracking'[x] = tracking[x],
         sidecar'[x] = sidecar[x], synced'[x] = synced[x],
         \A r \in Ids : r[1] = x /\ Sent(r)' => r \in RowsAt(x, local[x])
  PROVE  BranchRows(x)'
<1>1. /\ ShapeOf(x) /\ synced[x] \in 0..Len(server) /\ Len(server) \in Nat /\ Len(server') \in Nat
      /\ Len(server) <= Len(server') /\ \A p \in 1..Len(server) : server'[p] = server[p]
  BY Typed, ServerStays DEF Own
<1>2. RowsAt(x, local[x])' = RowsAt(x, local[x]) /\ \A n \in DOMAIN store[x] : store'[x][n] = store[x][n]
  BY SameRows
<1>3. Sidecars(x)'
  BY DEF BranchRows, Sidecars
<1>4. Origins(x)'
  <2>1. Got(x)' = Got(x) /\ Got(x) \subseteq 1..Len(server)
    BY <1>1 DEF Got, ShapeOf
  <2> QED
    BY <1>1, <1>2, <2>1 DEF BranchRows, Origins
<1>5. SentStays(x)'
  BY <1>2 DEF SentStays
<1>6. Holds(x)'
  <2>1. 1..synced[x] \in SUBSET (1..Len(server)) /\ sidecar[x]["branch"] \in SUBSET (1..Len(server))
        /\ sidecar[x]["tracking"] \in SUBSET (1..Len(server))
    BY <1>1 DEF ShapeOf
  <2>2. tracking[x] = {} => 1..synced[x] = {} /\ sidecar[x]["tracking"] = {}
    BY NoTracking
  <2> QED
    BY <2>1, <2>2, SameRows DEF BranchRows, Holds
<1>7. Adds(x)'
  <2> SUFFICES ASSUME synced[x] = Len(server') PROVE AddsTo(x, synced[x])'
    BY DEF Adds
  <2>1. AddsTo(x, synced[x]) /\ \A p \in 1..synced[x] : server'[p] = server[p]
    BY <1>1 DEF BranchRows, Adds
  <2>2. New(x)' = New(x)
    BY DEF New
  <2> QED
    BY <1>2, <2>1, <2>2 DEF AddsTo
<1>8. MarkInv(x)'
  BY ServerStays DEF BranchRows, MarkInv, Marks
<1> QED
  BY <1>3, <1>4, <1>5, <1>6, <1>7, <1>8 DEF BranchRows

\* A step of another client.
LEMMA OtherRows ==
  ASSUME TypeInv, NEW c \in Clients, Keeps(c), NEW x \in Clients, x # c, HasInv(x),
         BranchRows(x), CallRows(x), \A r \in Ids : r[1] = x /\ Sent(r)' => Sent(r)
  PROVE  BranchRows(x)' /\ CallRows(x)'
<1>1. /\ store'[x] = store[x] /\ local'[x] = local[x] /\ tracking'[x] = tracking[x]
      /\ synced'[x] = synced[x] /\ call'[x] = call[x] /\ sidecar'[x] = sidecar[x]
  BY DEF Keeps, Frame
<1>2. /\ ShapeOf(x) /\ synced[x] \in 0..Len(server) /\ Len(server) \in Nat /\ Len(server') \in Nat
      /\ Len(server) <= Len(server') /\ \A p \in 1..Len(server) : server'[p] = server[p]
      /\ call[x].upto \in 0..Len(server)
  BY Typed, ServerStays DEF Own, ShapeOf
<1>3. BranchRows(x)'
  <2>1. \A r \in Ids : r[1] = x /\ Sent(r)' => r \in RowsAt(x, local[x])
    BY DEF BranchRows, SentStays
  <2> QED
    BY <1>1, <2>1, BranchStays
<1>4. RowsAt(x, local[x])' = RowsAt(x, local[x])
  BY <1>1, SameRows
<1>5. PushInv(x)'
  <2>1. \A i \in DOMAIN call[x].batch : \A r \in call[x].batch[i].rows : r[1] # x => Sent(r)'
    BY ServerStays DEF CallRows, PushInv
  <2>2. synced[x] = Len(server') => synced[x] = Len(server) /\ \A p \in 1..synced[x] : server'[p] = server[p]
    BY <1>2
  <2> QED
    BY <1>1, <1>4, <2>1, <2>2 DEF CallRows, PushInv, At
<1>6. PullInv(x)'
  <2>1. 1..call[x].upto \in SUBSET (1..Len(server)) /\ \A p \in 1..call[x].upto : server'[p] = server[p]
    BY <1>2
  <2>2. Pulling(x) => \A r \in Ids : r[1] = x /\ Sent(r)' => \E p \in 1..call[x].upto : r \in server'[p].rows
    BY <2>1 DEF CallRows, PullInv
  <2>3. At(x, "merge") \/ At(x, "save") => (tracking[x] = {} => 1..call[x].upto = {})
    <3>1. At(x, "merge") \/ At(x, "save") => Covers(x, 1..call[x].upto, tracking[x])
      BY DEF HasInv
    <3> QED
      BY <3>1 DEF Covers
  <2>4. At(x, "save") => AddsTo(x, call[x].upto)'
    <3>1. New(x)' = New(x)
      BY <1>1 DEF New
    <3>2. At(x, "save") => AddsTo(x, call[x].upto)
      BY DEF CallRows, PullInv
    <3> QED
      BY <1>1, <1>4, <2>1, <3>1, <3>2 DEF AddsTo
  <2>5. Got(x)' = Got(x)
    BY <1>1 DEF Got
  <2>6. /\ At(x, "merge") => HasRows(x, 1..call[x].upto, tracking[x])'
        /\ At(x, "ref") => HasRows(x, 1..call[x].upto, local[x])'
        /\ At(x, "save") => HasRows(x, 1..call[x].upto, local[x])' /\ HasRows(x, 1..call[x].upto, tracking[x])'
    BY <1>1, <2>1, <2>3, SameRows DEF CallRows, PullInv
  <2> QED
    BY <1>1, <2>2, <2>4, <2>5, <2>6 DEF CallRows, PullInv, Pulling, At
<1> QED
  BY <1>3, <1>5, <1>6 DEF CallRows

LEMMA IdleCall == ASSUME NEW c \in Clients, call'[c] = Idle PROVE CallRows(c)'
<1>1. call'[c].pc = "idle" /\ call'[c].batch = << >> /\ DOMAIN << >> = {}
  BY IdleFields
<1> QED
  BY <1>1 DEF CallRows, PullInv, PushInv, Pulling, At

(***************************************************************************)
(* The user's commits, also beside a command.                              *)
(***************************************************************************)
LEMMA UserRows ==
  ASSUME Settled, TypeInv, NEW c \in Clients, HasInv(c), BranchRows(c), CallRows(c), User(c)
  PROVE  BranchRows(c)' /\ CallRows(c)'
<1> DEFINE n == Len(store[c]) + 1
           ours == RowsAt(c, local[c])
           theirs == RowsAt(c, tracking[c])
<1>1. /\ Keeps(c) /\ UNCHANGED <<server, tracking, sidecar, synced, call>>
      /\ Len(server) \in Nat /\ DOMAIN server = 1..Len(server) /\ ShapeOf(c) /\ synced[c] \in 0..Len(server)
      /\ Len(store[c]) \in Nat /\ DOMAIN store[c] = 1..Len(store[c]) /\ n \in Nat \ {0}
      /\ call[c].upto \in 0..Len(server)
  BY UserType, Typed DEF Own, ShapeOf
<1>2. CASE store' = store /\ local' = local
  <2>1. \A r \in Ids : r[1] = c /\ Sent(r)' => r \in RowsAt(c, local[c])
    BY <1>1 DEF BranchRows, SentStays, Sent
  <2>2. BranchRows(c)'
    BY <1>1, <1>2, <2>1, BranchStays
  <2>3. CallRows(c)'
    BY <1>1, <1>2 DEF CallRows, PullInv, PushInv, Pulling, At, Got, Sent, HasRows, RowsAt, AddsTo, New
  <2> QED
    BY <2>2, <2>3
<1>3. ASSUME NEW add, NEW rows, Len(store'[c]) = n, local'[c] = local[c] \cup add \cup {n},
             store'[c][n].rows = rows,
             \/ add = {} /\ rows = ours \cup {<<c, n>>} /\ synced[c] > 0
             \/ add = tracking[c] /\ tracking[c] # {} /\ rows = ours \cup theirs /\ At(c, "idle")
      PROVE  BranchRows(c)' /\ CallRows(c)'
  <2>1. /\ DOMAIN store'[c] = 1..n /\ \A m \in DOMAIN store[c] : store'[c][m] = store[c][m]
        /\ n \notin DOMAIN store[c] /\ \A m \in DOMAIN store'[c] : m = n \/ m \in DOMAIN store[c]
    <3>1. store'[c] \in Seq(Objects)
      BY <1>1 DEF Keeps, Types
    <3>2. DOMAIN store'[c] = 1..n
      BY <1>1, <1>3, <3>1
    <3> QED
      BY <1>1, <3>2 DEF Keeps, Grows
  <2>2. History(c, local[c]) /\ (tracking[c] # {} => History(c, tracking[c]))
    BY <1>1 DEF ShapeOf
  <2>3. /\ local[c] \subseteq local'[c] /\ n \in local'[c] /\ local'[c] \subseteq 0..n
        /\ \A m \in local'[c] \ {0} : m = n \/ (m \in DOMAIN store[c] /\ (m \in local[c] \/ m \in add))
    BY <1>1, <1>3, <2>2 DEF History
  <2>4. RowsAt(c, local[c])' = rows
    <3>1. \A h : h \subseteq 0..n /\ n \in h => RowsAt(c, h)' = store'[c][n].rows
      BY <1>1, NewTop
    <3> QED
      BY <1>3, <2>3, <3>1
  <2>5. ours \subseteq rows
    BY <1>3
  <2>6. /\ \A r \in ours : \E m \in local[c] \ {0} : m \in DOMAIN store[c] /\ r \in store[c][m].rows
        /\ tracking[c] # {} =>
             \A r \in theirs : \E m \in tracking[c] \ {0} : m \in DOMAIN store[c] /\ r \in store[c][m].rows
    BY <2>2, RowsIn
  \* A row of the new commit was in an old one, or is the one that was inserted.
  <2>7. \A r \in rows : \/ r = <<c, n>> /\ synced[c] > 0
                        \/ \E m \in (local[c] \cup add) \ {0} : m \in DOMAIN store[c] /\ r \in store[c][m].rows
    BY <1>3, <2>6
  <2>8. \A r : Sent(r)' <=> Sent(r)
    BY <1>1 DEF Sent
  <2>9. Sidecars(c)'
    BY <1>1, <2>3 DEF BranchRows, Sidecars
  <2>10. Origins(c)'
    <3>1. Got(c)' = Got(c)
      BY <1>1 DEF Got
    <3>2. \A m \in DOMAIN store[c] : \A r \in store[c][m].rows :
            IF r[1] = c THEN synced[c] > 0 ELSE \E p \in Got(c) : r \in server[p].rows
      BY DEF BranchRows, Origins
    <3>3. \A m \in DOMAIN store'[c] : \A r \in store'[c][m].rows :
            IF r[1] = c THEN synced[c] > 0 ELSE \E p \in Got(c) : r \in server[p].rows
      <4> SUFFICES ASSUME NEW m \in DOMAIN store'[c], NEW r \in store'[c][m].rows
                   PROVE  IF r[1] = c THEN synced[c] > 0 ELSE \E p \in Got(c) : r \in server[p].rows
        OBVIOUS
      <4>1. CASE m \in DOMAIN store[c]
        BY <2>1, <3>2, <4>1
      <4>2. CASE m = n
        BY <1>3, <2>7, <3>2, <4>2
      <4> QED
        BY <2>1, <4>1, <4>2
    <3>4. \A m \in local'[c] \ {0} : \A r \in store'[c][m].rows : r[1] # c => r \in rows
      <4> SUFFICES ASSUME NEW m \in local'[c] \ {0}, NEW r \in store'[c][m].rows, r[1] # c PROVE r \in rows
        OBVIOUS
      <4>1. CASE m = n
        BY <1>3, <4>1
      <4>2. CASE m \in DOMAIN store[c] /\ m \in local[c]
        BY <2>1, <2>5, <4>2 DEF BranchRows, Origins
      <4>3. CASE m \in DOMAIN store[c] /\ m \in add
        <5>1. add = tracking[c] /\ rows = ours \cup theirs /\ r \in store[c][m].rows
          BY <1>3, <2>1, <4>3
        <5>2. PICK p \in Got(c) : r \in server[p].rows
          BY <3>2, <4>3, <5>1
        <5>3. r \in ours \/ r \in theirs
          BY <5>2 DEF BranchRows, Holds, HasRows, Got
        <5> QED
          BY <5>1, <5>3
      <4> QED
        BY <2>3, <4>1, <4>2, <4>3
    <3> QED
      BY <1>1, <2>4, <3>1, <3>3, <3>4 DEF Origins
  <2>11. SentStays(c)'
    BY <2>4, <2>5, <2>8 DEF BranchRows, SentStays
  <2>12. \A S : HasRows(c, S, local[c]) => HasRows(c, S, local[c])'
    BY <1>1, <2>4, <2>5 DEF HasRows
  <2>13. \A S \in SUBSET (1..Len(server)) :
            HasRows(c, S, tracking[c]) /\ (tracking[c] = {} => S = {}) => HasRows(c, S, tracking[c])'
    BY <1>1, SameRows
  <2>14. Holds(c)'
    <3>1. 1..synced[c] \in SUBSET (1..Len(server)) /\ sidecar[c]["tracking"] \in SUBSET (1..Len(server))
      BY <1>1 DEF ShapeOf
    <3> QED
      BY <1>1, <2>12, <2>13, <3>1, NoTracking DEF BranchRows, Holds
  <2>15. \A b \in Nat : HasRows(c, 1..b, local[c]) /\ AddsTo(c, b) => AddsTo(c, b)'
    <3> SUFFICES ASSUME NEW b \in Nat, HasRows(c, 1..b, local[c]), AddsTo(c, b) PROVE AddsTo(c, b)'
      OBVIOUS
    <3>1. \A m \in New(c)' : m = n \/ (m \in New(c) /\ m \in DOMAIN store[c] /\ m < n)
      BY <1>1, <1>3, <2>3 DEF New
    <3>2. \A p \in 1..b : server[p].rows \subseteq rows
      BY <2>5 DEF HasRows
    <3>3. \A m \in New(c) : store[c][m].rows \subseteq rows
      BY <2>5 DEF AddsTo
    <3>4. \A m \in New(c)' : store'[c][m].rows \subseteq rows
      BY <1>3, <2>1, <3>1, <3>3
    <3>5. \A m \in New(c)' : \A p \in 1..b : server[p].rows \subseteq store'[c][m].rows
      BY <1>3, <2>1, <3>1, <3>2 DEF AddsTo
    <3>6. ASSUME NEW m \in New(c)', NEW k \in New(c)', m <= k
          PROVE  store'[c][m].rows \subseteq store'[c][k].rows
      <4>1. CASE k = n
        BY <1>3, <3>4, <4>1
      <4>2. CASE k # n
        <5>1. k \in New(c) /\ k \in DOMAIN store[c] /\ k < n
          BY <3>1, <4>2
        <5>2. m \in New(c) /\ m \in DOMAIN store[c]
          BY <1>1, <3>1, <3>6, <5>1
        <5> QED
          BY <2>1, <3>6, <5>1, <5>2 DEF AddsTo
      <4> QED
        BY <4>1, <4>2
    <3> QED
      BY <1>1, <2>4, <3>4, <3>5, <3>6 DEF AddsTo
  <2>16. Adds(c)'
    BY <1>1, <2>15 DEF BranchRows, Adds, Holds
  <2>17. MarkInv(c)'
    <3>1. Marks(c, local[c])'
      <4> SUFFICES ASSUME NEW k \in local'[c] \ {0}, NEW r \in store'[c][k].rows, r[1] = c
                   PROVE  r[2] \in local'[c] \/ Sent(r)
        BY <2>8 DEF Marks
      <4>1. \A m \in (local[c] \cup add) \ {0} : r \in store[c][m].rows => r[2] \in local'[c] \/ Sent(r)
        BY <1>3 DEF BranchRows, MarkInv, Marks
      <4>2. CASE k = n
        <5>1. r = <<c, n>> => r[2] \in local'[c]
          BY <2>3
        <5> QED
          BY <1>3, <2>7, <4>1, <4>2, <5>1
      <4>3. CASE k # n
        BY <2>1, <2>3, <4>1, <4>3
      <4> QED
        BY <4>2, <4>3
    <3>2. Marks(c, tracking[c])'
      <4>1. \A k \in tracking[c] \ {0} : store'[c][k] = store[c][k]
        BY <1>1, SameRows
      <4> QED
        BY <1>1, <2>8, <4>1 DEF BranchRows, MarkInv, Marks
    <3> QED
      BY <3>1, <3>2 DEF MarkInv
  <2>18. PullInv(c)'
    <3>1. 1..call[c].upto \in SUBSET (1..Len(server))
      BY <1>1
    <3>2. At(c, "merge") \/ At(c, "save") => (tracking[c] = {} => 1..call[c].upto = {})
      BY DEF HasInv, Covers
    <3>3. /\ At(c, "merge") => HasRows(c, 1..call[c].upto, tracking[c])'
          /\ At(c, "ref") => HasRows(c, 1..call[c].upto, local[c])'
          /\ At(c, "save") => HasRows(c, 1..call[c].upto, local[c])' /\ HasRows(c, 1..call[c].upto, tracking[c])'
      BY <1>1, <2>12, <2>13, <3>1, <3>2 DEF CallRows, PullInv
    <3>4. At(c, "save") => AddsTo(c, call[c].upto)'
      BY <1>1, <2>15 DEF CallRows, PullInv
    <3> QED
      BY <1>1, <2>3, <2>8, <3>3, <3>4 DEF CallRows, PullInv, Pulling, At, Got
  <2>19. PushInv(c)'
    BY <1>1, <2>4, <2>5, <2>8 DEF CallRows, PushInv, At
  <2> QED
    BY <2>9, <2>10, <2>11, <2>14, <2>16, <2>17, <2>18, <2>19 DEF BranchRows, CallRows
<1>4. Joined(c) => synced[c] > 0
  BY DEF Joined, Settled, Joining
<1> HIDE DEF ours, theirs, n
<1>5. \/ store' = store /\ local' = local
      \/ Len(store'[c]) = n /\ synced[c] > 0 /\ local'[c] = local[c] \cup {n} /\ store'[c][n].rows = ours \cup {<<c, n>>}
      \/ /\ Len(store'[c]) = n /\ At(c, "idle") /\ tracking[c] # {} /\ local'[c] = local[c] \cup tracking[c] \cup {n}
         /\ store'[c][n].rows = ours \cup theirs
  BY <1>4, UserType DEF ours, theirs, n
<1>6. CASE Len(store'[c]) = n /\ synced[c] > 0 /\ local'[c] = local[c] \cup {n} /\ store'[c][n].rows = ours \cup {<<c, n>>}
  <2>1. local'[c] = local[c] \cup {} \cup {n}
    BY <1>6
  <2> QED
    BY <1>3, <1>6, <2>1
<1>7. CASE /\ Len(store'[c]) = n /\ At(c, "idle") /\ tracking[c] # {} /\ local'[c] = local[c] \cup tracking[c] \cup {n}
           /\ store'[c][n].rows = ours \cup theirs
  BY <1>3, <1>7
<1> QED
  BY <1>2, <1>5, <1>6, <1>7

(***************************************************************************)
(* The push.                                                               *)
(***************************************************************************)

\* What a client has from others, the server has.
LEMMA FromOthers ==
  ASSUME TypeInv, NEW c \in Clients, Origins(c)
  PROVE  \A n \in DOMAIN store[c] : \A r \in store[c][n].rows : r[1] # c => Sent(r)
<1>1. Got(c) \subseteq DOMAIN server
  BY Typed DEF ShapeOf, Got
<1> QED
  BY <1>1 DEF Origins, Sent

LEMMA CollectRows ==
  ASSUME TypeInv, NEW c \in Clients, HasInv(c), BranchRows(c), PushCollect(c)
  PROVE  BranchRows(c)' /\ CallRows(c)'
<1> DEFINE ns == InOrder(Unpushed(c))
<1>1. /\ UNCHANGED <<server, store, local, tracking, sidecar, synced>> /\ call'[c].pc = "push" /\ Keeps(c)
      /\ DOMAIN call'[c].batch = DOMAIN ns
      /\ \A i \in DOMAIN ns : call'[c].batch[i].rows = store[c][ns[i]].rows
  BY Collects, RequestType
<1>2. /\ Unpushed(c) \subseteq DOMAIN store[c] /\ ns \in Seq(Unpushed(c)) /\ Unpushed(c) \subseteq New(c)
      /\ \A i, j \in DOMAIN ns : i < j => ns[i] < ns[j]
  BY ToPush DEF Unpushed, New
<1>3. DOMAIN ns \subseteq Nat /\ \A i \in DOMAIN ns : ns[i] \in Unpushed(c) /\ ns[i] \in Nat
  <2>1. DOMAIN store[c] \subseteq Nat
    BY Typed
  <2> HIDE DEF ns
  <2> QED
    BY <1>2, <2>1
<1> HIDE DEF ns
<1>4. \A r : Sent(r)' <=> Sent(r)
  BY <1>1 DEF Sent
<1>5. BranchRows(c)'
  <2>1. \A r \in Ids : r[1] = c /\ Sent(r)' => r \in RowsAt(c, local[c])
    BY <1>4 DEF BranchRows, SentStays
  <2> QED
    BY <1>1, <2>1, BranchStays
<1>6. RowsAt(c, local[c])' = RowsAt(c, local[c])
  BY <1>1, SameRows
<1>7. \A i \in DOMAIN ns : \A r \in store[c][ns[i]].rows : r[1] # c => Sent(r)
  BY <1>2, <1>3, FromOthers DEF BranchRows
<1>8. ASSUME synced[c] = Len(server)
      PROVE  \A i \in DOMAIN ns :
               /\ \A p \in 1..synced[c] : server[p].rows \subseteq store[c][ns[i]].rows
               /\ store[c][ns[i]].rows \subseteq RowsAt(c, local[c])
               /\ \A j \in DOMAIN ns : i <= j => store[c][ns[i]].rows \subseteq store[c][ns[j]].rows
  <2>1. AddsTo(c, synced[c])
    BY <1>8 DEF BranchRows, Adds
  <2>2. \A i, j \in DOMAIN ns : i <= j => ns[i] <= ns[j]
    BY <1>2, <1>3
  <2> QED
    BY <1>2, <1>3, <2>1, <2>2 DEF AddsTo
<1>9. PushInv(c)'
  BY <1>1, <1>4, <1>6, <1>7, <1>8 DEF PushInv, At
<1>10. PullInv(c)'
  BY <1>1 DEF PullInv, Pulling, At
<1> QED
  BY <1>5, <1>9, <1>10 DEF CallRows

\* A push that is taken has the base that the server is at.
LEMMA TakenPush ==
  ASSUME Settled, TypeInv, RowInv, NEW c \in Clients, CallInv(c), PushRequest(c)
  PROVE  /\ \A r \in Ids : Sent(r)' => Sent(r) \/ (r[1] = c /\ r \in RowsAt(c, local[c]))
         /\ Ascending'
         /\ call'[c] # Idle => synced[c] = Len(server)
<1>1. /\ At(c, "push") /\ Keeps(c) /\ Len(server) \in Nat /\ Len(server') \in Nat
      /\ DOMAIN server = 1..Len(server) /\ DOMAIN server' = 1..Len(server')
      /\ Len(server) <= Len(server') /\ \A p \in 1..Len(server) : server'[p] = server[p]
  BY Request, ServerStays
<1>2. CASE server' = server /\ call'[c] = Idle
  BY <1>2 DEF RowInv, Ascending, Sent
<1>3. CASE /\ Accepts(call[c].from) /\ call[c].batch \in Seq(Commits) /\ Len(server') = Len(server) + Len(call[c].batch)
           /\ \A i \in DOMAIN call[c].batch : server'[Len(server) + i] = call[c].batch[i]
  <2> DEFINE b == call[c].batch
             N == Len(server)
  <2>1. synced[c] = N /\ N \in Nat
    BY <1>1, <1>3 DEF CallInv, Accepts
  <2>2. DOMAIN b = 1..Len(b) /\ Len(b) \in Nat /\ N + Len(b) \in Nat
    BY <1>3, <2>1
  <2>3. \A i \in DOMAIN b :
          /\ \A r \in b[i].rows : r[1] # c => Sent(r)
          /\ \A p \in 1..N : server[p].rows \subseteq b[i].rows
          /\ b[i].rows \subseteq RowsAt(c, local[c])
          /\ \A j \in DOMAIN b : i <= j => b[i].rows \subseteq b[j].rows
    BY <1>1, <2>1 DEF RowInv, CallRows, PushInv
  <2>4. \A p \in 1..Len(server') : p \in 1..N \/ \E i \in DOMAIN b : p = N + i /\ server'[p] = b[i]
    <3> SUFFICES ASSUME NEW p \in 1..(N + Len(b)), p \notin 1..N
                 PROVE  \E i \in DOMAIN b : p = N + i /\ server'[p] = b[i]
      BY <1>3
    <3>1. p - N \in DOMAIN b /\ p = N + (p - N)
      BY <2>1, <2>2
    <3> QED
      BY <1>3, <3>1
  <2> HIDE DEF b, N
  <2>5. \A r \in Ids : Sent(r)' => Sent(r) \/ (r[1] = c /\ r \in RowsAt(c, local[c]))
    <3> SUFFICES ASSUME NEW r \in Ids, NEW p \in DOMAIN server', r \in server'[p].rows
                 PROVE  Sent(r) \/ (r[1] = c /\ r \in RowsAt(c, local[c]))
      BY DEF Sent
    <3>1. CASE p \in 1..N
      BY <1>1, <3>1 DEF Sent, N
    <3>2. CASE \E i \in DOMAIN b : server'[p] = b[i]
      BY <2>3, <3>2
    <3> QED
      BY <1>1, <2>4, <3>1, <3>2
  <2>6. Ascending'
    <3> SUFFICES ASSUME NEW p \in 1..Len(server'), NEW q \in 1..Len(server'), p <= q
                 PROVE  server'[p].rows \subseteq server'[q].rows
      BY <1>1 DEF Ascending
    <3>1. CASE p \in 1..N /\ q \in 1..N
      BY <1>1, <3>1 DEF RowInv, Ascending, N
    <3>2. CASE p \in 1..N /\ \E i \in DOMAIN b : server'[q] = b[i]
      BY <1>1, <2>3, <3>2 DEF N
    <3>3. CASE p \notin 1..N
      <4>1. PICK i \in DOMAIN b : p = N + i /\ server'[p] = b[i]
        BY <2>4, <3>3
      <4>2. q \notin 1..N
        BY <2>1, <3>3
      <4>3. PICK j \in DOMAIN b : q = N + j /\ server'[q] = b[j]
        BY <2>4, <4>2
      <4>4. i <= j
        BY <2>1, <2>2, <4>1, <4>3
      <4> QED
        BY <2>3, <4>1, <4>3, <4>4
    <3> QED
      BY <2>4, <3>1, <3>2, <3>3
  <2> QED
    BY <2>1, <2>5, <2>6 DEF N
<1> QED
  BY <1>2, <1>3, Request

LEMMA RequestRows ==
  ASSUME Settled, TypeInv, RowInv, NEW c \in Clients, HasInv(c), CallInv(c), PushRequest(c)
  PROVE  BranchRows(c)' /\ CallRows(c)'
<1>1. /\ UNCHANGED <<store, local, tracking, sidecar, synced>> /\ Keeps(c) /\ ShapeOf(c)
      /\ BranchRows(c) /\ CallRows(c)
  BY Request, Typed DEF RowInv
<1>2. BranchRows(c)'
  <2>1. \A r \in Ids : r[1] = c /\ Sent(r)' => r \in RowsAt(c, local[c])
    BY <1>1, TakenPush DEF BranchRows, SentStays
  <2> QED
    BY <1>1, <2>1, BranchStays
<1>3. CASE call'[c] = Idle
  BY <1>2, <1>3, IdleCall
<1>4. CASE call'[c] # Idle
  <2>1. call'[c].pc \in {"pushRef", "idle"} /\ call'[c].batch \in {call[c].batch, << >>} /\ DOMAIN << >> = {}
    BY <1>4, Request
  <2>2. sidecar[c]["tracking"] \subseteq 1..synced[c]
    BY <1>1, <1>4, TakenPush DEF ShapeOf
  <2>3. \A i \in DOMAIN call[c].batch : \A r \in call[c].batch[i].rows : r[1] # c => Sent(r)'
    BY <1>1, ServerStays DEF CallRows, PushInv
  <2>4. \A i \in DOMAIN call'[c].batch : \A r \in call'[c].batch[i].rows : r[1] # c => Sent(r)'
    BY <2>1, <2>3
  <2>5. PullInv(c)' /\ PushInv(c)'
    BY <1>1, <2>1, <2>2, <2>4 DEF PullInv, PushInv, Pulling, At
  <2> QED
    BY <1>2, <2>5 DEF CallRows
<1> QED
  BY <1>3, <1>4

\* advanceRemoteRef: origin/<branch> becomes the branch.
LEMMA Advanced ==
  ASSUME TypeInv, NEW c \in Clients, HasInv(c), BranchRows(c), Keeps(c),
         UNCHANGED <<server, store, local, sidecar, synced>>, tracking'[c] = local[c],
         HasRows(c, sidecar[c]["tracking"], local[c])
  PROVE  BranchRows(c)' /\ New(c)' = {} /\ RowsAt(c, local[c])' = RowsAt(c, local[c])
<1>1. RowsAt(c, local[c])' = RowsAt(c, local[c])
  BY SameRows
<1>2. RowsAt(c, tracking[c])' = RowsAt(c, local[c])
  <2>1. History(c, local[c])
    BY Typed DEF ShapeOf
  <2> QED
    BY <2>1, RowsStay
<1>3. New(c)' = {}
  BY DEF New
<1>4. Sidecars(c)' /\ Origins(c)' /\ SentStays(c)'
  BY <1>1 DEF BranchRows, Sidecars, Origins, SentStays, Got, Sent
<1>5. Holds(c)'
  BY <1>1, <1>2 DEF BranchRows, Holds, HasRows
<1>6. Adds(c)'
  BY <1>3 DEF Adds, AddsTo
<1>7. MarkInv(c)'
  BY DEF BranchRows, MarkInv, Marks, Sent
<1> QED
  BY <1>1, <1>3, <1>4, <1>5, <1>6, <1>7 DEF BranchRows

LEMMA PushAdvanceRows ==
  ASSUME TypeInv, NEW c \in Clients, HasInv(c), BranchRows(c), CallRows(c), PushAdvance(c)
  PROVE  BranchRows(c)' /\ CallRows(c)'
<1>1. /\ UNCHANGED <<server, store, local, sidecar, synced>> /\ Keeps(c) /\ tracking'[c] = local[c]
      /\ call'[c] = Idle /\ At(c, "pushRef")
  BY RefType DEF PushAdvance
<1>2. HasRows(c, sidecar[c]["tracking"], local[c])
  BY <1>1 DEF CallRows, PushInv, BranchRows, Holds, HasRows
<1> QED
  BY <1>1, <1>2, Advanced, IdleCall

(***************************************************************************)
(* The pull.                                                               *)
(***************************************************************************)
LEMMA PullAdvanceRows ==
  ASSUME TypeInv, NEW c \in Clients, HasInv(c), CallInv(c), BranchRows(c), CallRows(c), PullAdvance(c)
  PROVE  BranchRows(c)' /\ CallRows(c)'
<1>1. /\ UNCHANGED <<server, store, local, sidecar, synced>> /\ Keeps(c) /\ At(c, "ref")
      /\ call'[c].pc = "save" /\ call'[c].upto = call[c].upto /\ call'[c].batch = call[c].batch
      /\ tracking'[c] = IF call[c].mode = "merge" THEN local[c] ELSE call[c].head
  BY RefType DEF PullAdvance
<1>2. tracking'[c] = local[c]
  <2>1. call[c].mode \in {"ff", "merge"}
    BY Typed DEF HasInv, Calls, Modes
  <2> QED
    BY <1>1, <2>1 DEF CallInv
<1>3. HasRows(c, 1..call[c].upto, local[c]) /\ Got(c) \subseteq 1..call[c].upto
  BY <1>1 DEF CallRows, PullInv, Pulling, At
<1>4. HasRows(c, sidecar[c]["tracking"], local[c])
  BY <1>3 DEF HasRows, Got
<1>5. BranchRows(c)' /\ New(c)' = {} /\ RowsAt(c, local[c])' = RowsAt(c, local[c])
  BY <1>1, <1>2, <1>4, Advanced
<1>6. RowsAt(c, tracking[c])' = RowsAt(c, local[c])
  <2>1. History(c, local[c])
    BY Typed DEF ShapeOf
  <2> QED
    BY <1>1, <1>2, <2>1, RowsStay
<1>7. PullInv(c)'
  <2>1. HasRows(c, 1..call[c].upto, local[c])' /\ HasRows(c, 1..call[c].upto, tracking[c])'
    BY <1>1, <1>3, <1>5, <1>6 DEF HasRows
  <2>2. AddsTo(c, call[c].upto)'
    BY <1>5 DEF AddsTo
  <2> QED
    BY <1>1, <1>2, <2>1, <2>2 DEF CallRows, PullInv, Pulling, At, Got, Sent
<1>8. PushInv(c)'
  BY <1>1 DEF CallRows, PushInv, At, Sent
<1> QED
  BY <1>5, <1>7, <1>8 DEF CallRows

LEMMA SaveRows ==
  ASSUME TypeInv, NEW c \in Clients, HasInv(c), BranchRows(c), CallRows(c), SaveSyncState(c)
  PROVE  BranchRows(c)' /\ CallRows(c)'
<1> DEFINE up == call[c].upto
<1>1. /\ UNCHANGED <<server, store, local, tracking, sidecar>> /\ Keeps(c) /\ At(c, "save") /\ call'[c] = Idle
      /\ synced'[c] = IF up > 0 THEN up ELSE synced[c]
      /\ up \in Nat /\ synced[c] \in Nat /\ ShapeOf(c) /\ Len(server) \in Nat /\ up <= Len(server)
  <2>1. up \in 0..Len(server) /\ synced[c] \in 0..Len(server) /\ ShapeOf(c) /\ Len(server) \in Nat
    BY Typed DEF ShapeOf, Own
  <2>2. Keeps(c) /\ call'[c] = Idle /\ synced'[c] = IF up > 0 THEN up ELSE synced[c]
    BY SaveType
  <2>3. UNCHANGED <<server, store, local, tracking, sidecar>> /\ At(c, "save")
    BY DEF SaveSyncState
  <2> QED
    BY <2>1, <2>2, <2>3
<1>2. /\ HasRows(c, 1..up, local[c]) /\ HasRows(c, 1..up, tracking[c]) /\ AddsTo(c, up)
      /\ tracking[c] \subseteq local[c] /\ Got(c) \subseteq 1..up /\ synced[c] <= up
  BY <1>1 DEF CallRows, PullInv, Pulling, At
<1>3. synced'[c] = up
  BY <1>1, <1>2
<1>4. \A r : Sent(r)' <=> Sent(r)
  BY <1>1 DEF Sent
<1>5. RowsAt(c, local[c])' = RowsAt(c, local[c])
  BY <1>1, SameRows
<1>6. Sidecars(c)'
  <2>1. \A b \in {"branch", "tracking"} : \A p \in sidecar[c][b] : (up + 1)..p = {}
    BY <1>1, <1>2 DEF Got
  <2> QED
    BY <1>1, <1>2, <1>3, <2>1 DEF Sidecars
<1>7. Origins(c)'
  <2>1. synced[c] > 0 => up > 0
    BY <1>1, <1>2
  <2> QED
    BY <1>1, <1>3, <1>5, <2>1 DEF BranchRows, Origins, Got
<1>8. SentStays(c)'
  BY <1>4, <1>5 DEF BranchRows, SentStays
<1>9. Holds(c)'
  <2>1. 1..up \in SUBSET (1..Len(server)) /\ sidecar[c]["branch"] \in SUBSET (1..Len(server))
        /\ sidecar[c]["tracking"] \in SUBSET (1..Len(server))
    BY <1>1 DEF ShapeOf
  <2>2. tracking[c] = {} => 1..up = {} /\ sidecar[c]["tracking"] = {}
    BY <1>1 DEF HasInv, Covers
  <2> QED
    BY <1>1, <1>2, <1>3, <2>1, <2>2, SameRows DEF BranchRows, Holds
<1>10. Adds(c)'
  BY <1>1, <1>2, <1>3, <1>5 DEF Adds, AddsTo, New
<1>11. MarkInv(c)'
  BY <1>1, <1>4 DEF BranchRows, MarkInv, Marks
<1> QED
  BY <1>1, <1>6, <1>7, <1>8, <1>9, <1>10, <1>11, IdleCall DEF BranchRows

LEMMA PullRequestRows ==
  ASSUME TypeInv, NEW c \in Clients, HasInv(c), BranchRows(c), PullRequest(c)
  PROVE  BranchRows(c)' /\ CallRows(c)'
<1> DEFINE sy == synced[c]
           N == Len(server)
           ans == Answer(RemoteHead(c))
<1>1. /\ UNCHANGED <<server, store, local, tracking, sidecar, synced>> /\ call'[c] = PullCall(c)
      /\ Keeps(c) /\ ShapeOf(c) /\ N \in Nat /\ DOMAIN server = 1..N /\ sy \in 0..N
  BY RequestType, Typed DEF PullRequest, Types, Own
<1>2. /\ PullCall(c).todo = ans /\ PullCall(c).upto = N /\ PullCall(c).batch = << >>
      /\ PullCall(c).pc = IF ans # {} THEN "apply" ELSE IF Diverged(c) THEN "merge" ELSE "save"
  BY Calling
<1>3. ans = (sy + 1)..N
  BY <1>1 DEF RemoteHead, Answer
<1>4. ~Diverged(c) => sy = 0 /\ (tracking[c] = {} \/ local[c] = tracking[c])
  BY <1>1 DEF Diverged, RemoteHead
<1>5. ans = {} => sy = N
  BY <1>1, <1>3
<1>6. \A r : Sent(r)' <=> Sent(r)
  BY <1>1 DEF Sent
<1>7. BranchRows(c)'
  <2>1. \A r \in Ids : r[1] = c /\ Sent(r)' => r \in RowsAt(c, local[c])
    BY <1>6 DEF BranchRows, SentStays
  <2> QED
    BY <1>1, <2>1, BranchStays
<1>8. Got(c)' \subseteq 1..N /\ \A r : Sent(r) => \E p \in 1..N : r \in server[p].rows
  BY <1>1 DEF ShapeOf, Got, Sent
<1>9. call'[c].pc \in {"merge", "save"} =>
        /\ HasRows(c, 1..call[c].upto, local[c])' /\ HasRows(c, 1..call[c].upto, tracking[c])'
        /\ AddsTo(c, call[c].upto)'
  BY <1>1, <1>2, <1>5, <1>7 DEF BranchRows, Holds, Adds
<1>10. call'[c].pc = "save" => tracking'[c] \subseteq local'[c]
  BY <1>1, <1>2, <1>4
<1> HIDE DEF ans
<1>11. call'[c].pc \in {"apply", "merge", "save"} /\ call'[c].upto = N /\ call'[c].todo = ans
  BY <1>1, <1>2
<1>12. PullInv(c)'
  BY <1>1, <1>3, <1>6, <1>8, <1>9, <1>10, <1>11 DEF PullInv, Pulling, At
<1>13. PushInv(c)'
  <2>1. DOMAIN call'[c].batch = {}
    BY <1>1, <1>2
  <2> QED
    BY <1>11, <2>1 DEF PushInv, At
<1> QED
  BY <1>7, <1>12, <1>13 DEF CallRows

\* applyCommits adds copies of the pending commits on top of its base; the
\* last of them is the head of the answer.
LEMMA Applied ==
  ASSUME TypeInv, Ascending, NEW c \in Clients, HasInv(c), BranchRows(c), CallRows(c), Apply(c),
         History(c, BaseOf(c)), HasRows(c, 1..synced[c], BaseOf(c)), HasRows(c, sidecar[c][TargetOf(c)], BaseOf(c))
  PROVE  /\ \A m \in DOMAIN store'[c] : \/ m \in DOMAIN store[c] /\ store'[c][m] = store[c][m]
                                        \/ \E p \in Pending(c) : store'[c][m].rows = server[p].rows
         /\ BaseOf(c) \subseteq Grown(c) /\ Grown(c) \ {0} \subseteq DOMAIN store'[c]
         /\ \A m \in Grown(c) : m \in BaseOf(c) \/ m \notin DOMAIN store[c]
         /\ Pending(c) = {} => Grown(c) = BaseOf(c)
         /\ Pending(c) # {} => call[c].upto \in Pending(c)
         /\ \A h : h = Grown(c) => /\ Pending(c) = {} => RowsAt(c, h)' = RowsAt(c, BaseOf(c))
                                   /\ HasRows(c, 1..call[c].upto, h)'
<1> DEFINE up == call[c].upto
           sy == synced[c]
           side == sidecar[c][TargetOf(c)]
           len == Len(store[c])
           ps == Listing(c)
           L == Len(ps)
<1>1. /\ UNCHANGED <<server, synced>> /\ At(c, "apply") /\ Keeps(c)
      /\ Len(store'[c]) = len + L /\ \A i \in DOMAIN ps : store'[c][len + i].rows = server[ps[i]].rows
      /\ call'[c].upto = up
  BY ApplyKeeps DEF Apply
<1>2. /\ len \in Nat /\ DOMAIN store[c] = 1..len /\ Len(server) \in Nat /\ DOMAIN server = 1..Len(server)
      /\ up \in 0..Len(server) /\ sy \in 0..Len(server) /\ L \in Nat /\ DOMAIN ps = 1..L
      /\ \A i \in DOMAIN ps : ps[i] \in Pending(c)
      /\ \A p \in Pending(c) : \E i \in DOMAIN ps : ps[i] = p
      /\ Pending(c) \subseteq 1..Len(server)
  BY Typed, ToApply DEF ShapeOf, Own
<1>3. /\ call[c].todo = (sy + 1)..up /\ sy <= up
      /\ Pending(c) = ((sy + 1)..up) \ side
  BY <1>1 DEF CallRows, PullInv, Pulling, At, Pending
<1>4. \A p \in side : (sy + 1)..p \subseteq side
  BY DEF BranchRows, Sidecars, TargetOf
<1>5. /\ DOMAIN store'[c] = 1..(len + L) /\ \A m \in DOMAIN store[c] : store'[c][m] = store[c][m]
  <2>1. store'[c] \in Seq(Objects) /\ \A m \in DOMAIN store[c] : store'[c][m] = store[c][m]
    BY <1>1 DEF Keeps, Types, Grows
  <2> QED
    BY <1>1, <2>1
<1>6. \A i, j \in DOMAIN ps : i < j => ps[i] < ps[j]
  <2>1. Pending(c) \in SUBSET Nat /\ IsFiniteSet(Pending(c))
    <3>1. Pending(c) \subseteq 0..Len(server)
      BY <1>2
    <3> QED
      BY <1>2, <3>1, Prefixes
  <2> QED
    BY <2>1, InOrderLists DEF Listing
<1> HIDE DEF ps, L, len
<1>7. Grown(c) = BaseOf(c) \cup {len + i : i \in 1..L}
  BY <1>2 DEF Grown, len, ps
<1>8. /\ BaseOf(c) \subseteq 0..len /\ 0 \in BaseOf(c)
  BY DEF History, len
<1>9. \A m \in DOMAIN store'[c] : \/ m \in DOMAIN store[c] /\ store'[c][m] = store[c][m]
                                  \/ \E p \in Pending(c) : store'[c][m].rows = server[p].rows
  <2> SUFFICES ASSUME NEW m \in 1..(len + L), m \notin 1..len
               PROVE  \E p \in Pending(c) : store'[c][m].rows = server[p].rows
    BY <1>2, <1>5
  <2>1. m - len \in 1..L /\ m = len + (m - len)
    BY <1>2
  <2>2. PICK i \in 1..L : m = len + i
    BY <2>1
  <2>3. store'[c][m].rows = server[ps[i]].rows /\ ps[i] \in Pending(c)
    BY <1>1, <1>2, <2>2
  <2> QED
    BY <2>3
<1>10. /\ BaseOf(c) \subseteq Grown(c) /\ Grown(c) \ {0} \subseteq DOMAIN store'[c]
       /\ \A m \in Grown(c) : m \in BaseOf(c) \/ m \notin DOMAIN store[c]
  BY <1>2, <1>5, <1>7, <1>8
<1>11. ASSUME Pending(c) # {}
       PROVE  /\ up \in Pending(c) /\ L > 0
              /\ \A h : h = Grown(c) => RowsAt(c, h)' = server[up].rows
  <2>1. up \in (sy + 1)..up
    BY <1>2, <1>3, <1>11
  <2>2. up \in Pending(c)
    BY <1>2, <1>3, <1>4, <1>11, <2>1
  <2>3. PICK i \in 1..L : ps[i] = up
    BY <1>2, <2>2
  <2>4. L \in 1..L /\ ps[L] \in Pending(c) /\ ps[L] <= up /\ ps[L] \in Nat
    <3>1. L \in 1..L
      BY <1>2, <2>3
    <3>2. ps[L] \in Pending(c)
      BY <1>2, <3>1
    <3> QED
      BY <1>2, <1>3, <3>1, <3>2
  <2>5. i = L
    <3> SUFFICES ASSUME i < L PROVE FALSE
      BY <1>2
    <3>1. ps[i] < ps[L]
      BY <1>2, <1>6, <2>4
    <3> QED
      BY <1>2, <2>3, <2>4, <3>1
  <2>6. len + L \in Nat \ {0} /\ Grown(c) \subseteq 0..(len + L) /\ len + L \in Grown(c)
    BY <1>2, <1>7, <1>8, <2>4
  <2>7. \A h : h \subseteq 0..(len + L) /\ len + L \in h => RowsAt(c, h)' = store'[c][len + L].rows
    BY <2>6, NewTop
  <2>8. store'[c][len + L].rows = server[up].rows
    BY <1>1, <1>2, <2>3, <2>5
  <2> QED
    BY <1>2, <2>2, <2>4, <2>6, <2>7, <2>8
<1>12. ASSUME Pending(c) = {} PROVE Grown(c) = BaseOf(c)
  <2>1. L = 0
    <3> SUFFICES ASSUME L # 0 PROVE FALSE
      OBVIOUS
    <3>1. 1 \in DOMAIN ps
      BY <1>2
    <3> QED
      BY <1>2, <1>12, <3>1
  <2> QED
    BY <1>7, <2>1
<1>13. \A h : h = Grown(c) => /\ Pending(c) = {} => RowsAt(c, h)' = RowsAt(c, BaseOf(c))
                              /\ HasRows(c, 1..up, h)'
  <2>1. CASE Pending(c) = {}
    <3>1. \A h : h = Grown(c) => RowsAt(c, h)' = RowsAt(c, h) /\ h = BaseOf(c)
      BY <1>1, <1>12, <2>1, RowsStay
    <3>2. 1..up \subseteq (1..sy) \cup side
      BY <1>2, <1>3, <2>1
    <3>3. \A p \in 1..up : server[p].rows \subseteq RowsAt(c, BaseOf(c))
      BY <3>2 DEF HasRows
    <3> QED
      BY <1>1, <3>1, <3>3 DEF HasRows
  <2>2. CASE Pending(c) # {}
    <3>1. \A p \in 1..up : server[p].rows \subseteq server[up].rows
      BY <1>2 DEF Ascending
    <3> QED
      BY <1>1, <1>11, <2>2, <3>1 DEF HasRows
  <2> QED
    BY <2>1, <2>2
<1> QED
  BY <1>9, <1>10, <1>11, <1>12, <1>13

LEMMA ApplyBranchRows ==
  ASSUME TypeInv, Ascending, NEW c \in Clients, HasInv(c), BranchRows(c), CallRows(c), Apply(c), call[c].mode = "ff"
  PROVE  BranchRows(c)' /\ CallRows(c)'
<1> DEFINE up == call[c].upto
           todo == call[c].todo
           tr == sidecar[c]["tracking"]
<1>1. /\ UNCHANGED <<server, synced>> /\ At(c, "apply") /\ Keeps(c) /\ synced[c] = 0
      /\ TargetOf(c) = "branch" /\ BaseOf(c) = local[c]
      /\ local'[c] = Grown(c) /\ tracking'[c] = tracking[c]
      /\ call'[c].pc = "ref" /\ call'[c].upto = up /\ call'[c].batch = call[c].batch
      /\ sidecar'[c]["branch"] = sidecar[c]["branch"] \cup todo /\ sidecar'[c]["tracking"] = tr
  <2>1. At(c, "apply") /\ TargetOf(c) = "branch" /\ AfterApply(c) = "ref" /\ UNCHANGED <<server, synced>>
    BY DEF Apply, TargetOf, AfterApply
  <2>2. sidecar[c] \in [{"branch", "tracking"} -> SUBSET (1..MaxServer)]
    BY Typed DEF Types
  <2>3. synced[c] = 0 /\ BaseOf(c) = local[c]
    BY <2>1 DEF HasInv, At, BaseOf
  <2>4. /\ Keeps(c) /\ local'[c] = Grown(c) /\ tracking'[c] = tracking[c]
        /\ sidecar'[c] = [sidecar[c] EXCEPT !["branch"] = @ \cup todo]
        /\ call'[c].pc = "ref" /\ call'[c].upto = up /\ call'[c].batch = call[c].batch
    BY <2>1, ApplyKeeps
  <2> HIDE DEF tr
  <2>5. sidecar'[c]["branch"] = sidecar[c]["branch"] \cup todo /\ sidecar'[c]["tracking"] = sidecar[c]["tracking"]
    BY <2>2, <2>4
  <2> QED
    BY <2>1, <2>3, <2>4, <2>5 DEF tr
<1>2. /\ Len(server) \in Nat /\ DOMAIN server = 1..Len(server) /\ up \in 0..Len(server)
      /\ History(c, local[c]) /\ tr \in SUBSET (1..Len(server)) /\ 1..0 = {}
  BY Typed DEF ShapeOf
<1>3. todo = 1..up /\ Got(c) \subseteq 1..up /\ Pending(c) \subseteq 1..up
  <2>1. todo = (synced[c] + 1)..up /\ Got(c) \subseteq 1..up
    BY <1>1 DEF CallRows, PullInv, Pulling, At
  <2>2. (synced[c] + 1)..up = 1..up
    BY <1>1, <1>2
  <2> QED
    BY <2>1, <2>2 DEF Pending
<1>4. Got(c)' = 1..up /\ sidecar'[c]["branch"] = 1..up
  BY <1>1, <1>3 DEF Got
<1>5. /\ \A m \in DOMAIN store'[c] : \/ m \in DOMAIN store[c] /\ store'[c][m] = store[c][m]
                                     \/ \E p \in Pending(c) : store'[c][m].rows = server[p].rows
      /\ local[c] \subseteq local'[c] /\ local'[c] \ {0} \subseteq DOMAIN store'[c]
      /\ Pending(c) = {} => local'[c] = local[c] /\ RowsAt(c, local[c])' = RowsAt(c, local[c])
      /\ HasRows(c, 1..up, local[c])'
  <2>1. HasRows(c, 1..synced[c], BaseOf(c)) /\ HasRows(c, sidecar[c][TargetOf(c)], BaseOf(c))
    BY <1>1 DEF BranchRows, Holds
  <2>2. /\ \A h : h = Grown(c) => /\ Pending(c) = {} => RowsAt(c, h)' = RowsAt(c, BaseOf(c))
                                  /\ HasRows(c, 1..call[c].upto, h)'
        /\ \A m \in DOMAIN store'[c] : \/ m \in DOMAIN store[c] /\ store'[c][m] = store[c][m]
                                       \/ \E p \in Pending(c) : store'[c][m].rows = server[p].rows
        /\ BaseOf(c) \subseteq Grown(c) /\ Grown(c) \ {0} \subseteq DOMAIN store'[c]
        /\ Pending(c) = {} => Grown(c) = BaseOf(c)
    BY <1>1, <1>2, <2>1, Applied
  <2>3. \A S : S = local'[c] => RowsAt(c, S)' = RowsAt(c, local[c])'
    BY DEF RowsAt
  <2> QED
    BY <1>1, <2>2, <2>3 DEF HasRows
\* The client has nothing of its own, neither here nor on the server.
<1>6. \A n \in DOMAIN store[c] : \A r \in store[c][n].rows : r[1] # c
  BY <1>1 DEF BranchRows, Origins
<1>7. \A r \in Ids : Sent(r) => r[1] # c
  <2> SUFFICES ASSUME NEW r \in Ids, Sent(r), r[1] = c PROVE FALSE
    OBVIOUS
  <2>1. r \in RowsAt(c, local[c])
    BY DEF BranchRows, SentStays
  <2> QED
    BY <1>2, <1>6, <2>1, RowsIn
<1>8. \A p \in 1..up : \A r \in server[p].rows : r \in Ids /\ r[1] # c
  <2>1. \A p \in 1..up : server[p].rows \subseteq Ids /\ p \in DOMAIN server
    BY <1>1, <1>2, ServerStays
  <2> QED
    BY <1>7, <2>1 DEF Sent
<1>9. \A m \in DOMAIN store'[c] : \A r \in store'[c][m].rows : r[1] # c /\ \E p \in 1..up : r \in server[p].rows
  <2> SUFFICES ASSUME NEW m \in DOMAIN store'[c], NEW r \in store'[c][m].rows
               PROVE  r[1] # c /\ \E p \in 1..up : r \in server[p].rows
    OBVIOUS
  <2>1. CASE m \in DOMAIN store[c] /\ store'[c][m] = store[c][m]
    <3>1. r[1] # c
      BY <1>6, <2>1
    <3>2. \E p \in Got(c) : r \in server[p].rows
      BY <2>1, <3>1 DEF BranchRows, Origins
    <3> QED
      BY <1>3, <3>1, <3>2
  <2>2. CASE \E p \in Pending(c) : store'[c][m].rows = server[p].rows
    BY <1>3, <1>8, <2>2
  <2> QED
    BY <1>5, <2>1, <2>2
<1>10. Sidecars(c)'
  <2>1. \A p \in 1..up : 1..p \subseteq 1..up
    BY <1>2
  <2>2. /\ \A p \in tr : (synced[c] + 1)..p \subseteq tr
        /\ tracking[c] \subseteq local[c] \/ \E q \in tr : q > synced[c]
    BY DEF BranchRows, Sidecars
  <2>3. \A p \in 1..up : (synced[c] + 1)..p \subseteq 1..up
    BY <1>1, <2>1
  <2>4. \A b \in {"branch", "tracking"} : \A p \in sidecar'[c][b] : (synced'[c] + 1)..p \subseteq sidecar'[c][b]
    BY <1>1, <1>4, <2>2, <2>3
  <2>5. tracking'[c] \subseteq local'[c] \/ \E q \in sidecar'[c]["tracking"] : q > synced'[c]
    BY <1>1, <1>5, <2>2
  <2> QED
    BY <2>4, <2>5 DEF Sidecars
<1>11. Origins(c)'
  <2>1. \A n \in local'[c] \ {0} : \A r \in store'[c][n].rows : r \in RowsAt(c, local[c])'
    <3>1. \A p \in 1..up : server[p].rows \subseteq RowsAt(c, local[c])'
      BY <1>1, <1>5 DEF HasRows
    <3> QED
      BY <1>5, <1>9, <3>1
  <2> QED
    BY <1>1, <1>4, <1>9, <2>1 DEF Origins
<1>12. SentStays(c)'
  BY <1>1, <1>7 DEF SentStays, Sent
<1>13. Holds(c)'
  <2>1. HasRows(c, tr, tracking[c])'
    BY <1>1, <1>2, NoTracking, SameRows DEF BranchRows, Holds
  <2> QED
    BY <1>1, <1>2, <1>4, <1>5, <2>1 DEF Holds, HasRows
<1>14. Adds(c)'
  <2> SUFFICES ASSUME Len(server) = 0 PROVE AddsTo(c, synced[c])'
    BY <1>1 DEF Adds
  <2>1. Pending(c) = {} /\ AddsTo(c, synced[c])
    BY <1>1, <1>2, <1>3 DEF BranchRows, Adds
  <2>2. New(c)' = New(c) /\ \A n \in New(c) : store'[c][n] = store[c][n]
    BY <1>1, <1>5, <2>1, SameRows DEF New
  <2> QED
    BY <1>1, <1>5, <2>1, <2>2 DEF AddsTo
<1>15. MarkInv(c)'
  <2>1. tracking'[c] \ {0} \subseteq DOMAIN store'[c]
    <3>1. Len(store'[c]) \in Nat /\ DOMAIN store'[c] = 1..Len(store'[c]) /\ (tracking'[c] = {} \/ History(c, tracking[c])')
      <4>1. store'[c] \in Seq(Objects)
        BY <1>1 DEF Keeps, Types
      <4> QED
        BY <1>1, <4>1 DEF Keeps, ShapeOf
    <3> QED
      BY <3>1 DEF History
  <2> QED
    BY <1>5, <1>9, <2>1 DEF MarkInv, Marks
<1>16. PullInv(c)'
  <2>1. \A r \in Ids : ~(r[1] = c /\ Sent(r)')
    BY <1>1, <1>7 DEF Sent
  <2> QED
    BY <1>1, <1>2, <1>4, <1>5, <2>1 DEF PullInv, Pulling, At
<1>17. PushInv(c)'
  BY <1>1 DEF CallRows, PushInv, At, Sent
<1> QED
  BY <1>10, <1>11, <1>12, <1>13, <1>14, <1>15, <1>16, <1>17 DEF BranchRows, CallRows

LEMMA ApplyTrackingRows ==
  ASSUME TypeInv, Ascending, NEW c \in Clients, HasInv(c), BranchRows(c), CallRows(c), Apply(c), call[c].mode = "merge"
  PROVE  BranchRows(c)' /\ CallRows(c)'
<1> DEFINE up == call[c].upto
           sy == synced[c]
           todo == call[c].todo
           br == sidecar[c]["branch"]
           tr == sidecar[c]["tracking"]
<1>1. /\ UNCHANGED <<server, synced>> /\ At(c, "apply") /\ Keeps(c) /\ TargetOf(c) = "tracking"
      /\ (tracking[c] = {} /\ BaseOf(c) = {0}) \/ (tracking[c] # {} /\ BaseOf(c) = tracking[c])
      /\ tracking'[c] = Grown(c) /\ local'[c] = local[c]
      /\ call'[c].pc = "merge" /\ call'[c].upto = up /\ call'[c].batch = call[c].batch
      /\ sidecar'[c]["branch"] = br /\ sidecar'[c]["tracking"] = tr \cup todo
  <2>1. At(c, "apply") /\ TargetOf(c) = "tracking" /\ AfterApply(c) = "merge" /\ UNCHANGED <<server, synced>>
    BY DEF Apply, TargetOf, AfterApply
  <2>2. sidecar[c] \in [{"branch", "tracking"} -> SUBSET (1..MaxServer)]
    BY Typed DEF Types
  <2>3. (tracking[c] = {} /\ BaseOf(c) = {0}) \/ (tracking[c] # {} /\ BaseOf(c) = tracking[c])
    BY <2>1 DEF BaseOf
  <2>4. sidecar'[c] = [sidecar[c] EXCEPT !["tracking"] = @ \cup todo]
    BY <2>1, ApplyKeeps
  <2>5. sidecar'[c]["branch"] = br /\ sidecar'[c]["tracking"] = tr \cup todo
    BY <2>2, <2>4
  <2> QED
    BY <2>1, <2>3, <2>5, ApplyKeeps
<1>2. /\ Len(server) \in Nat /\ DOMAIN server = 1..Len(server) /\ up \in 0..Len(server) /\ sy \in 0..Len(server)
      /\ History(c, local[c]) /\ (tracking[c] # {} => History(c, tracking[c])) /\ Len(store[c]) \in Nat
      /\ br \in SUBSET (1..Len(server))
  BY Typed DEF ShapeOf, Own
<1>3. todo = (sy + 1)..up /\ sy <= up /\ Got(c) \subseteq 1..up /\ Pending(c) \subseteq todo
  BY <1>1 DEF CallRows, PullInv, Pulling, At, Pending
<1>4. Got(c)' = Got(c) \cup todo /\ Got(c)' \subseteq 1..up /\ sidecar'[c]["tracking"] \subseteq 1..up
  BY <1>1, <1>2, <1>3 DEF Got
<1>5. /\ \A m \in DOMAIN store'[c] : \/ m \in DOMAIN store[c] /\ store'[c][m] = store[c][m]
                                     \/ \E p \in Pending(c) : store'[c][m].rows = server[p].rows
      /\ tracking[c] \subseteq tracking'[c] /\ tracking'[c] \ {0} \subseteq DOMAIN store'[c]
      /\ \A m \in tracking'[c] : m \in tracking[c] \cup {0} \/ m \notin DOMAIN store[c]
      /\ Pending(c) = {} => tracking'[c] = BaseOf(c)
      /\ Pending(c) # {} => up \in Pending(c)
      /\ HasRows(c, 1..up, tracking[c])'
  <2>1. HasRows(c, 1..synced[c], BaseOf(c)) /\ HasRows(c, sidecar[c][TargetOf(c)], BaseOf(c)) /\ History(c, BaseOf(c))
    <3>1. CASE tracking[c] = {}
      <4>1. 1..synced[c] = {} /\ tr = {}
        BY <3>1, NoTracking
      <4> QED
        BY <1>1, <1>2, <3>1, <4>1 DEF HasRows, History
    <3>2. CASE tracking[c] # {}
      BY <1>1, <1>2, <3>2 DEF BranchRows, Holds
    <3> QED
      BY <3>1, <3>2
  <2>2. /\ \A h : h = Grown(c) => HasRows(c, 1..call[c].upto, h)'
        /\ \A m \in DOMAIN store'[c] : \/ m \in DOMAIN store[c] /\ store'[c][m] = store[c][m]
                                       \/ \E p \in Pending(c) : store'[c][m].rows = server[p].rows
        /\ BaseOf(c) \subseteq Grown(c) /\ Grown(c) \ {0} \subseteq DOMAIN store'[c]
        /\ \A m \in Grown(c) : m \in BaseOf(c) \/ m \notin DOMAIN store[c]
        /\ Pending(c) = {} => Grown(c) = BaseOf(c)
        /\ Pending(c) # {} => call[c].upto \in Pending(c)
    BY <2>1, Applied
  <2> QED
    BY <1>1, <2>2 DEF HasRows
<1>6. \A r : Sent(r)' <=> Sent(r)
  BY <1>1 DEF Sent
<1>7. RowsAt(c, local[c])' = RowsAt(c, local[c]) /\ \A n \in local[c] \ {0} : n \in DOMAIN store[c] /\ store'[c][n] = store[c][n]
  BY <1>1, SameRows
\* An own row that the server has is one of a client that saved a head.
<1>8. \A p \in Pending(c) : \A r \in server[p].rows : r \in Ids /\ Sent(r) /\ (r[1] = c => sy > 0)
  <2> SUFFICES ASSUME NEW p \in Pending(c), NEW r \in server[p].rows
               PROVE  r \in Ids /\ Sent(r) /\ (r[1] = c => sy > 0)
    OBVIOUS
  <2>1. p \in 1..Len(server)
    BY <1>2, <1>3
  <2>2. r \in Ids /\ Sent(r)
    BY <1>1, <1>2, <2>1, ServerStays DEF Sent
  <2>3. ASSUME r[1] = c PROVE sy > 0
    <3>1. r \in RowsAt(c, local[c])
      BY <2>2, <2>3 DEF BranchRows, SentStays
    <3>2. PICK n \in local[c] \ {0} : n \in DOMAIN store[c] /\ r \in store[c][n].rows
      BY <1>2, <3>1, RowsIn
    <3> QED
      BY <2>3, <3>2 DEF BranchRows, Origins
  <2> QED
    BY <2>2, <2>3
<1>9. Sidecars(c)'
  <2>1. \A p \in todo : (sy + 1)..p \subseteq todo
    BY <1>2, <1>3
  <2>2. /\ \A p \in tr : (sy + 1)..p \subseteq tr
        /\ \A p \in br : (sy + 1)..p \subseteq br
        /\ tracking[c] \subseteq local[c] \/ \E q \in tr : q > sy
    BY DEF BranchRows, Sidecars
  <2>3. tracking'[c] \subseteq local[c] \/ \E q \in tr \cup todo : q > sy
    <3>1. CASE Pending(c) = {}
      BY <1>1, <1>2, <1>5, <2>2, <3>1 DEF History
    <3>2. CASE Pending(c) # {}
      <4>1. up \in todo /\ up > sy
        BY <1>2, <1>3, <1>5, <3>2
      <4> QED
        BY <4>1
    <3> QED
      BY <3>1, <3>2
  <2> QED
    BY <1>1, <2>1, <2>2, <2>3 DEF Sidecars
<1>10. Origins(c)'
  <2>1. ASSUME NEW m \in DOMAIN store'[c], NEW r \in store'[c][m].rows
        PROVE  IF r[1] = c THEN sy > 0 ELSE \E p \in Got(c)' : r \in server[p].rows
    <3>1. CASE m \in DOMAIN store[c] /\ store'[c][m] = store[c][m]
      BY <1>4, <2>1, <3>1 DEF BranchRows, Origins
    <3>2. CASE \E p \in Pending(c) : store'[c][m].rows = server[p].rows
      BY <1>3, <1>4, <1>8, <2>1, <3>2
    <3> QED
      BY <1>5, <2>1, <3>1, <3>2
  <2>2. \A n \in local[c] \ {0} : \A r \in store'[c][n].rows : r[1] # c => r \in RowsAt(c, local[c])'
    BY <1>7 DEF BranchRows, Origins
  <2> QED
    BY <1>1, <2>1, <2>2 DEF Origins
<1>11. SentStays(c)'
  BY <1>6, <1>7 DEF BranchRows, SentStays
<1>12. Holds(c)'
  <2>1. HasRows(c, 1..synced[c], local[c])' /\ HasRows(c, sidecar[c]["branch"], local[c])'
    BY <1>1, <1>7 DEF BranchRows, Holds, HasRows
  <2>2. 1..sy \subseteq 1..up
    BY <1>2, <1>3
  <2>3. HasRows(c, 1..synced[c], tracking[c])' /\ HasRows(c, sidecar[c]["tracking"], tracking[c])'
    BY <1>1, <1>4, <1>5, <2>2 DEF HasRows
  <2> QED
    BY <2>1, <2>3 DEF Holds
<1>13. Adds(c)'
  <2> SUFFICES ASSUME sy = Len(server) PROVE AddsTo(c, synced[c])'
    BY <1>1 DEF Adds
  <2>1. Pending(c) = {} /\ AddsTo(c, sy)
    BY <1>2, <1>3 DEF BranchRows, Adds
  <2>2. New(c)' = New(c) /\ \A n \in New(c) : store'[c][n] = store[c][n]
    BY <1>1, <1>5, <1>7, <2>1 DEF New
  <2> QED
    BY <1>1, <1>7, <2>1, <2>2 DEF AddsTo
<1>14. MarkInv(c)'
  <2>1. Marks(c, local[c])'
    BY <1>1, <1>6, <1>7 DEF BranchRows, MarkInv, Marks
  <2>2. Marks(c, tracking[c])'
    <3> SUFFICES ASSUME NEW k \in tracking'[c] \ {0}, NEW r \in store'[c][k].rows, r[1] = c
                 PROVE  r[2] \in tracking'[c] \/ Sent(r)
      BY <1>6 DEF Marks
    <3>1. CASE k \in DOMAIN store[c] /\ store'[c][k] = store[c][k]
      BY <1>5, <3>1 DEF BranchRows, MarkInv, Marks
    <3>2. CASE \E p \in Pending(c) : store'[c][k].rows = server[p].rows
      BY <1>8, <3>2
    <3> QED
      BY <1>5, <3>1, <3>2
  <2> QED
    BY <2>1, <2>2 DEF MarkInv
<1>15. PullInv(c)'
  <2>1. \A r \in Ids : r[1] = c /\ Sent(r) => \E p \in 1..up : r \in server[p].rows
    BY <1>1 DEF CallRows, PullInv, Pulling, At
  <2> QED
    BY <1>1, <1>3, <1>4, <1>5, <1>6, <2>1 DEF PullInv, Pulling, At
<1>16. PushInv(c)'
  BY <1>1 DEF CallRows, PushInv, At, Sent
<1> QED
  BY <1>9, <1>10, <1>11, <1>12, <1>13, <1>14, <1>15, <1>16 DEF BranchRows, CallRows

LEMMA MergeRows ==
  ASSUME TypeInv, NEW c \in Clients, HasInv(c), BranchRows(c), CallRows(c), MergeTracking(c)
  PROVE  BranchRows(c)' /\ CallRows(c)'
<1> DEFINE up == call[c].upto
           n == Len(store[c]) + 1
           ours == RowsAt(c, local[c])
           theirs == RowsAt(c, tracking[c])
<1>1. /\ Keeps(c) /\ tracking[c] # {} /\ UNCHANGED <<server, tracking, sidecar, synced>> /\ At(c, "merge")
      /\ call'[c].pc = "ref" /\ call'[c].upto = up /\ call'[c].batch = call[c].batch
  BY MergeType DEF MergeTracking
<1>2. /\ Len(server) \in Nat /\ DOMAIN server = 1..Len(server) /\ up \in 0..Len(server) /\ synced[c] \in 0..Len(server)
      /\ History(c, local[c]) /\ History(c, tracking[c]) /\ Len(store[c]) \in Nat /\ DOMAIN store[c] = 1..Len(store[c])
      /\ Got(c) \subseteq 1..Len(server) /\ sidecar[c]["tracking"] \subseteq 1..Len(server)
  BY <1>1, Typed DEF ShapeOf, Own, Got
<1>3. /\ Got(c) \subseteq 1..up /\ synced[c] <= up /\ HasRows(c, 1..up, tracking[c])
      /\ \A r \in Ids : r[1] = c /\ Sent(r) => \E p \in 1..up : r \in server[p].rows
  BY <1>1 DEF CallRows, PullInv, Pulling, At
<1>4. \A r : Sent(r)' <=> Sent(r)
  BY <1>1 DEF Sent
\* What the server has is in origin/<branch>; the client's own rows of it are
\* in the branch too.
<1>5. \A p \in 1..up : \A r \in server[p].rows : r \in theirs /\ r \in Ids /\ Sent(r)
  <2>1. \A p \in 1..up : p \in DOMAIN server /\ server[p].rows \subseteq Ids
    BY <1>1, <1>2, ServerStays
  <2> QED
    BY <1>3, <2>1 DEF HasRows, Sent
<1>6. \A r \in Ids : r[1] = c /\ Sent(r) => r \in ours /\ r \in theirs
  BY <1>3, <1>5 DEF BranchRows, SentStays
<1>7. \A m \in DOMAIN store[c] : \A r \in store[c][m].rows : r[1] # c => r \in theirs
  BY <1>3, <1>5 DEF BranchRows, Origins
<1>8. /\ local[c] \ {0} \subseteq DOMAIN store[c] /\ tracking[c] \ {0} \subseteq DOMAIN store[c]
      /\ \A m \in DOMAIN store[c] : store'[c][m] = store[c][m]
      /\ RowsAt(c, tracking[c])' = theirs
  BY <1>1, SameRows
<1>9. ASSUME HasRows(c, 1..call[c].upto, local[c])' PROVE CallRows(c)'
  <2>1. Got(c)' = Got(c)
    BY <1>1 DEF Got
  <2>2. PullInv(c)'
    BY <1>1, <1>3, <1>4, <1>9, <2>1 DEF PullInv, Pulling, At
  <2>3. PushInv(c)'
    BY <1>1, <1>4 DEF CallRows, PushInv, At
  <2> QED
    BY <2>2, <2>3 DEF CallRows
\* The branch gets what origin/<branch> has.
<1>10. ASSUME tracking[c] \subseteq local'[c], HasRows(c, 1..call[c].upto, local[c])'
       PROVE  Sidecars(c)' /\ SentStays(c)' /\ Holds(c)'
  <2>1. Sidecars(c)'
    BY <1>1, <1>10 DEF BranchRows, Sidecars
  <2>2. \A p \in 1..up : server[p].rows \subseteq RowsAt(c, local[c])'
    BY <1>1, <1>10 DEF HasRows
  <2>3. SentStays(c)'
    BY <1>3, <1>4, <2>2 DEF SentStays
  <2>4. 1..synced[c] \subseteq 1..up /\ sidecar[c]["branch"] \subseteq 1..up
    BY <1>2, <1>3 DEF Got
  <2>5. Holds(c)'
    BY <1>1, <1>8, <2>2, <2>4 DEF BranchRows, Holds, HasRows
  <2> QED
    BY <2>1, <2>3, <2>5
<1>11. CASE tracking[c] \subseteq local[c] /\ store' = store /\ local' = local
  <2>1. BranchRows(c)'
    <3>1. \A r \in Ids : r[1] = c /\ Sent(r)' => r \in RowsAt(c, local[c])
      BY <1>4 DEF BranchRows, SentStays
    <3> QED
      BY <1>1, <1>11, <3>1, BranchStays
  <2>2. ASSUME NEW p \in 1..up, NEW r \in server[p].rows PROVE r \in ours
    <3>1. CASE r[1] = c
      BY <1>5, <1>6, <2>2, <3>1
    <3>2. CASE r[1] # c
      <4>1. PICK m \in tracking[c] \ {0} : m \in DOMAIN store[c] /\ r \in store[c][m].rows
        BY <1>2, <1>5, <2>2, RowsIn
      <4> QED
        BY <1>11, <3>2, <4>1 DEF BranchRows, Origins
    <3> QED
      BY <3>1, <3>2
  <2>3. RowsAt(c, local[c])' = ours
    BY <1>1, <1>11, SameRows
  <2> QED
    BY <1>1, <1>9, <2>1, <2>2, <2>3 DEF HasRows
<1>12. CASE local[c] \subseteq tracking[c] /\ store' = store /\ local'[c] = tracking[c]
  <2>1. RowsAt(c, local[c])' = theirs
    BY <1>12 DEF RowsAt
  <2>2. HasRows(c, 1..call[c].upto, local[c])'
    BY <1>1, <1>5, <2>1 DEF HasRows
  <2>3. Origins(c)'
    <3>1. Got(c)' = Got(c)
      BY <1>1 DEF Got
    <3> QED
      BY <1>1, <1>7, <1>8, <1>12, <2>1, <3>1 DEF BranchRows, Origins
  <2>4. Adds(c)'
    BY <1>1, <1>12 DEF Adds, AddsTo, New
  <2>5. MarkInv(c)'
    BY <1>1, <1>4, <1>12 DEF BranchRows, MarkInv, Marks
  <2> QED
    BY <1>9, <1>10, <1>12, <2>2, <2>3, <2>4, <2>5 DEF BranchRows
<1>13. CASE /\ ~(tracking[c] \subseteq local[c])
            /\ Len(store'[c]) = n /\ local'[c] = local[c] \cup tracking[c] \cup {n}
            /\ store'[c][n].rows = MergedRows(c)
  <2> DEFINE base == RowsAt(c, local[c] \cap tracking[c])
             all == MergedRows(c)
  <2>1. all = (ours \cap theirs) \cup (ours \ base) \cup (theirs \ base)
    BY DEF MergedRows
  <2> HIDE DEF all
  <2>2. /\ DOMAIN store'[c] = 1..n /\ n \in Nat \ {0} /\ \A m \in DOMAIN store'[c] : m = n \/ m \in DOMAIN store[c]
    <3>1. store'[c] \in Seq(Objects)
      BY <1>1 DEF Keeps, Types
    <3> QED
      BY <1>2, <1>13, <3>1
  <2>3. RowsAt(c, local[c])' = all
    <3>1. local'[c] \subseteq 0..n /\ n \in local'[c]
      BY <1>2, <1>13 DEF History
    <3>2. \A h : h \subseteq 0..n /\ n \in h => RowsAt(c, h)' = store'[c][n].rows
      BY <2>2, NewTop
    <3>3. RowsAt(c, local[c])' = store'[c][n].rows
      BY <3>1, <3>2
    <3> QED
      BY <1>13, <3>3 DEF all
  <2>4. \A r \in base : r[1] # c => r \in ours
    <3>1. History(c, local[c] \cap tracking[c])
      BY <1>2 DEF History
    <3>2. \A r \in base : \E m \in (local[c] \cap tracking[c]) \ {0} : m \in DOMAIN store[c] /\ r \in store[c][m].rows
      BY <3>1, RowsIn
    <3> QED
      BY <3>2 DEF BranchRows, Origins
  <2>5. \A r \in theirs : r[1] # c => r \in all
    BY <2>1, <2>4
  <2>6. \A r \in Ids : r[1] = c /\ Sent(r) => r \in all
    BY <1>6, <2>1
  <2>7. HasRows(c, 1..call[c].upto, local[c])'
    <3>1. \A p \in 1..up : server[p].rows \subseteq all
      BY <1>5, <2>5, <2>6
    <3> QED
      BY <1>1, <2>3, <3>1 DEF HasRows
  \* A row of the merge was in an old commit of one side.
  <2>8. \A r \in all : \E m \in (local[c] \cup tracking[c]) \ {0} : m \in DOMAIN store[c] /\ r \in store[c][m].rows
    <3>1. /\ \A r \in ours : \E m \in local[c] \ {0} : m \in DOMAIN store[c] /\ r \in store[c][m].rows
          /\ \A r \in theirs : \E m \in tracking[c] \ {0} : m \in DOMAIN store[c] /\ r \in store[c][m].rows
      BY <1>2, RowsIn
    <3> QED
      BY <2>1, <3>1
  <2>9. Origins(c)'
    <3>1. Got(c)' = Got(c)
      BY <1>1 DEF Got
    <3>2. \A m \in DOMAIN store[c] : \A r \in store[c][m].rows :
            IF r[1] = c THEN synced[c] > 0 ELSE \E p \in Got(c) : r \in server[p].rows
      BY DEF BranchRows, Origins
    <3>3. ASSUME NEW m \in DOMAIN store'[c], NEW r \in store'[c][m].rows
          PROVE  IF r[1] = c THEN synced[c] > 0 ELSE \E p \in Got(c) : r \in server[p].rows
      <4>1. CASE m \in DOMAIN store[c]
        BY <1>8, <3>2, <3>3, <4>1
      <4>2. CASE m = n
        BY <1>13, <2>8, <3>2, <3>3, <4>2 DEF all
      <4> QED
        BY <2>2, <4>1, <4>2
    <3>4. ASSUME NEW m \in local'[c] \ {0}, NEW r \in store'[c][m].rows, r[1] # c PROVE r \in all
      <4>1. CASE m = n
        BY <1>13, <3>4, <4>1 DEF all
      <4>2. CASE m # n
        <5>1. m \in DOMAIN store[c] /\ r \in store[c][m].rows
          BY <1>8, <1>13, <3>4, <4>2
        <5> QED
          BY <1>7, <2>5, <3>4, <5>1
      <4> QED
        BY <4>1, <4>2
    <3> QED
      BY <1>1, <2>3, <3>1, <3>3, <3>4 DEF Origins
  \* The server has what the client has not merged.
  <2>10. Adds(c)'
    <3>1. \E q \in sidecar[c]["tracking"] : q > synced[c]
      BY <1>13 DEF BranchRows, Sidecars
    <3>2. synced[c] # Len(server)
      BY <1>2, <3>1
    <3> QED
      BY <1>1, <3>2 DEF Adds
  <2>11. MarkInv(c)'
    <3>1. \A m \in (local[c] \cup tracking[c]) \ {0} : \A r \in store[c][m].rows : r[1] = c => r[2] \in local'[c] \/ Sent(r)
      BY <1>13 DEF BranchRows, MarkInv, Marks
    <3>2. ASSUME NEW k \in local'[c] \ {0}, NEW r \in store'[c][k].rows, r[1] = c
          PROVE  r[2] \in local'[c] \/ Sent(r)
      <4>1. CASE k = n
        BY <1>13, <2>8, <3>1, <3>2, <4>1 DEF all
      <4>2. CASE k # n
        BY <1>8, <1>13, <3>1, <3>2, <4>2
      <4> QED
        BY <4>1, <4>2
    <3>3. Marks(c, local[c])'
      BY <1>4, <3>2 DEF Marks
    <3>4. Marks(c, tracking[c])'
      BY <1>1, <1>4, <1>8 DEF BranchRows, MarkInv, Marks
    <3> QED
      BY <3>3, <3>4 DEF MarkInv
  <2> QED
    BY <1>9, <1>10, <1>13, <2>7, <2>9, <2>10, <2>11 DEF BranchRows
<1> QED
  BY <1>11, <1>12, <1>13, MergeType

\* A command that ends where it is.
LEMMA StillRows ==
  ASSUME TypeInv, NEW c \in Clients, HasInv(c), BranchRows(c),
         ApplyFails(c) \/ MergeFails(c) \/ Crash(c) \/ MergeConflicts(c)
  PROVE  BranchRows(c)' /\ CallRows(c)'
<1>1. Keeps(c) /\ call'[c] = Idle /\ UNCHANGED <<server, store, local, tracking, sidecar, synced>>
  BY EndType, ConflictType
<1>2. \A r \in Ids : r[1] = c /\ Sent(r)' => r \in RowsAt(c, local[c])
  BY <1>1 DEF BranchRows, SentStays, Sent
<1> QED
  BY <1>1, <1>2, BranchStays, IdleCall

(***************************************************************************)
(* Any step.                                                               *)
(***************************************************************************)
LEMMA OnlyPushes == ASSUME NEW c \in Clients, Step(c), ~PushRequest(c) PROVE server' = server
<1>1. User(c) \/ PushCollect(c) \/ PushAdvance(c) \/ PullRequest(c) \/ FetchRequest(c) \/ Crash(c) => server' = server
  BY DEF User, UserCommits, UserResolves, UserAborts, PushCollect, PushAdvance, PullRequest, FetchRequest, Crash
<1>2. Pull(c) => server' = server
  BY DEF Pull, Apply, ApplyFails, ApplyLoses, MergeTracking, MergeConflicts, MergeFails, PullAdvance, SaveSyncState
<1> QED
  BY <1>1, <1>2 DEF Step, Push

LEMMA OwnStep ==
  ASSUME Settled, TypeInv, OnceInv, TrackedInv, RowInv, NEW c \in Clients, Step(c)
  PROVE  BranchRows(c)' /\ CallRows(c)'
<1>1. HasInv(c) /\ CallInv(c) /\ BranchRows(c) /\ CallRows(c) /\ Ascending
  BY DEF OnceInv, TrackedInv, RowInv
<1>2. CASE User(c)
  BY <1>1, <1>2, UserRows
<1>3. CASE PushCollect(c) \/ PushRequest(c) \/ PushAdvance(c)
  BY <1>1, <1>3, CollectRows, RequestRows, PushAdvanceRows
<1>4. CASE PullRequest(c)
  BY <1>1, <1>4, PullRequestRows
<1>5. CASE Apply(c)
  <2>1. call[c].mode \in {"ff", "merge"}
    BY <1>1, Typed DEF HasInv, Calls, Modes
  <2> QED
    BY <1>1, <1>5, <2>1, ApplyBranchRows, ApplyTrackingRows
<1>6. CASE MergeTracking(c) \/ PullAdvance(c) \/ SaveSyncState(c)
  BY <1>1, <1>6, MergeRows, PullAdvanceRows, SaveRows
<1>7. CASE ApplyFails(c) \/ MergeFails(c) \/ Crash(c) \/ MergeConflicts(c)
  BY <1>1, <1>7, StillRows
<1>8. ~FetchRequest(c) /\ ~ApplyLoses(c)
  BY DEF Settled, Whole, FetchRequest, ApplyLoses, Fails
<1> QED
  BY <1>2, <1>3, <1>4, <1>5, <1>6, <1>7, <1>8 DEF Step, Push, Pull

LEMMA RowStep ==
  ASSUME Settled, TypeInv, OnceInv, TrackedInv, RowInv, NEW c \in Clients, Step(c)
  PROVE  RowInv'
<1>1. Keeps(c)
  BY StepType
<1>2. Ascending' /\ \A r \in Ids : Sent(r)' => Sent(r) \/ r[1] = c
  <2>1. CASE PushRequest(c)
    <3>1. CallInv(c)
      BY DEF OnceInv
    <3> QED
      BY <2>1, <3>1, TakenPush
  <2>2. CASE server' = server
    BY <2>2 DEF RowInv, Ascending, Sent
  <2> QED
    BY <2>1, <2>2, OnlyPushes
<1>3. ASSUME NEW x \in Clients, x # c PROVE BranchRows(x)' /\ CallRows(x)'
  <2>1. HasInv(x) /\ BranchRows(x) /\ CallRows(x)
    BY DEF TrackedInv, RowInv
  <2>2. \A r \in Ids : r[1] = x /\ Sent(r)' => Sent(r)
    BY <1>2, <1>3
  <2> QED
    BY <1>1, <1>3, <2>1, <2>2, OtherRows
<1> QED
  BY <1>2, <1>3, OwnStep DEF RowInv

LEMMA RowInit == Init => RowInv
<1> SUFFICES ASSUME Init PROVE RowInv
  OBVIOUS
<1>1. \A p \in DOMAIN server : p = 1 /\ server[p].rows = {<<Seed, 1>>}
  <2>1. CASE Seeded
    <3>1. server = <<[id |-> <<Seed, 1>>, rows |-> {<<Seed, 1>>}]>>
      BY <2>1 DEF Init
    <3> QED
      BY <3>1
  <2>2. CASE ~Seeded
    BY <2>2 DEF Init
  <2> QED
    BY <2>1, <2>2
<1>2. Ascending
  BY <1>1 DEF Ascending
<1>3. ASSUME NEW c \in Clients PROVE BranchRows(c) /\ CallRows(c)
  <2>1. /\ store[c] = << >> /\ DOMAIN store[c] = {} /\ local[c] = {0} /\ tracking[c] = {} /\ synced[c] = 0
        /\ call[c] = Idle /\ \A b \in {"branch", "tracking"} : sidecar[c][b] = {}
    BY DEF Init
  <2>2. Idle.pc = "idle" /\ Idle.batch = << >> /\ DOMAIN << >> = {} /\ 1..0 = {}
    BY IdleFields
  <2>3. \A r : Sent(r) => r[1] # c
    BY <1>1, ConstantsAssumption DEF Sent
  <2>4. Sidecars(c) /\ Origins(c) /\ SentStays(c) /\ MarkInv(c)
    BY <2>1, <2>3 DEF Sidecars, Origins, SentStays, MarkInv, Marks
  <2>5. Holds(c)
    BY <2>1, <2>2 DEF Holds, HasRows
  <2>6. Adds(c)
    BY <2>1 DEF Adds, AddsTo, New
  <2>7. CallRows(c)
    BY <2>1, <2>2 DEF CallRows, PullInv, PushInv, Pulling, At
  <2> QED
    BY <2>4, <2>5, <2>6, <2>7 DEF BranchRows
<1> QED
  BY <1>2, <1>3 DEF RowInv

AllInv == TypeInv /\ OnceInv /\ TrackedInv /\ RowInv

LEMMA RowNext == ASSUME Settled, AllInv, [Next]_vars PROVE AllInv'
<1>1. TypeInv' /\ OnceInv' /\ TrackedInv'
  BY TypeNext, OnceNext, TrackedNext DEF AllInv, Settled
<1>2. CASE Next
  BY <1>1, <1>2, RowStep DEF AllInv, Next, Step
<1>3. CASE UNCHANGED vars
  <2>1. Ascending'
    BY <1>3 DEF AllInv, RowInv, vars, Ascending
  <2>2. ASSUME NEW c \in Clients PROVE BranchRows(c)' /\ CallRows(c)'
    <3>1. BranchRows(c) /\ CallRows(c)
      BY DEF AllInv, RowInv
    <3>2. BranchRows(c)'
      BY <1>3, <3>1 DEF vars, BranchRows, Sidecars, Origins, SentStays, Holds, Adds, MarkInv,
                        AddsTo, New, Marks, HasRows, RowsAt, Got, Sent
    <3>3. CallRows(c)'
      BY <1>3, <3>1 DEF vars, CallRows, PullInv, PushInv, AddsTo, New, HasRows, RowsAt, Got, Sent, Pulling, At
    <3> QED
      BY <3>2, <3>3
  <2> QED
    BY <1>1, <2>1, <2>2 DEF AllInv, RowInv
<1> QED
  BY <1>2, <1>3

\* What the sidecars, the saved heads and the calls stand for are rows that the
\* branches have (the invariant of the two theorems below).
THEOREM RowsAreInvariant == ASSUME Settled PROVE Spec => []AllInv
<1>1. Init => AllInv
  BY TypeInit, OnceInit, TrackedInit, RowInit DEF AllInv
<1>2. AllInv /\ [Next]_vars => AllInv'
  BY RowNext
<1> QED
  BY <1>1, <1>2, PTL DEF Spec

\* No push takes a row off the server, when users join before they commit and
\* nobody fetches, whatever is lost, fails or dies but the advance of a branch
\* whose sidecar was written (runPush, getRemoteHead, runPull, mergeFromRemote).
THEOREM ServerRowsKept ==
  ASSUME Settled
  PROVE  Spec => ServerKeepsRows
<1>1. ASSUME AllInv, AllInv', [Next]_vars PROVE [ServerRows \subseteq ServerRows']_server
  <2> SUFFICES ASSUME NEW c \in Clients, Step(c), server # << >> PROVE server[Len(server)].rows \subseteq ServerRows'
    <3>1. ServerRows = IF server = << >> THEN {} ELSE server[Len(server)].rows
      BY DEF ServerRows
    <3> QED
      BY <1>1, <3>1 DEF vars, Next, Step
  <2>1. Keeps(c)
    BY <1>1, StepType DEF AllInv
  <2>2. /\ Len(server) \in Nat /\ Len(server') \in Nat /\ Len(server) <= Len(server')
        /\ DOMAIN server' = 1..Len(server') /\ \A p \in 1..Len(server) : server'[p] = server[p]
    BY <1>1, <2>1, ServerStays DEF AllInv
  <2>3. Len(server) # 0 /\ Len(server') # 0 /\ server' # << >>
    <3>1. Len(server) # 0
      BY <1>1, Typed DEF AllInv, Types
    <3> QED
      BY <2>2, <3>1
  <2>4. server'[Len(server)].rows \subseteq server'[Len(server')].rows
    BY <1>1, <2>2, <2>3 DEF AllInv, RowInv, Ascending
  <2> QED
    BY <2>2, <2>3, <2>4 DEF ServerRows
<1> QED
  BY <1>1, RowsAreInvariant, PTL DEF Spec, ServerKeepsRows

\* A row that the user inserted stays in the branch until origin/<branch> has
\* its commit.
LEMMA Survives ==
  ASSUME Settled, AllInv, AllInv', NEW c \in Clients, Step(c),
         NEW r \in RowsAt(c, local[c]), NEW k \in local[c] \ tracking[c], r = <<c, k>>
  PROVE  r \in RowsAt(c, local[c])'
<1> DEFINE n == Len(store[c]) + 1
           ours == RowsAt(c, local[c])
<1>1. /\ Keeps(c) /\ TypeInv /\ HasInv(c) /\ BranchRows(c) /\ History(c, local[c])
      /\ Len(store[c]) \in Nat /\ n \in Nat \ {0} /\ SentStays(c)'
  BY StepType, Typed DEF AllInv, TrackedInv, RowInv, BranchRows, ShapeOf
<1>2. r \in Ids /\ r[1] = c /\ r[2] = k
  BY <1>1, RowsTyped
<1>3. CASE local'[c] = local[c]
  BY <1>1, <1>3, SameRows
<1>4. ASSUME NEW add \in SUBSET (0..Len(store[c])), local'[c] = local[c] \cup add \cup {n}
      PROVE  RowsAt(c, local[c])' = store'[c][n].rows
  <2>1. local'[c] \subseteq 0..n /\ n \in local'[c]
    <3>1. 0..Len(store[c]) \subseteq 0..n /\ n \in 0..n
      BY <1>1
    <3> QED
      BY <1>1, <1>4, <3>1 DEF History
  <2>2. \A h : h \subseteq 0..n /\ n \in h => RowsAt(c, h)' = store'[c][n].rows
    BY <1>1, NewTop
  <2> QED
    BY <2>1, <2>2
<1>5. CASE User(c)
  <2>1. \/ local'[c] = local[c]
        \/ local'[c] = local[c] \cup {} \cup {n} /\ r \in store'[c][n].rows
        \/ local'[c] = local[c] \cup tracking[c] \cup {n} /\ r \in store'[c][n].rows
    BY <1>1, <1>5, UserType
  <2>2. tracking[c] \in SUBSET (0..Len(store[c])) /\ {} \in SUBSET (0..Len(store[c]))
    BY <1>1, Typed DEF ShapeOf, History
  <2> QED
    BY <1>3, <1>4, <2>1, <2>2
<1>6. CASE Apply(c)
  <2>1. CASE call[c].mode = "ff"
    <3>1. synced[c] = 0
      BY <1>1, <1>6, <2>1 DEF Apply, HasInv, At
    <3>2. PICK m \in local[c] \ {0} : m \in DOMAIN store[c] /\ r \in store[c][m].rows
      BY <1>1, RowsIn
    <3>3. synced[c] > 0
      BY <1>1, <1>2, <3>2 DEF BranchRows, Origins
    <3> QED
      BY <3>1, <3>3
  <2>2. CASE call[c].mode # "ff"
    <3>1. TargetOf(c) = "tracking"
      BY <2>2 DEF TargetOf
    <3>2. local'[c] = local[c]
      BY <1>1, <1>6, <3>1, ApplyKeeps
    <3> QED
      BY <1>3, <3>2
  <2> QED
    BY <2>1, <2>2
<1>7. CASE MergeTracking(c)
  <2>1. CASE local[c] \subseteq tracking[c]
    BY <2>1
  <2>2. CASE local'[c] = local[c] \cup tracking[c] \cup {n} /\ store'[c][n].rows = MergedRows(c)
    <3>1. tracking[c] \in SUBSET (0..Len(store[c])) /\ History(c, tracking[c])
      BY <1>1, <1>7, Typed DEF MergeTracking, ShapeOf, History
    <3>2. RowsAt(c, local[c])' = MergedRows(c)
      BY <1>4, <2>2, <3>1
    <3>3. CASE Sent(r)
      <4>1. Sent(r)'
        BY <1>1, <3>3, ServerStays
      <4> QED
        BY <1>1, <1>2, <4>1 DEF SentStays
    <3>4. CASE ~Sent(r)
      <4> DEFINE base == RowsAt(c, local[c] \cap tracking[c])
      <4>1. ASSUME r \in base PROVE FALSE
        <5>1. History(c, local[c] \cap tracking[c])
          BY <1>1, <3>1 DEF History
        <5>2. PICK m \in (local[c] \cap tracking[c]) \ {0} : m \in DOMAIN store[c] /\ r \in store[c][m].rows
          BY <1>1, <4>1, <5>1, RowsIn
        <5>3. r[2] \in tracking[c]
          BY <1>1, <1>2, <3>4, <5>2 DEF BranchRows, MarkInv, Marks
        <5> QED
          BY <1>2, <5>3
      <4> QED
        BY <3>2, <4>1 DEF MergedRows
    <3> QED
      BY <3>3, <3>4
  <2> QED
    BY <1>1, <1>3, <1>7, <2>1, <2>2, MergeType
<1>8. CASE Push(c) \/ PullRequest(c) \/ FetchRequest(c) \/ Crash(c) \/ ApplyFails(c) \/ ApplyLoses(c)
           \/ MergeConflicts(c) \/ MergeFails(c) \/ PullAdvance(c) \/ SaveSyncState(c)
  <2>1. local' = local
    BY <1>8 DEF Push, PushCollect, PushRequest, PushAdvance, PullRequest, FetchRequest, Crash, ApplyFails, ApplyLoses,
                MergeConflicts, MergeFails, PullAdvance, SaveSyncState
  <2> QED
    BY <1>3, <2>1
<1> QED
  BY <1>5, <1>6, <1>7, <1>8 DEF Step, Pull

\* A pull loses none of the user's work: what was inserted in a commit that
\* origin/<branch> does not reach stays in the branch, whatever is applied and
\* merged, also beside commits and after a crash (runPull, applyCommits,
\* mergeFromRemote, advanceRemoteRef).
THEOREM UnmarkedSurvive ==
  ASSUME Settled
  PROVE  Spec => UnmarkedRowsSurvive
<1> DEFINE A == \A c \in Clients :
                  OwnRows(c, local[c]) \cap {<<c, n>> : n \in local[c] \ tracking[c]} \subseteq RowsAt(c, local[c])'
<1>1. ASSUME AllInv, AllInv', [Next]_vars PROVE [A]_local
  <2> SUFFICES ASSUME NEW c \in Clients, Step(c), NEW x \in Clients,
                      NEW r \in OwnRows(x, local[x]) \cap {<<x, n>> : n \in local[x] \ tracking[x]}
               PROVE  r \in RowsAt(x, local[x])'
    BY <1>1 DEF vars, Next, Step
  <2>1. r \in RowsAt(x, local[x]) /\ \E k \in local[x] \ tracking[x] : r = <<x, k>>
    BY DEF OwnRows
  <2>2. CASE x = c
    BY <1>1, <2>1, <2>2, Survives
  <2>3. CASE x # c
    <3>1. Keeps(c) /\ TypeInv /\ HasInv(x)
      BY <1>1, StepType DEF AllInv, TrackedInv
    <3>2. RowsAt(x, local[x])' = RowsAt(x, local[x])
      BY <2>3, <3>1, SameRows DEF Keeps, Frame
    <3> QED
      BY <2>1, <3>2
  <2> QED
    BY <2>2, <2>3
<1>2. AllInv /\ AllInv' /\ [Next]_vars => [A]_local
  BY <1>1
<1> QED
  BY <1>2, RowsAreInvariant, PTL DEF Spec, UnmarkedRowsSurvive

(***************************************************************************)
(* The user's rows beside fetches.  A merge takes away what its base has   *)
(* and origin/<branch> has not.  A row of the user's is in the base when   *)
(* the server sent it back, or when its commit was marked; that it is in   *)
(* the base without its mark takes a process that dies after the merge, or *)
(* a lost answer and a merge that was left to the user.                    *)
(***************************************************************************)
Finishing ==
  "earlyWork" \notin Uses /\ "crash" \notin Faults /\ ~({"answerLost", "conflicts"} \subseteq Faults)

\* A row of the client's own is from a commit of its branch, made after a first
\* pull; another's row came from the server.
Traced(c, r) == IF r[1] = c THEN synced[c] > 0 /\ r[2] \in local[c] ELSE Sent(r)

TracedInv(c) ==
  /\ \A n \in DOMAIN store[c] : \A r \in store[c][n].rows : Traced(c, r)
  /\ \A i \in DOMAIN call[c].batch : \A r \in call[c].batch[i].rows : Traced(c, r)
  /\ \A r \in Ids : r[1] = c /\ Sent(r) => Traced(c, r)

\* What the branch shares with origin/<branch>, the base of the next merge, has
\* only marked rows of the client's own.
BaseInv(c) ==
  ~At(c, "ref") => \A k \in (local[c] \cap tracking[c]) \ {0} :
                      \A r \in store[c][k].rows : r[1] = c => r[2] \in tracking[c]

\* What the server took is marked, when no answer is lost.
AnswerInv(c) ==
  "answerLost" \notin Faults => \A r \in Ids : r[1] = c /\ Sent(r) => r[2] \in tracking[c] \/ At(c, "pushRef")

\* A pull onto the branch itself is a first one.
ModeInv(c) ==
  /\ At(c, "apply") \/ At(c, "ref") => (call[c].mode = "ff" => synced[c] = 0)
  /\ At(c, "ref") => call[c].mode # "fetch"
  /\ c \in merging => "conflicts" \in Faults

MarkedInv(c) == BaseInv(c) /\ Marks(c, tracking[c]) /\ AnswerInv(c)
FetchInv     == TypeInv /\ \A c \in Clients : TracedInv(c) /\ MarkedInv(c) /\ ModeInv(c)

LEMMA RowIds ==
  ASSUME TypeInv
  PROVE  /\ \A p \in DOMAIN server : server[p].rows \subseteq Ids
         /\ \A c \in Clients : /\ \A n \in DOMAIN store[c] : store[c][n].rows \subseteq Ids
                               /\ \A i \in DOMAIN call[c].batch : call[c].batch[i].rows \subseteq Ids
<1>1. server \in Seq(Commits) /\ \A p \in DOMAIN server : server[p] \in Commits
  BY Typed DEF Types
<1>2. ASSUME NEW c \in Clients
      PROVE  /\ \A n \in DOMAIN store[c] : store[c][n] \in Objects
             /\ \A i \in DOMAIN call[c].batch : call[c].batch[i] \in Commits
  <2>1. store[c] \in Seq(Objects) /\ call[c].batch \in Seq(Commits)
    BY Typed DEF Types, Calls
  <2> QED
    BY <2>1
<1> QED
  BY <1>1, <1>2 DEF Commits, Objects

LEMMA TracedStays ==
  ASSUME TypeInv, NEW c \in Clients, Keeps(c), NEW x \in Clients,
         local[x] \subseteq local'[x], synced[x] > 0 => synced'[x] > 0
  PROVE  \A r : Traced(x, r) => Traced(x, r)'
BY ServerStays DEF Traced

\* No step takes a commit from the branch, or the saved head away.
LEMMA BranchGrows ==
  ASSUME TypeInv, NEW c \in Clients, Step(c)
  PROVE  local[c] \subseteq local'[c] /\ (synced[c] > 0 => synced'[c] > 0)
<1>1. CASE User(c)
  BY <1>1, UserType
<1>2. CASE Apply(c)
  <2>1. synced' = synced /\ TargetOf(c) \in {"branch", "tracking"}
    BY <1>2 DEF Apply, TargetOf
  <2>2. TargetOf(c) = "branch" => local[c] \subseteq Grown(c)
    BY DEF Grown, BaseOf
  <2> QED
    BY <1>2, <2>1, <2>2, ApplyKeeps
<1>3. CASE MergeTracking(c)
  BY <1>3, MergeType
<1>4. CASE SaveSyncState(c)
  <2>1. local' = local /\ call[c].upto \in Nat
    BY <1>4, Typed DEF SaveSyncState, ShapeOf
  <2> QED
    BY <1>4, <2>1, SaveType
<1>5. CASE Push(c) \/ PullRequest(c) \/ FetchRequest(c) \/ Crash(c) \/ ApplyFails(c) \/ ApplyLoses(c)
           \/ MergeConflicts(c) \/ MergeFails(c) \/ PullAdvance(c)
  BY <1>5 DEF Push, PushCollect, PushRequest, PushAdvance, PullRequest, FetchRequest, Crash, ApplyFails, ApplyLoses,
              MergeConflicts, MergeFails, PullAdvance
<1> QED
  BY <1>1, <1>2, <1>3, <1>4, <1>5 DEF Step, Pull

\* What is new on the server is in the push that was taken.
LEMMA OwnRowsSent ==
  ASSUME TypeInv, NEW c \in Clients, TracedInv(c), Step(c)
  PROVE  \A r \in Ids : Sent(r)' => Sent(r) \/ (PushRequest(c) /\ server' # server /\ r[1] = c /\ Traced(c, r))
<1> SUFFICES ASSUME NEW r \in Ids, Sent(r)', ~Sent(r)
             PROVE  PushRequest(c) /\ server' # server /\ r[1] = c /\ Traced(c, r)
  OBVIOUS
<1>1. server' # server
  BY DEF Sent
<1>2. PushRequest(c) /\ Keeps(c)
  BY <1>1, OnlyPushes, StepType
<1>3. /\ call[c].batch \in Seq(Commits) /\ Len(server') = Len(server) + Len(call[c].batch)
      /\ \A i \in DOMAIN call[c].batch : server'[Len(server) + i] = call[c].batch[i]
  BY <1>1, <1>2, Request
<1>4. PICK p \in DOMAIN server' : r \in server'[p].rows
  BY DEF Sent
<1>5. /\ Len(server) \in Nat /\ DOMAIN server' = 1..Len(server') /\ p \notin 1..Len(server)
      /\ DOMAIN call[c].batch = 1..Len(call[c].batch) /\ Len(call[c].batch) \in Nat
  <2>1. p \in DOMAIN server => FALSE
    BY <1>2, <1>4, ServerStays DEF Sent
  <2> QED
    BY <1>2, <1>3, <2>1, ServerStays
<1>6. PICK i \in DOMAIN call[c].batch : r \in call[c].batch[i].rows
  <2>1. p - Len(server) \in DOMAIN call[c].batch /\ Len(server) + (p - Len(server)) = p
    BY <1>3, <1>5
  <2> QED
    BY <1>3, <1>4, <2>1
<1>7. Traced(c, r)
  BY <1>6 DEF TracedInv
<1> QED
  BY <1>1, <1>2, <1>7 DEF Traced

LEMMA NewTraced ==
  ASSUME TypeInv, NEW c \in Clients, TracedInv(c), Step(c),
         \A m \in DOMAIN store'[c] : m \notin DOMAIN store[c] => \A r \in store'[c][m].rows : Traced(c, r)',
         \A i \in DOMAIN call'[c].batch : \A r \in call'[c].batch[i].rows : Traced(c, r)'
  PROVE  TracedInv(c)'
<1>1. Keeps(c) /\ \A m \in DOMAIN store[c] : store'[c][m] = store[c][m]
  BY StepType DEF Keeps, Grows
<1>2. \A r : Traced(c, r) => Traced(c, r)'
  BY <1>1, BranchGrows, TracedStays
<1>3. \A m \in DOMAIN store'[c] : \A r \in store'[c][m].rows : Traced(c, r)'
  BY <1>1, <1>2 DEF TracedInv
<1>4. \A r \in Ids : r[1] = c /\ Sent(r)' => Traced(c, r)'
  BY <1>2, OwnRowsSent DEF TracedInv
<1> QED
  BY <1>3, <1>4 DEF TracedInv

\* The rows of the branches are those of its commits, and what the server has
\* are traced too.
LEMMA TracedRows ==
  ASSUME TypeInv, NEW c \in Clients, TracedInv(c)
  PROVE  /\ \A r \in RowsAt(c, local[c]) : Traced(c, r)
         /\ tracking[c] # {} => \A r \in RowsAt(c, tracking[c]) : Traced(c, r)
         /\ \A p \in DOMAIN server : \A r \in server[p].rows : Traced(c, r)
<1>1. History(c, local[c]) /\ (tracking[c] # {} => History(c, tracking[c]))
  BY Typed DEF ShapeOf
<1>2. \A p \in DOMAIN server : \A r \in server[p].rows : r \in Ids /\ Sent(r)
  BY RowIds DEF Sent
<1>3. \A r \in Ids : Sent(r) => Traced(c, r)
  BY DEF TracedInv, Traced
<1> QED
  BY <1>1, <1>2, <1>3, RowsIn DEF TracedInv

\* What a pull and a fetch begin with.
LEMMA Asks ==
  ASSUME TypeInv, NEW c \in Clients, PullRequest(c) \/ FetchRequest(c)
  PROVE  /\ At(c, "idle") /\ UNCHANGED <<server, store, local, tracking, sidecar, synced, merging>>
         /\ call'[c].batch = << >> /\ call'[c].pc \in {"apply", "merge", "save"}
         /\ call'[c].mode = "ff" => synced[c] = 0
<1>1. call \in [Clients -> Calls] /\ synced[c] \in Nat /\ Idle.batch = << >>
  BY Typed, IdleFields DEF Types
<1>2. CASE PullRequest(c)
  <2>1. call'[c] = PullCall(c) /\ At(c, "idle")
    BY <1>1, <1>2 DEF PullRequest
  <2>2. ~Diverged(c) => synced[c] = 0
    BY <1>1 DEF Diverged, RemoteHead
  <2>3. UNCHANGED <<server, store, local, tracking, sidecar, synced, merging>>
    BY <1>2 DEF PullRequest
  <2> QED
    BY <2>1, <2>2, <2>3, Calling
<1>3. CASE FetchRequest(c)
  <2>1. call'[c] = [Idle EXCEPT
                      !.pc = IF Answer(RemoteHead(c)) # {} THEN "apply" ELSE "save", !.mode = "fetch",
                      !.todo = Answer(RemoteHead(c)), !.upto = Len(server)]
    BY <1>1, <1>3 DEF FetchRequest
  <2>2. Idle \in Calls
    BY IdleFields
  <2>3. /\ call'[c].batch = << >> /\ call'[c].mode = "fetch"
        /\ call'[c].pc = IF Answer(RemoteHead(c)) # {} THEN "apply" ELSE "save"
    BY <1>1, <2>1, <2>2 DEF Calls
  <2> QED
    BY <1>3, <2>3 DEF FetchRequest
<1> QED
  BY <1>2, <1>3

LEMMA OwnTraced ==
  ASSUME Finishing, TypeInv, NEW c \in Clients, TracedInv(c), Step(c)
  PROVE  TracedInv(c)'
<1> DEFINE n == Len(store[c]) + 1
<1>1. /\ Keeps(c) /\ Len(store[c]) \in Nat /\ n \in Nat /\ DOMAIN store[c] = 1..Len(store[c])
      /\ store'[c] \in Seq(Objects) /\ DOMAIN store'[c] = 1..Len(store'[c])
  BY StepType, Typed DEF Keeps, Types
<1>2. \A r : Traced(c, r) => Traced(c, r)'
  BY <1>1, BranchGrows, TracedStays
<1>3. call'[c].batch = call[c].batch => \A i \in DOMAIN call'[c].batch : \A r \in call'[c].batch[i].rows : Traced(c, r)'
  BY <1>2 DEF TracedInv
<1>4. store'[c] = store[c] => \A m \in DOMAIN store'[c] : m \in DOMAIN store[c]
  OBVIOUS
<1>5. Len(store'[c]) = n => \A m \in DOMAIN store'[c] : m \in DOMAIN store[c] \/ m = n
  BY <1>1
<1>6. CASE User(c)
  <2>1. call'[c].batch = call[c].batch
    BY <1>6, UserType
  <2>2. CASE store' = store
    BY <1>3, <1>4, <2>1, <2>2, NewTraced
  <2>3. CASE /\ Len(store'[c]) = n /\ Joined(c) /\ local'[c] = local[c] \cup {n} /\ synced' = synced
             /\ store'[c][n].rows = RowsAt(c, local[c]) \cup {<<c, n>>}
    <3>1. \A r : r = <<c, n>> => Traced(c, r)'
      BY <2>3 DEF Traced, Joined, Finishing
    <3>2. \A r \in store'[c][n].rows : Traced(c, r)'
      BY <1>2, <2>3, <3>1, TracedRows
    <3> QED
      BY <1>3, <1>5, <2>1, <2>3, <3>2, NewTraced
  <2>4. CASE /\ Len(store'[c]) = n /\ tracking[c] # {}
             /\ store'[c][n].rows = RowsAt(c, local[c]) \cup RowsAt(c, tracking[c])
    <3>1. \A r \in store'[c][n].rows : Traced(c, r)'
      BY <1>2, <2>4, TracedRows
    <3> QED
      BY <1>3, <1>5, <2>1, <2>4, <3>1, NewTraced
  <2> QED
    BY <1>6, <2>2, <2>3, <2>4, UserType
<1>7. CASE PushCollect(c)
  <2>1. store' = store /\ DOMAIN call'[c].batch = DOMAIN InOrder(Unpushed(c))
    BY <1>7, Collects
  <2>2. \A i \in DOMAIN call'[c].batch : /\ InOrder(Unpushed(c))[i] \in DOMAIN store[c]
                                         /\ call'[c].batch[i].rows = store[c][InOrder(Unpushed(c))[i]].rows
    BY <1>7, <2>1, ToPush, Collects
  <2>3. \A i \in DOMAIN call'[c].batch : \A r \in call'[c].batch[i].rows : Traced(c, r)'
    BY <1>2, <2>2 DEF TracedInv
  <2> QED
    BY <1>4, <2>1, <2>3, NewTraced
<1>8. CASE Apply(c)
  <2>1. /\ call'[c].batch = call[c].batch /\ Len(store'[c]) = Len(store[c]) + Len(Listing(c))
        /\ \A i \in DOMAIN Listing(c) : store'[c][Len(store[c]) + i].rows = server[Listing(c)[i]].rows
    BY <1>8, ApplyKeeps
  <2>2. /\ DOMAIN Listing(c) = 1..Len(Listing(c)) /\ Len(Listing(c)) \in Nat
        /\ \A i \in DOMAIN Listing(c) : Listing(c)[i] \in DOMAIN server
    BY ToApply
  <2>3. ASSUME NEW m \in DOMAIN store'[c], m \notin DOMAIN store[c]
        PROVE  \A r \in store'[c][m].rows : Traced(c, r)'
    <3>1. m - Len(store[c]) \in DOMAIN Listing(c) /\ Len(store[c]) + (m - Len(store[c])) = m
      BY <1>1, <2>1, <2>2, <2>3
    <3>2. \A p \in DOMAIN server : \A r \in server[p].rows : Traced(c, r)'
      BY <1>2, TracedRows
    <3> QED
      BY <2>1, <2>2, <3>1, <3>2
  <2> QED
    BY <1>3, <2>1, <2>3, NewTraced
<1>9. CASE MergeTracking(c)
  <2>1. call'[c].batch = call[c].batch /\ tracking[c] # {}
    BY <1>9, MergeType
  <2>2. CASE store' = store
    BY <1>3, <1>4, <2>1, <2>2, NewTraced
  <2>3. CASE Len(store'[c]) = n /\ store'[c][n].rows = MergedRows(c)
    <3>1. MergedRows(c) \subseteq RowsAt(c, local[c]) \cup RowsAt(c, tracking[c])
      BY DEF MergedRows
    <3>2. \A r \in store'[c][n].rows : Traced(c, r)'
      BY <1>2, <2>1, <2>3, <3>1, TracedRows
    <3> QED
      BY <1>3, <1>5, <2>1, <2>3, <3>2, NewTraced
  <2> QED
    BY <1>9, <2>2, <2>3, MergeType
<1>10. CASE /\ store'[c] = store[c] /\ call'[c].batch \in {call[c].batch, << >>}
  <2>1. DOMAIN << >> = {}
    OBVIOUS
  <2>2. \A i \in DOMAIN call'[c].batch : \A r \in call'[c].batch[i].rows : Traced(c, r)'
    BY <1>3, <1>10, <2>1
  <2> QED
    BY <1>4, <1>10, <2>2, NewTraced
<1>11. CASE PushRequest(c)
  BY <1>10, <1>11, Request, IdleFields
<1>12. CASE PushAdvance(c) \/ PullAdvance(c)
  <2>1. store' = store
    BY <1>12 DEF PushAdvance, PullAdvance
  <2> QED
    BY <1>10, <1>12, <2>1, RefType, IdleFields
<1>13. CASE PullRequest(c) \/ FetchRequest(c)
  <2>1. store' = store
    BY <1>13 DEF PullRequest, FetchRequest
  <2>2. call'[c].batch = << >>
    BY <1>13, Asks
  <2> QED
    BY <1>10, <2>1, <2>2
<1>14. CASE Crash(c) \/ ApplyFails(c) \/ ApplyLoses(c) \/ MergeConflicts(c) \/ MergeFails(c) \/ SaveSyncState(c)
  <2>1. store' = store
    BY <1>14 DEF Crash, ApplyFails, ApplyLoses, MergeConflicts, MergeFails, SaveSyncState
  <2> QED
    BY <1>10, <1>14, <2>1, EndType, LosesType, ConflictType, SaveType, IdleFields
<1> QED
  BY <1>6, <1>7, <1>8, <1>9, <1>11, <1>12, <1>13, <1>14 DEF Step, Push, Pull

LEMMA OwnMode ==
  ASSUME Finishing, TypeInv, NEW c \in Clients, ModeInv(c), Step(c)
  PROVE  ModeInv(c)'
<1>1. /\ call'[c].pc \notin {"apply", "ref"} => /\ ~At(c, "apply")' /\ ~At(c, "ref")'
      /\ Idle.pc = "idle"
  BY IdleFields DEF At
<1>2. CASE User(c)
  <2>1. call' = call /\ synced' = synced
    BY <1>2, UserType
  <2>2. merging' \subseteq merging
    BY <1>2 DEF User, UserCommits, UserResolves, UserAborts
  <2> QED
    BY <2>1, <2>2 DEF ModeInv, At
<1>3. CASE call'[c].pc \notin {"apply", "ref"} /\ merging' = merging
  BY <1>1, <1>3 DEF ModeInv
<1>4. CASE PushCollect(c) \/ PushRequest(c)
  BY <1>1, <1>3, <1>4, Collects, Request
<1>5. CASE PushAdvance(c) \/ PullAdvance(c)
  <2>1. merging' = merging
    BY <1>5 DEF PushAdvance, PullAdvance
  <2> QED
    BY <1>1, <1>3, <1>5, <2>1, RefType
<1>6. CASE PullRequest(c) \/ FetchRequest(c)
  <2>1. /\ UNCHANGED <<synced, merging>> /\ call'[c].pc \in {"apply", "merge", "save"}
        /\ call'[c].mode = "ff" => synced[c] = 0
    BY <1>6, Asks
  <2> QED
    BY <2>1 DEF ModeInv, At
<1>7. CASE Apply(c)
  <2>1. /\ UNCHANGED <<synced, merging>> /\ At(c, "apply") /\ call'[c].pc = AfterApply(c) /\ call'[c].mode = call[c].mode
    BY <1>7, ApplyKeeps DEF Apply
  <2>2. call[c].mode \in {"ff", "merge", "fetch"}
    BY Typed DEF Calls, Modes
  <2>3. call'[c].pc = "ref" => call[c].mode = "ff"
    BY <2>1, <2>2 DEF AfterApply
  <2> QED
    BY <2>1, <2>3 DEF ModeInv, At
<1>8. CASE MergeTracking(c)
  <2>1. UNCHANGED merging /\ call'[c].mode = "merge"
    BY <1>8, MergeType
  <2> QED
    BY <2>1 DEF ModeInv
<1>9. CASE MergeConflicts(c)
  <2>1. call'[c] = Idle /\ "conflicts" \in Faults
    BY <1>9, ConflictType DEF MergeConflicts, Fails
  <2> QED
    BY <1>1, <2>1 DEF ModeInv
<1>10. CASE Crash(c) \/ ApplyFails(c) \/ ApplyLoses(c) \/ MergeFails(c) \/ SaveSyncState(c)
  <2>1. merging' = merging
    BY <1>10 DEF Crash, ApplyFails, ApplyLoses, MergeFails, SaveSyncState
  <2> QED
    BY <1>1, <1>3, <1>10, <2>1, EndType, LosesType, SaveType
<1> QED
  BY <1>2, <1>4, <1>5, <1>6, <1>7, <1>8, <1>9, <1>10 DEF Step, Push, Pull

\* Where origin/<branch> becomes the branch everything is marked, and before the
\* first pull there is nothing to mark.
LEMMA AllMarked ==
  ASSUME TypeInv, NEW c \in Clients, Keeps(c), TracedInv(c)', tracking'[c] = local'[c] \/ synced'[c] = 0
  PROVE  MarkedInv(c)'
<1>1. tracking'[c] \ {0} \subseteq DOMAIN store'[c]
  <2>1. store'[c] \in Seq(Objects) /\ (tracking'[c] = {} \/ tracking'[c] \subseteq 0..Len(store'[c]))
    BY DEF Keeps, Types, ShapeOf, History
  <2> QED
    BY <2>1
<1>2. \A r : Traced(c, r)' /\ r[1] = c => r[2] \in tracking'[c]
  BY DEF Traced
<1>3. \A k \in tracking'[c] \ {0} : \A r \in store'[c][k].rows : r[1] = c => r[2] \in tracking'[c]
  BY <1>1, <1>2 DEF TracedInv
<1>4. \A r \in Ids : r[1] = c /\ Sent(r)' => r[2] \in tracking'[c]
  BY <1>2 DEF TracedInv
<1> QED
  BY <1>3, <1>4 DEF MarkedInv, BaseInv, Marks, AnswerInv

\* A step that leaves origin/<branch> as it is.
LEMMA StillMarked ==
  ASSUME TypeInv, NEW c \in Clients, Keeps(c), NEW x \in Clients, MarkedInv(x), tracking'[x] = tracking[x],
         At(x, "pushRef") => At(x, "pushRef")',
         \A r \in Ids : r[1] = x /\ Sent(r)' => Sent(r) \/ At(x, "pushRef")' \/ "answerLost" \in Faults
  PROVE  /\ \/ At(x, "ref")'
            \/ ~At(x, "ref") /\ \A k \in local'[x] \cap tracking[x] : k \in local[x]
            => MarkedInv(x)'
         /\ BaseInv(x)' => MarkedInv(x)'
<1>1. \A k \in tracking[x] \ {0} : k \in DOMAIN store[x] /\ store'[x][k] = store[x][k]
  <2>1. DOMAIN store[x] = 1..Len(store[x]) /\ Len(store[x]) \in Nat
        /\ (tracking[x] = {} \/ tracking[x] \subseteq 0..Len(store[x]))
    BY Typed DEF ShapeOf, History
  <2>2. \A k \in DOMAIN store[x] : store'[x][k] = store[x][k]
    BY DEF Keeps, Frame, Grows
  <2> QED
    BY <2>1, <2>2
<1>2. Marks(x, tracking[x])'
  <2>1. \A r : Sent(r) => Sent(r)'
    BY ServerStays
  <2> QED
    BY <1>1, <2>1 DEF MarkedInv, Marks
<1>3. AnswerInv(x)'
  BY DEF MarkedInv, AnswerInv
<1>4. At(x, "ref")' \/ (~At(x, "ref") /\ \A k \in local'[x] \cap tracking[x] : k \in local[x]) => BaseInv(x)'
  BY <1>1 DEF MarkedInv, BaseInv
<1> QED
  BY <1>2, <1>3, <1>4 DEF MarkedInv

\* The user's commits.  A merge that was left to the user is over before the
\* server can take a row without telling so.
LEMMA UserMarked ==
  ASSUME Finishing, TypeInv, NEW c \in Clients, MarkedInv(c), ModeInv(c), User(c)
  PROVE  MarkedInv(c)'
<1>1. Keeps(c) /\ UNCHANGED <<server, tracking, call>>
  BY UserType
<1>2. /\ At(c, "pushRef") => At(c, "pushRef")'
      /\ At(c, "ref") => At(c, "ref")'
      /\ \A r \in Ids : r[1] = c /\ Sent(r)' => Sent(r)
  BY <1>1 DEF At, Sent
<1>3. Len(store[c]) \in Nat /\ (tracking[c] = {} \/ tracking[c] \subseteq 0..Len(store[c]))
      /\ local \in [Clients -> SUBSET Numbers]
  BY Typed DEF ShapeOf, History, Types
<1>4. CASE UserCommits(c) \/ UserAborts(c)
  <2>1. local'[c] \subseteq local[c] \cup {Len(store[c]) + 1}
    BY <1>3, <1>4 DEF UserCommits, UserAborts
  <2>2. Len(store[c]) + 1 \notin tracking[c]
    BY <1>3
  <2>3. At(c, "ref")' \/ (~At(c, "ref") /\ \A k \in local'[c] \cap tracking[c] : k \in local[c])
    BY <1>2, <2>1, <2>2
  <2> QED
    BY <1>1, <1>2, <2>3, StillMarked
<1>5. CASE UserResolves(c)
  <2>1. At(c, "idle") /\ c \in merging
    BY <1>5 DEF UserResolves
  <2>2. "answerLost" \notin Faults /\ ~At(c, "pushRef")
    BY <2>1 DEF ModeInv, Finishing, At
  <2>3. \A r \in Ids : r[1] = c /\ Sent(r) => r[2] \in tracking[c]
    BY <2>2 DEF MarkedInv, AnswerInv
  <2>4. \A k \in tracking[c] \ {0} : k \in DOMAIN store[c] /\ store'[c][k] = store[c][k]
    <3>1. \A k \in DOMAIN store[c] : store'[c][k] = store[c][k]
      BY <1>1 DEF Keeps, Grows
    <3>2. DOMAIN store[c] = 1..Len(store[c])
      BY Typed
    <3> QED
      BY <1>3, <3>1, <3>2
  <2>5. \A k \in tracking[c] \ {0} : \A r \in store[c][k].rows : r \in Ids /\ (r[1] = c => r[2] \in tracking[c])
    BY <2>3, <2>4, RowIds DEF MarkedInv, Marks
  <2>6. BaseInv(c)'
    BY <1>1, <2>4, <2>5 DEF BaseInv
  <2> QED
    BY <1>1, <1>2, <2>6, StillMarked
<1> QED
  BY <1>4, <1>5 DEF User

\* What is applied to origin/<branch> is from the server, and new.
LEMMA ApplyMarked ==
  ASSUME TypeInv, NEW c \in Clients, MarkedInv(c), Apply(c), TargetOf(c) = "tracking"
  PROVE  MarkedInv(c)'
<1>1. /\ Keeps(c) /\ At(c, "apply") /\ UNCHANGED server /\ local'[c] = local[c] /\ tracking'[c] = Grown(c)
      /\ Len(store'[c]) = Len(store[c]) + Len(Listing(c))
      /\ \A i \in DOMAIN Listing(c) : store'[c][Len(store[c]) + i].rows = server[Listing(c)[i]].rows
  BY ApplyKeeps DEF Apply
<1>2. /\ DOMAIN Listing(c) = 1..Len(Listing(c)) /\ Len(Listing(c)) \in Nat
      /\ \A i \in DOMAIN Listing(c) : Listing(c)[i] \in DOMAIN server
  BY ToApply
<1>3. /\ Len(store[c]) \in Nat /\ DOMAIN store[c] = 1..Len(store[c]) /\ local[c] \subseteq 0..Len(store[c])
      /\ (tracking[c] = {} \/ tracking[c] \subseteq 0..Len(store[c]))
      /\ \A k \in DOMAIN store[c] : store'[c][k] = store[c][k]
  BY <1>1, Typed DEF ShapeOf, History, Keeps, Grows
<1>4. BaseOf(c) \ {0} = tracking[c] \ {0} /\ tracking[c] \subseteq tracking'[c]
  BY <1>1 DEF BaseOf, Grown
<1>5. \A k \in tracking'[c] \ {0} : \/ k \in tracking[c] \ {0} /\ k \in DOMAIN store[c] /\ store'[c][k] = store[c][k]
                                    \/ k \notin local[c] /\ \A r \in store'[c][k].rows : Sent(r)
  <2> SUFFICES ASSUME NEW k \in tracking'[c] \ {0}, k \notin tracking[c]
               PROVE  k \notin local[c] /\ \A r \in store'[c][k].rows : Sent(r)
    BY <1>3
  <2>1. PICK i \in DOMAIN Listing(c) : k = Len(store[c]) + i
    BY <1>1, <1>4 DEF Grown
  <2>2. k \notin local[c]
    BY <1>2, <1>3, <2>1
  <2> QED
    BY <1>1, <1>2, <2>1, <2>2 DEF Sent
<1>6. \A r : Sent(r)' <=> Sent(r)
  BY <1>1 DEF Sent
<1>7. Marks(c, tracking[c])'
  BY <1>4, <1>5, <1>6 DEF MarkedInv, Marks
<1>8. AnswerInv(c)'
  <2>1. ~At(c, "pushRef")
    BY <1>1 DEF At
  <2> QED
    BY <1>4, <1>6, <2>1 DEF MarkedInv, AnswerInv
<1>9. BaseInv(c)'
  <2>1. ~At(c, "ref")
    BY <1>1 DEF At
  <2> QED
    BY <1>1, <1>4, <1>5, <2>1 DEF MarkedInv, BaseInv
<1> QED
  BY <1>7, <1>8, <1>9 DEF MarkedInv

LEMMA OwnMarked ==
  ASSUME Finishing, TypeInv, NEW c \in Clients, TracedInv(c), MarkedInv(c), ModeInv(c), Step(c)
  PROVE  MarkedInv(c)'
<1>1. Keeps(c) /\ TracedInv(c)'
  BY StepType, OwnTraced
<1>2. CASE User(c)
  BY <1>2, UserMarked
<1>3. CASE UNCHANGED <<server, store, local, tracking>> /\ ~At(c, "ref") /\ ~At(c, "pushRef")
  <2>1. \A r \in Ids : r[1] = c /\ Sent(r)' => Sent(r)
    BY <1>3 DEF Sent
  <2> QED
    BY <1>1, <1>3, <2>1, StillMarked
<1>4. CASE PushCollect(c) \/ PullRequest(c) \/ FetchRequest(c)
  <2>1. UNCHANGED <<server, store, local, tracking>> /\ At(c, "idle")
    BY <1>4, Asks DEF PushCollect
  <2> QED
    BY <1>3, <2>1 DEF At
<1>5. CASE PushRequest(c)
  <2>1. /\ At(c, "push") /\ UNCHANGED <<store, local, tracking>> /\ ~At(c, "ref") /\ ~At(c, "pushRef")
    BY <1>5, Request DEF At
  <2>2. server' # server => At(c, "pushRef")' \/ "answerLost" \in Faults
    <3>1. call \in [Clients -> Calls]
      BY Typed DEF Types
    <3>2. Goto(c, "pushRef") => At(c, "pushRef")'
      BY <3>1, Gone DEF At
    <3> QED
      BY <1>5, <3>2 DEF PushRequest, Fails
  <2>3. \A r \in Ids : r[1] = c /\ Sent(r)' => Sent(r) \/ At(c, "pushRef")' \/ "answerLost" \in Faults
    BY <2>2, OwnRowsSent
  <2> QED
    BY <1>1, <2>1, <2>3, StillMarked
<1>6. CASE PushAdvance(c)
  <2>1. tracking'[c] = local[c] /\ local' = local
    BY <1>6, RefType DEF PushAdvance
  <2> QED
    BY <1>1, <2>1, AllMarked
<1>7. CASE PullAdvance(c)
  <2>1. /\ tracking'[c] = IF call[c].mode = "merge" THEN local[c] ELSE call[c].head
        /\ local' = local /\ synced' = synced /\ At(c, "ref")
    BY <1>7, RefType DEF PullAdvance
  <2>2. call[c].mode \in {"ff", "merge", "fetch"}
    BY Typed DEF Calls, Modes
  <2>3. tracking'[c] = local'[c] \/ synced'[c] = 0
    BY <2>1, <2>2 DEF ModeInv
  <2> QED
    BY <1>1, <2>3, AllMarked
<1>8. CASE Apply(c)
  <2>1. CASE TargetOf(c) = "branch"
    <3>1. call[c].mode = "ff" /\ At(c, "apply") /\ synced' = synced
      BY <1>8, <2>1 DEF Apply, TargetOf
    <3>2. synced'[c] = 0
      BY <3>1 DEF ModeInv
    <3> QED
      BY <1>1, <3>2, AllMarked
  <2>2. CASE TargetOf(c) = "tracking"
    BY <1>8, <2>2, ApplyMarked
  <2> QED
    BY <2>1, <2>2 DEF TargetOf
<1>9. CASE MergeTracking(c)
  <2>1. UNCHANGED <<server, tracking>> /\ call'[c].pc = "ref" /\ At(c, "merge")
    BY <1>9, MergeType DEF MergeTracking
  <2>2. At(c, "ref")' /\ ~At(c, "pushRef") /\ \A r \in Ids : r[1] = c /\ Sent(r)' => Sent(r)
    BY <2>1 DEF At, Sent
  <2> QED
    BY <1>1, <2>1, <2>2, StillMarked
<1>10. CASE ApplyFails(c) \/ ApplyLoses(c) \/ MergeConflicts(c) \/ MergeFails(c) \/ SaveSyncState(c)
  <2>1. /\ UNCHANGED <<server, store, local, tracking>>
        /\ At(c, "apply") \/ At(c, "merge") \/ At(c, "save")
    BY <1>10 DEF ApplyFails, ApplyLoses, MergeConflicts, MergeFails, SaveSyncState
  <2> QED
    BY <1>3, <2>1 DEF At
<1>11. ~Crash(c)
  BY DEF Crash, Finishing, Fails
<1> QED
  BY <1>2, <1>4, <1>5, <1>6, <1>7, <1>8, <1>9, <1>10, <1>11 DEF Step, Push, Pull

LEMMA OtherFetches ==
  ASSUME TypeInv, NEW c \in Clients, Keeps(c), NEW x \in Clients, x # c, TracedInv(x), MarkedInv(x), ModeInv(x),
         \A r \in Ids : Sent(r)' => Sent(r) \/ r[1] = c
  PROVE  TracedInv(x)' /\ MarkedInv(x)' /\ ModeInv(x)'
<1>1. /\ store'[x] = store[x] /\ local'[x] = local[x] /\ tracking'[x] = tracking[x]
      /\ synced'[x] = synced[x] /\ call'[x] = call[x] /\ (x \in merging' <=> x \in merging)
  BY DEF Keeps, Frame
<1>2. \A r \in Ids : r[1] = x /\ Sent(r)' => Sent(r)
  OBVIOUS
<1>3. TracedInv(x)'
  <2>1. \A r : Traced(x, r) => Traced(x, r)'
    BY <1>1, TracedStays
  <2> QED
    BY <1>1, <1>2, <2>1 DEF TracedInv
<1>4. MarkedInv(x)'
  <2>1. (At(x, "ref") <=> At(x, "ref")') /\ (At(x, "pushRef") <=> At(x, "pushRef")')
    BY <1>1 DEF At
  <2> QED
    BY <1>1, <1>2, <2>1, StillMarked
<1>5. ModeInv(x)'
  BY <1>1 DEF ModeInv, At
<1> QED
  BY <1>3, <1>4, <1>5

LEMMA FetchInit == Init => FetchInv
<1> SUFFICES ASSUME Init PROVE FetchInv
  OBVIOUS
<1>1. \A p \in DOMAIN server : server[p].rows = {<<Seed, 1>>}
  <2>1. server = << >> \/ server = <<[id |-> <<Seed, 1>>, rows |-> {<<Seed, 1>>}]>>
    BY DEF Init
  <2> QED
    BY <2>1
<1>2. ASSUME NEW c \in Clients PROVE TracedInv(c) /\ MarkedInv(c) /\ ModeInv(c)
  <2>1. /\ store[c] = << >> /\ DOMAIN store[c] = {} /\ tracking[c] = {} /\ merging = {}
        /\ call[c] = Idle /\ Idle.pc = "idle" /\ DOMAIN Idle.batch = {}
    BY IdleFields DEF Init
  <2>2. \A r : Sent(r) => r[1] # c
    BY <1>1, ConstantsAssumption DEF Sent
  <2>3. ~At(c, "apply") /\ ~At(c, "ref")
    BY <2>1 DEF At
  <2> QED
    BY <2>1, <2>2, <2>3 DEF TracedInv, MarkedInv, BaseInv, Marks, AnswerInv, ModeInv
<1> QED
  BY <1>2, TypeInit DEF FetchInv

LEMMA FetchNext == ASSUME Finishing, FetchInv, [Next]_vars PROVE FetchInv'
<1>1. TypeInv'
  BY TypeNext DEF FetchInv
<1>2. ASSUME NEW c \in Clients, Step(c), NEW x \in Clients PROVE TracedInv(x)' /\ MarkedInv(x)' /\ ModeInv(x)'
  <2>1. /\ TypeInv /\ TracedInv(c) /\ MarkedInv(c) /\ ModeInv(c) /\ TracedInv(x) /\ MarkedInv(x) /\ ModeInv(x)
    BY DEF FetchInv
  <2>2. CASE x = c
    BY <1>2, <2>1, <2>2, OwnTraced, OwnMarked, OwnMode
  <2>3. CASE x # c
    <3>1. Keeps(c) /\ \A r \in Ids : Sent(r)' => Sent(r) \/ r[1] = c
      BY <1>2, <2>1, StepType, OwnRowsSent
    <3> QED
      BY <2>1, <2>3, <3>1, OtherFetches
  <2> QED
    BY <2>2, <2>3
<1>3. CASE UNCHANGED vars
  <2>1. ASSUME NEW x \in Clients PROVE TracedInv(x)' /\ MarkedInv(x)' /\ ModeInv(x)'
    <3>1. TracedInv(x) /\ MarkedInv(x) /\ ModeInv(x)
      BY DEF FetchInv
    <3> QED
      BY <1>3, <3>1 DEF vars, TracedInv, Traced, Sent, MarkedInv, BaseInv, Marks, AnswerInv, ModeInv, At
  <2> QED
    BY <1>1, <2>1 DEF FetchInv
<1> QED
  BY <1>1, <1>2, <1>3 DEF FetchInv, Next, Step

\* Where the rows of the user's branches are from, and which of them
\* origin/<branch> has (the invariant of the next theorem).
THEOREM FetchIsInvariant == ASSUME Finishing PROVE Spec => []FetchInv
<1>1. FetchInv /\ [Next]_vars => FetchInv'
  BY FetchNext
<1> QED
  BY <1>1, FetchInit, PTL DEF Spec

LEMMA SurvivesFetches ==
  ASSUME Finishing, FetchInv, NEW c \in Clients, Step(c),
         NEW r \in RowsAt(c, local[c]), NEW k \in local[c] \ tracking[c], r = <<c, k>>
  PROVE  r \in RowsAt(c, local[c])'
<1> DEFINE n == Len(store[c]) + 1
<1>1. /\ Keeps(c) /\ TypeInv /\ TracedInv(c) /\ MarkedInv(c) /\ ModeInv(c) /\ History(c, local[c])
      /\ Len(store[c]) \in Nat /\ n \in Nat \ {0}
  BY StepType, Typed DEF FetchInv, ShapeOf
<1>2. r[1] = c /\ r[2] = k
  OBVIOUS
<1>3. CASE local'[c] = local[c]
  BY <1>1, <1>3, RowsStay
<1>4. ASSUME NEW add \in SUBSET (0..Len(store[c])), local'[c] = local[c] \cup add \cup {n}
      PROVE  RowsAt(c, local[c])' = store'[c][n].rows
  <2>1. local'[c] \subseteq 0..n /\ n \in local'[c]
    <3>1. 0..Len(store[c]) \subseteq 0..n /\ n \in 0..n
      BY <1>1
    <3> QED
      BY <1>1, <1>4, <3>1 DEF History
  <2>2. \A h : h \subseteq 0..n /\ n \in h => RowsAt(c, h)' = store'[c][n].rows
    BY <1>1, NewTop
  <2> QED
    BY <2>1, <2>2
<1>5. CASE User(c)
  <2>1. \/ local'[c] = local[c]
        \/ local'[c] = local[c] \cup {} \cup {n} /\ r \in store'[c][n].rows
        \/ local'[c] = local[c] \cup tracking[c] \cup {n} /\ r \in store'[c][n].rows
    BY <1>1, <1>5, UserType
  <2>2. tracking[c] \in SUBSET (0..Len(store[c])) /\ {} \in SUBSET (0..Len(store[c]))
    BY <1>1, Typed DEF ShapeOf, History
  <2> QED
    BY <1>3, <1>4, <2>1, <2>2
<1>6. CASE Apply(c)
  <2>1. CASE TargetOf(c) = "branch"
    <3>1. call[c].mode = "ff" /\ At(c, "apply")
      BY <1>6, <2>1 DEF Apply, TargetOf
    <3>2. synced[c] = 0 /\ Traced(c, r)
      BY <1>1, <3>1, TracedRows DEF ModeInv
    <3>3. synced[c] > 0
      BY <1>2, <3>2 DEF Traced
    <3> QED
      BY <3>2, <3>3
  <2>2. CASE TargetOf(c) = "tracking"
    BY <1>1, <1>3, <1>6, <2>2, ApplyKeeps
  <2> QED
    BY <2>1, <2>2 DEF TargetOf
<1>7. CASE MergeTracking(c)
  <2>1. CASE local[c] \subseteq tracking[c]
    BY <2>1
  <2>2. CASE local'[c] = local[c] \cup tracking[c] \cup {n} /\ store'[c][n].rows = MergedRows(c)
    <3> DEFINE base == RowsAt(c, local[c] \cap tracking[c])
    <3>1. tracking[c] \in SUBSET (0..Len(store[c])) /\ History(c, tracking[c]) /\ ~At(c, "ref")
      BY <1>1, <1>7, Typed DEF MergeTracking, ShapeOf, History, At
    <3>2. RowsAt(c, local[c])' = MergedRows(c)
      BY <1>4, <2>2, <3>1
    <3>3. ASSUME r \in base PROVE FALSE
      <4>1. History(c, local[c] \cap tracking[c])
        BY <1>1, <3>1 DEF History
      <4>2. PICK m \in (local[c] \cap tracking[c]) \ {0} : m \in DOMAIN store[c] /\ r \in store[c][m].rows
        BY <1>1, <3>3, <4>1, RowsIn
      <4>3. r[2] \in tracking[c]
        BY <1>1, <1>2, <3>1, <4>2 DEF MarkedInv, BaseInv
      <4> QED
        BY <1>2, <4>3
    <3> QED
      BY <3>2, <3>3 DEF MergedRows
  <2> QED
    BY <1>1, <1>3, <1>7, <2>1, <2>2, MergeType
<1>8. CASE Push(c) \/ PullRequest(c) \/ FetchRequest(c) \/ Crash(c) \/ ApplyFails(c) \/ ApplyLoses(c)
           \/ MergeConflicts(c) \/ MergeFails(c) \/ PullAdvance(c) \/ SaveSyncState(c)
  <2>1. local' = local
    BY <1>8 DEF Push, PushCollect, PushRequest, PushAdvance, PullRequest, FetchRequest, Crash, ApplyFails, ApplyLoses,
                MergeConflicts, MergeFails, PullAdvance, SaveSyncState
  <2> QED
    BY <1>3, <2>1
<1> QED
  BY <1>5, <1>6, <1>7, <1>8 DEF Step, Pull

\* The same for users who fetch, and whatever fails or is lost, the advance of a
\* branch whose sidecar was written too, as long as no process dies and lost
\* answers do not come together with merges that stop at a conflict (runFetch,
\* runPull, runPush, mergeFromRemote, advanceRemoteRef).
THEOREM UnmarkedSurviveFetches ==
  ASSUME Finishing
  PROVE  Spec => UnmarkedRowsSurvive
<1> DEFINE A == \A c \in Clients :
                  OwnRows(c, local[c]) \cap {<<c, n>> : n \in local[c] \ tracking[c]} \subseteq RowsAt(c, local[c])'
<1>1. ASSUME FetchInv, [Next]_vars PROVE [A]_local
  <2> SUFFICES ASSUME NEW c \in Clients, Step(c), NEW x \in Clients,
                      NEW r \in OwnRows(x, local[x]) \cap {<<x, n>> : n \in local[x] \ tracking[x]}
               PROVE  r \in RowsAt(x, local[x])'
    BY <1>1 DEF vars, Next, Step
  <2>1. r \in RowsAt(x, local[x]) /\ \E k \in local[x] \ tracking[x] : r = <<x, k>>
    BY DEF OwnRows
  <2>2. CASE x = c
    BY <1>1, <2>1, <2>2, SurvivesFetches
  <2>3. CASE x # c
    <3>1. Keeps(c) /\ TypeInv /\ History(x, local[x])
      BY <1>1, StepType, Typed DEF FetchInv, ShapeOf
    <3>2. RowsAt(x, local[x])' = RowsAt(x, local[x])
      BY <2>3, <3>1, RowsStay DEF Keeps, Frame
    <3> QED
      BY <2>1, <3>2
  <2> QED
    BY <2>2, <2>3
<1>2. FetchInv /\ [Next]_vars => [A]_local
  BY <1>1
<1> QED
  BY <1>2, FetchIsInvariant, PTL DEF Spec, UnmarkedRowsSurvive
=============================================================================
