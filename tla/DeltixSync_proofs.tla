-------------------------- MODULE DeltixSync_proofs --------------------------
(***************************************************************************)
(* Theorems about DeltixSync, for every value of its constants.            *)
(***************************************************************************)
EXTENDS DeltixSync, FiniteSetTheorems, TLAPS

(***************************************************************************)
(* Numbers in ascending order.                                             *)
(***************************************************************************)

\* The members of a finite set of numbers have the ranks 1 to its size.
LEMMA Ranks ==
  ASSUME NEW S \in SUBSET Nat, IsFiniteSet(S)
  PROVE  /\ Cardinality(S) \in Nat
         /\ \A n \in S : Cardinality({m \in S : m <= n}) \in 1..Cardinality(S)
         /\ \A n, k \in S : n < k => Cardinality({m \in S : m <= n}) < Cardinality({m \in S : m <= k})
         /\ \A i \in 1..Cardinality(S) : \E n \in S : Cardinality({m \in S : m <= n}) = i
<1> DEFINE Below(n) == {m \in S : m <= n}
           N == Cardinality(S)
           f == [n \in S |-> Cardinality(Below(n))]
<1>1. N \in Nat
  BY FS_CardinalityType
<1>2. ASSUME NEW n \in S
      PROVE  IsFiniteSet(Below(n)) /\ Cardinality(Below(n)) \in 1..N
  <2>1. IsFiniteSet(Below(n)) /\ Cardinality(Below(n)) <= N
    <3>1. Below(n) \in SUBSET S
      OBVIOUS
    <3> QED
      BY <3>1, FS_Subset
  <2>2. Cardinality(Below(n)) \in Nat /\ Cardinality(Below(n)) # 0
    <3>1. n \in Below(n)
      OBVIOUS
    <3> QED
      BY <2>1, <3>1, FS_CardinalityType, FS_EmptySet
  <2> QED
    BY <1>1, <2>1, <2>2
<1>3. ASSUME NEW n \in S, NEW k \in S, n < k
      PROVE  Cardinality(Below(n)) < Cardinality(Below(k))
  <2>1. Below(n) \in SUBSET Below(k) /\ Below(n) # Below(k)
    <3>1. n \in Nat /\ k \in Nat
      OBVIOUS
    <3>2. k \in Below(k) /\ k \notin Below(n)
      BY <1>3, <3>1
    <3>3. \A m \in Below(n) : m \in Below(k)
      BY <1>3, <3>1
    <3> QED
      BY <3>2, <3>3
  <2>2. Cardinality(Below(n)) <= Cardinality(Below(k)) /\ Cardinality(Below(n)) # Cardinality(Below(k))
    BY <1>2, <2>1, FS_Subset
  <2> QED
    BY <1>1, <1>2, <2>2
<1>4. f \in Injection(S, 1..N)
  <2>1. f \in [S -> 1..N]
    BY <1>2
  <2>2. \A n, k \in S : f[n] = f[k] => n = k
    <3> SUFFICES ASSUME NEW n \in S, NEW k \in S, f[n] = f[k], n # k PROVE FALSE
      OBVIOUS
    <3>1. n < k \/ k < n
      OBVIOUS
    <3>2. f[n] < f[k] \/ f[k] < f[n]
      BY <1>3, <3>1
    <3> QED
      BY <1>1, <1>2, <3>2
  <2> QED
    BY <2>1, <2>2 DEF Injection, IsInjective
<1>5. IsFiniteSet(1..N) /\ Cardinality(1..N) = N
  <2>1. 1 \in Int /\ N \in Int
    BY <1>1
  <2>2. IsFiniteSet(1..N) /\ Cardinality(1..N) = IF 1 > N THEN 0 ELSE N - 1 + 1
    BY <2>1, FS_Interval
  <2> QED
    BY <1>1, <2>2
<1>6. f \in Surjection(S, 1..N)
  BY <1>4, <1>5, FS_Injection
<1>7. \A i \in 1..N : \E n \in S : Cardinality(Below(n)) = i
  <2>1. \A i \in 1..N : \E n \in S : f[n] = i
    BY <1>6 DEF Surjection
  <2> QED
    BY <2>1
<1> QED
  BY <1>1, <1>2, <1>3, <1>7

\* InOrder lists each member once, in ascending order.
LEMMA InOrderLists ==
  ASSUME NEW S \in SUBSET Nat, IsFiniteSet(S)
  PROVE  /\ InOrder(S) \in Seq(S) /\ DOMAIN InOrder(S) = 1..Cardinality(S)
         /\ Len(InOrder(S)) = Cardinality(S) /\ Cardinality(S) \in Nat
         /\ \A n \in S : \E i \in DOMAIN InOrder(S) : InOrder(S)[i] = n
         /\ \A i, j \in DOMAIN InOrder(S) : i < j => InOrder(S)[i] < InOrder(S)[j]
<1> DEFINE N == Cardinality(S)
           rank(n) == Cardinality({m \in S : m <= n})
           s == InOrder(S)
<1>1. /\ N \in Nat /\ \A n \in S : rank(n) \in 1..N
      /\ \A n, k \in S : n < k => rank(n) < rank(k)
      /\ \A i \in 1..N : \E n \in S : rank(n) = i
  BY Ranks
<1>2. s = [i \in 1..N |-> CHOOSE n \in S : rank(n) = i]
  BY DEF InOrder
<1> HIDE DEF rank, s
<1>3. DOMAIN s = 1..N /\ \A i \in 1..N : s[i] \in S /\ rank(s[i]) = i
  BY <1>1, <1>2
<1>4. s \in Seq(S) /\ Len(s) = N
  <2>1. s \in [1..N -> S]
    BY <1>2, <1>3
  <2> QED
    BY <1>1, <2>1
<1>5. \A n, k \in S : rank(n) = rank(k) => n = k
  <2> SUFFICES ASSUME NEW n \in S, NEW k \in S, rank(n) = rank(k), n # k PROVE FALSE
    OBVIOUS
  <2>1. n < k \/ k < n
    OBVIOUS
  <2>2. rank(n) \in Nat /\ rank(k) \in Nat
    BY <1>1
  <2> QED
    BY <1>1, <2>1, <2>2
<1>6. \A n \in S : \E i \in DOMAIN s : s[i] = n
  <2> TAKE n \in S
  <2>1. rank(n) \in 1..N
    BY <1>1
  <2>2. s[rank(n)] \in S /\ rank(s[rank(n)]) = rank(n)
    BY <1>3, <2>1
  <2> QED
    BY <1>3, <1>5, <2>1, <2>2
<1>7. \A i, j \in DOMAIN s : i < j => s[i] < s[j]
  <2> SUFFICES ASSUME NEW i \in 1..N, NEW j \in 1..N, i < j, ~(s[i] < s[j]) PROVE FALSE
    BY <1>3
  <2>1. s[i] \in Nat /\ s[j] \in Nat /\ rank(s[i]) = i /\ rank(s[j]) = j
    BY <1>3
  <2>2. s[j] < s[i] \/ s[j] = s[i]
    BY <2>1
  <2>3. j < i \/ j = i
    BY <1>1, <1>3, <2>1, <2>2
  <2> QED
    BY <1>1, <2>3
<1> QED
  BY <1>1, <1>3, <1>4, <1>6, <1>7 DEF s

LEMMA TopIsLast ==
  ASSUME NEW h \in SUBSET Nat, IsFiniteSet(h), h # {}
  PROVE  Top(h) \in h /\ \A m \in h : m <= Top(h)
<1>1. Cardinality(h) \in Nat /\ Cardinality(h) # 0
  BY FS_CardinalityType, FS_EmptySet
<1>2. PICK n \in h : Cardinality({m \in h : m <= n}) = Cardinality(h)
  BY <1>1, Ranks
<1>3. {m \in h : m <= n} = h
  BY <1>2, FS_Subset
<1>4. \A m \in h : m <= n
  BY <1>3
<1> QED
  BY <1>4 DEF Top

LEMMA Prefixes ==
  ASSUME NEW k \in Nat
  PROVE  \A h \in SUBSET (0..k) : h \in SUBSET Nat /\ IsFiniteSet(h)
<1>1. IsFiniteSet(0..k)
  <2>1. 0 \in Int /\ k \in Int
    OBVIOUS
  <2> QED
    BY <2>1, FS_Interval
<1>2. \A h \in SUBSET (0..k) : IsFiniteSet(h)
  BY <1>1, FS_Subset
<1> QED
  BY <1>2

(***************************************************************************)
(* Types.  A history has the `dolt init` commit in it, unless the branch   *)
(* does not exist, and nothing that is to come: only then has RowsAt a     *)
(* value.                                                                  *)
(***************************************************************************)
History(c, h) == h \subseteq 0..Len(store[c]) /\ 0 \in h

ShapeOf(c) ==
  /\ History(c, local[c])
  /\ tracking[c] = {} \/ History(c, tracking[c])
  /\ c \in merging => tracking[c] # {}
  /\ \A b \in {"branch", "tracking"} : sidecar[c][b] \subseteq 1..Len(server)
  /\ call[c].todo \subseteq 1..Len(server) /\ call[c].upto \in 0..Len(server)
  /\ call[c].head \subseteq 0..Len(store[c])
  /\ At(c, "ref") /\ call[c].mode # "merge" => History(c, call[c].head)
  /\ call[c].mode = "merge" \/ ~At(c, "merge")

TypeInv == TypeOK /\ \A c \in Clients : ShapeOf(c)

Types ==
  /\ server \in Seq(Commits) /\ Len(server) <= MaxServer
  /\ store \in [Clients -> Seq(Objects)]
  /\ local \in [Clients -> SUBSET Numbers] /\ tracking \in [Clients -> SUBSET Numbers]
  /\ sidecar \in [Clients -> [{"branch", "tracking"} -> SUBSET (1..MaxServer)]]
  /\ synced \in [Clients -> Nat] /\ merging \in SUBSET Clients /\ call \in [Clients -> Calls]

Own(c) == Len(store[c]) <= MaxStore /\ synced[c] \in 0..Len(server)

\* A client's step leaves what is another's, and what is numbered stays.
Frame(c) ==
  \A x \in Clients : x # c =>
    /\ store'[x] = store[x] /\ local'[x] = local[x] /\ tracking'[x] = tracking[x]
    /\ sidecar'[x] = sidecar[x] /\ synced'[x] = synced[x] /\ call'[x] = call[x]
    /\ x \in merging' <=> x \in merging

Grows(c) ==
  /\ Len(server) <= Len(server') /\ \A p \in DOMAIN server : server'[p] = server[p]
  /\ Len(store[c]) <= Len(store'[c]) /\ \A n \in DOMAIN store[c] : store'[c][n] = store[c][n]

Keeps(c) == Frame(c) /\ Grows(c) /\ Types' /\ Own(c)' /\ ShapeOf(c)'

LEMMA Typed ==
  ASSUME TypeInv
  PROVE  /\ Types /\ Len(server) \in Nat /\ DOMAIN server = 1..Len(server)
         /\ \A c \in Clients : /\ Own(c) /\ ShapeOf(c) /\ Len(store[c]) \in Nat
                               /\ DOMAIN store[c] = 1..Len(store[c]) /\ call[c] \in Calls
BY ConstantsAssumption DEF TypeInv, TypeOK, Types, Own

LEMMA StepKeeps == ASSUME TypeInv, NEW c \in Clients, Keeps(c) PROVE TypeInv'
<1>1. \A x \in Clients : Own(x)' /\ ShapeOf(x)'
  <2> SUFFICES ASSUME NEW x \in Clients, x # c PROVE Own(x)' /\ ShapeOf(x)'
    BY DEF Keeps
  <2>1. /\ store'[x] = store[x] /\ local'[x] = local[x] /\ tracking'[x] = tracking[x]
        /\ sidecar'[x] = sidecar[x] /\ synced'[x] = synced[x] /\ call'[x] = call[x]
        /\ x \in merging' <=> x \in merging
    BY DEF Keeps, Frame
  <2>2. Len(server) \in Nat /\ Len(server') \in Nat /\ Len(server) <= Len(server') /\ Own(x) /\ ShapeOf(x)
    BY Typed DEF Keeps, Grows, Types
  <2>3. 1..Len(server) \subseteq 1..Len(server') /\ 0..Len(server) \subseteq 0..Len(server')
    BY <2>2
  <2> QED
    BY <2>1, <2>2, <2>3 DEF Own, ShapeOf, History, At
<1>2. Types'
  BY DEF Keeps
<1>3. TypeOK'
  <2>1. \A x \in Clients : Len(store'[x]) <= MaxStore /\ local'[x] \cup tracking'[x] \subseteq 0..Len(store'[x])
    BY <1>1 DEF Own, ShapeOf, History
  <2>2. synced' \in [Clients -> 0..Len(server')]
    BY <1>1, <1>2 DEF Own, Types
  <2> QED
    BY <1>2, <2>1, <2>2 DEF TypeOK, Types
<1> QED
  BY <1>1, <1>3 DEF TypeInv

LEMMA IdleFields ==
  /\ Idle \in Calls /\ Idle.pc = "idle" /\ Idle.from = <<"none", 0>> /\ Idle.batch = << >>
  /\ Idle.mode = "ff" /\ Idle.todo = {} /\ Idle.upto = 0 /\ Idle.head = {}
BY ConstantsAssumption DEF Idle, Calls, Froms, Modes, Numbers

LEMMA Ended ==
  ASSUME TypeInv, NEW c \in Clients, Ends(c)
  PROVE  call' \in [Clients -> Calls] /\ call'[c] = Idle /\ \A x \in Clients : x # c => call'[x] = call[x]
BY Typed, IdleFields DEF Ends, Types

LEMMA Gone ==
  ASSUME TypeInv, NEW c \in Clients, NEW pc \in {"pushRef", "merge", "ref", "save"}, Goto(c, pc)
  PROVE  /\ call' \in [Clients -> Calls] /\ \A x \in Clients : x # c => call'[x] = call[x]
         /\ call'[c].pc = pc /\ call'[c].from = call[c].from /\ call'[c].batch = call[c].batch
         /\ call'[c].mode = call[c].mode /\ call'[c].todo = call[c].todo
         /\ call'[c].upto = call[c].upto /\ call'[c].head = call[c].head
<1> DEFINE d == [call[c] EXCEPT !.pc = pc]
<1>1. call[c] \in Calls /\ call \in [Clients -> Calls]
  BY Typed DEF Types
<1>2. d \in Calls /\ d.pc = pc /\ d.from = call[c].from /\ d.batch = call[c].batch /\ d.mode = call[c].mode
      /\ d.todo = call[c].todo /\ d.upto = call[c].upto /\ d.head = call[c].head
  BY <1>1 DEF Calls
<1>3. call' = [call EXCEPT ![c] = d]
  BY DEF Goto
<1> HIDE DEF d
<1> QED
  BY <1>1, <1>2, <1>3

LEMMA Sets ==
  ASSUME TypeInv, NEW c \in Clients
  PROVE  /\ \A k \in Nat : k <= Len(store[c]) => 0..k \subseteq Numbers
         /\ \A k \in Nat : k <= MaxStore => 0..k \subseteq Numbers
         /\ 1..Len(server) \subseteq 1..MaxServer /\ 0..Len(server) \subseteq 0..MaxServer
<1>1. Len(store[c]) \in Nat /\ Len(store[c]) <= MaxStore /\ Len(server) \in Nat /\ Len(server) <= MaxServer
  BY Typed DEF Own, Types
<1> QED
  BY <1>1, ConstantsAssumption DEF Numbers

\* A step that changes the call only.
LEMMA CallKeeps ==
  ASSUME TypeInv, NEW c \in Clients, UNCHANGED <<server, store, local, tracking, sidecar, synced, merging>>,
         call' \in [Clients -> Calls], \A x \in Clients : x # c => call'[x] = call[x],
         call'[c].todo \subseteq 1..Len(server), call'[c].upto \in 0..Len(server),
         call'[c].head \subseteq 0..Len(store[c]), call'[c].pc # "ref",
         call'[c].mode = "merge" \/ call'[c].pc # "merge"
  PROVE  Keeps(c)
<1>1. Types /\ Own(c) /\ ShapeOf(c) /\ Len(server) \in Nat /\ Len(store[c]) \in Nat
  BY Typed
<1>2. Frame(c) /\ Grows(c)
  BY <1>1 DEF Frame, Grows
<1>3. Types' /\ Own(c)'
  BY <1>1 DEF Types, Own
<1>4. ShapeOf(c)'
  BY <1>1 DEF ShapeOf, History, At
<1> QED
  BY <1>2, <1>3, <1>4 DEF Keeps

LEMMA EndKeeps ==
  ASSUME TypeInv, NEW c \in Clients, Ends(c), UNCHANGED <<server, store, local, tracking, sidecar, synced, merging>>
  PROVE  Keeps(c)
<1>1. 0 \in 0..Len(server) /\ Len(store[c]) \in Nat
  BY Typed
<1> QED
  BY <1>1, Ended, IdleFields, CallKeeps

LEMMA RowsTyped ==
  ASSUME TypeInv, NEW c \in Clients, NEW h, History(c, h)
  PROVE  /\ IsFiniteSet(h) /\ Top(h) \in h /\ \A m \in h : m <= Top(h)
         /\ RowsAt(c, h) \subseteq Ids
<1>1. Len(store[c]) \in Nat /\ DOMAIN store[c] = 1..Len(store[c]) /\ store[c] \in Seq(Objects)
  BY Typed DEF Types
<1>2. h \in SUBSET Nat /\ IsFiniteSet(h) /\ h # {}
  BY <1>1, Prefixes DEF History
<1>3. Top(h) \in h /\ \A m \in h : m <= Top(h)
  BY <1>2, TopIsLast
<1>4. Top(h) = 0 => RowsAt(c, h) = {}
  BY DEF RowsAt
<1>5. ASSUME Top(h) # 0 PROVE RowsAt(c, h) \subseteq Ids
  <2>1. Top(h) \in 0..Len(store[c])
    BY <1>3 DEF History
  <2>2. store[c][Top(h)] \in Objects
    BY <1>1, <1>5, <2>1
  <2>3. RowsAt(c, h) = store[c][Top(h)].rows
    BY <1>5 DEF RowsAt
  <2> QED
    BY <2>2, <2>3 DEF Objects
<1> QED
  BY <1>2, <1>3, <1>4, <1>5

\* A commit of the client's own.
LEMMA OwnCommit ==
  ASSUME TypeInv, NEW c \in Clients, NEW rows \in SUBSET Ids, NEW changed \in BOOLEAN,
         Len(store[c]) + 1 <= MaxStore,
         store' = [store EXCEPT ![c] = Append(@, [id |-> <<c, Len(store[c]) + 1>>, rows |-> rows, changed |-> changed])]
  PROVE  /\ store' \in [Clients -> Seq(Objects)] /\ \A x \in Clients : x # c => store'[x] = store[x]
         /\ Len(store'[c]) = Len(store[c]) + 1 /\ \A n \in DOMAIN store[c] : store'[c][n] = store[c][n]
         /\ store'[c][Len(store[c]) + 1].id = <<c, Len(store[c]) + 1>>
         /\ store'[c][Len(store[c]) + 1].rows = rows
<1> DEFINE n == Len(store[c]) + 1
           o == [id |-> <<c, n>>, rows |-> rows, changed |-> changed]
<1>1. Len(store[c]) \in Nat /\ store \in [Clients -> Seq(Objects)] /\ store[c] \in Seq(Objects)
  BY Typed DEF Types
<1>2. <<c, n>> \in Ids
  BY <1>1, ConstantsAssumption DEF Ids
<1>3. o \in Objects /\ o.id = <<c, n>> /\ o.rows = rows
  BY <1>2 DEF Objects
<1>4. store' = [store EXCEPT ![c] = Append(store[c], o)]
  OBVIOUS
<1> HIDE DEF o
<1>5. Append(store[c], o) \in Seq(Objects) /\ Len(Append(store[c], o)) = n /\ Append(store[c], o)[n] = o
      /\ \A k \in DOMAIN store[c] : Append(store[c], o)[k] = store[c][k]
  BY <1>1, <1>3
<1> QED
  BY <1>1, <1>3, <1>4, <1>5

\* What the user does between two commands, or beside one.
LEMMA UserType ==
  ASSUME TypeInv, NEW c \in Clients, User(c)
  PROVE  /\ Keeps(c) /\ UNCHANGED <<server, tracking, sidecar, synced, call>>
         /\ \/ store' = store /\ local' = local
            \/ /\ Len(store'[c]) = Len(store[c]) + 1 /\ store'[c][Len(store[c]) + 1].id = <<c, Len(store[c]) + 1>>
               /\ \/ /\ Joined(c) /\ local'[c] = local[c] \cup {Len(store[c]) + 1}
                     /\ store'[c][Len(store[c]) + 1].rows = RowsAt(c, local[c]) \cup {<<c, Len(store[c]) + 1>>}
                  \/ /\ At(c, "idle") /\ tracking[c] # {}
                     /\ local'[c] = local[c] \cup tracking[c] \cup {Len(store[c]) + 1}
                     /\ store'[c][Len(store[c]) + 1].rows = RowsAt(c, local[c]) \cup RowsAt(c, tracking[c])
<1> DEFINE n == Len(store[c]) + 1
<1>1. /\ Types /\ Own(c) /\ ShapeOf(c) /\ Len(server) \in Nat /\ Len(store[c]) \in Nat /\ call[c] \in Calls
      /\ n \in Nat /\ Len(store[c]) <= n /\ 0..Len(store[c]) \subseteq 0..n
  BY Typed
<1>2. RowsAt(c, local[c]) \subseteq Ids /\ (tracking[c] # {} => RowsAt(c, tracking[c]) \subseteq Ids)
  BY <1>1, RowsTyped DEF ShapeOf
<1>3. ASSUME NEW rows \in SUBSET Ids, NEW changed \in BOOLEAN, NEW add, n <= MaxStore,
             add = {} \/ add = tracking[c],
             store' = [store EXCEPT ![c] = Append(@, [id |-> <<c, n>>, rows |-> rows, changed |-> changed])],
             local' = [local EXCEPT ![c] = @ \cup add \cup {n}],
             merging' \subseteq merging, \A x \in Clients : x # c => (x \in merging' <=> x \in merging),
             UNCHANGED <<server, tracking, sidecar, synced, call>>
      PROVE  /\ Keeps(c) /\ Len(store'[c]) = n /\ store'[c][n].id = <<c, n>> /\ store'[c][n].rows = rows
             /\ local'[c] = local[c] \cup add \cup {n}
  <2>1. /\ store' \in [Clients -> Seq(Objects)] /\ \A x \in Clients : x # c => store'[x] = store[x]
        /\ Len(store'[c]) = n /\ \A k \in DOMAIN store[c] : store'[c][k] = store[c][k]
        /\ store'[c][n].id = <<c, n>> /\ store'[c][n].rows = rows
    BY <1>3, OwnCommit
  <2>2. /\ local'[c] = local[c] \cup add \cup {n} /\ local'[c] \subseteq 0..n /\ 0 \in local'[c]
        /\ \A x \in Clients : x # c => local'[x] = local[x]
    <3>1. local'[c] = local[c] \cup add \cup {n} /\ \A x \in Clients : x # c => local'[x] = local[x]
      BY <1>1, <1>3 DEF Types
    <3>2. local[c] \subseteq 0..n /\ add \subseteq 0..n /\ n \in 0..n /\ 0 \in local[c]
      BY <1>1, <1>3 DEF ShapeOf, History
    <3> QED
      BY <3>1, <3>2
  <2>3. local' \in [Clients -> SUBSET Numbers]
    <3>1. 0..n \subseteq Numbers
      BY <1>1, <1>3, Sets
    <3>2. local' = [local EXCEPT ![c] = local'[c]]
      BY <1>1, <1>3, <2>2 DEF Types
    <3> QED
      BY <1>1, <2>2, <3>1, <3>2 DEF Types
  <2>4. Frame(c) /\ Grows(c)
    BY <1>1, <1>3, <2>1, <2>2 DEF Frame, Grows
  <2>5. Types' /\ Own(c)'
    BY <1>1, <1>3, <2>1, <2>3 DEF Types, Own
  <2>6. ShapeOf(c)'
    BY <1>1, <1>3, <2>1, <2>2 DEF ShapeOf, History, At
  <2> QED
    BY <2>1, <2>2, <2>4, <2>5, <2>6 DEF Keeps
<1>4. CASE UserCommits(c)
  <2>1. RowsAt(c, local[c]) \cup {<<c, n>>} \subseteq Ids /\ n <= MaxStore
    BY <1>1, <1>2, <1>4, ConstantsAssumption DEF UserCommits, Ids
  <2>2. local' = [local EXCEPT ![c] = @ \cup {} \cup {n}]
    BY <1>4 DEF UserCommits
  <2>3. /\ Keeps(c) /\ Len(store'[c]) = n /\ store'[c][n].id = <<c, n>>
        /\ local'[c] = local[c] \cup {} \cup {n} /\ store'[c][n].rows = RowsAt(c, local[c]) \cup {<<c, n>>}
    BY <1>3, <1>4, <2>1, <2>2 DEF UserCommits
  <2> QED
    BY <1>4, <2>3 DEF UserCommits
<1>5. CASE UserResolves(c)
  <2> DEFINE ours == RowsAt(c, local[c])
             all  == ours \cup RowsAt(c, tracking[c])
  <2>1. all \in SUBSET Ids /\ (all # ours) \in BOOLEAN
    BY <1>1, <1>2, <1>5 DEF UserResolves, ShapeOf
  <2>2. /\ store' = [store EXCEPT ![c] = Append(@, [id |-> <<c, n>>, rows |-> all, changed |-> all # ours])]
        /\ local' = [local EXCEPT ![c] = @ \cup tracking[c] \cup {n}] /\ merging' = merging \ {c} /\ n <= MaxStore
        /\ UNCHANGED <<server, tracking, sidecar, synced, call>>
    BY <1>5 DEF UserResolves
  <2> HIDE DEF all, ours
  <2>3. /\ Keeps(c) /\ Len(store'[c]) = n /\ store'[c][n].id = <<c, n>>
        /\ local'[c] = local[c] \cup tracking[c] \cup {n} /\ store'[c][n].rows = all
    BY <1>3, <2>1, <2>2
  <2> QED
    BY <1>1, <1>5, <2>2, <2>3 DEF UserResolves, ShapeOf, all, ours
<1>6. CASE UserAborts(c)
  <2>1. UNCHANGED <<server, store, local, tracking, sidecar, synced, call>> /\ merging' = merging \ {c}
    BY <1>6 DEF UserAborts
  <2>2. Frame(c) /\ Grows(c) /\ Types' /\ Own(c)'
    BY <1>1, <2>1 DEF Frame, Grows, Types, Own
  <2>3. ShapeOf(c)'
    BY <1>1, <2>1 DEF ShapeOf, History, At
  <2> QED
    BY <2>1, <2>2, <2>3 DEF Keeps
<1> QED
  BY <1>4, <1>5, <1>6 DEF User

\* The commits a push collects, in the order they were made.
LEMMA ToPush ==
  ASSUME TypeInv, NEW c \in Clients
  PROVE  /\ Unpushed(c) \subseteq DOMAIN store[c] /\ InOrder(Unpushed(c)) \in Seq(Unpushed(c))
         /\ \A i, j \in DOMAIN InOrder(Unpushed(c)) : i < j => InOrder(Unpushed(c))[i] < InOrder(Unpushed(c))[j]
<1>1. Len(store[c]) \in Nat /\ DOMAIN store[c] = 1..Len(store[c]) /\ local[c] \subseteq 0..Len(store[c])
  BY Typed DEF ShapeOf, History
<1>2. Unpushed(c) \subseteq DOMAIN store[c] /\ Unpushed(c) \in SUBSET (0..Len(store[c]))
  BY <1>1 DEF Unpushed
<1>3. Unpushed(c) \in SUBSET Nat /\ IsFiniteSet(Unpushed(c))
  BY <1>1, <1>2, Prefixes
<1> QED
  BY <1>2, <1>3, InOrderLists

LEMMA HeadTyped ==
  ASSUME TypeInv, NEW c \in Clients
  PROVE  RemoteHead(c) \in Froms /\ Answer(RemoteHead(c)) \subseteq 1..Len(server)
<1>1. synced[c] \in 0..Len(server) /\ Len(server) \in Nat /\ Len(server) <= MaxServer /\ DOMAIN server = 1..Len(server)
  BY Typed DEF Own, Types
<1>2. CASE synced[c] > 0
  <2>1. RemoteHead(c) = <<"server", synced[c]>> /\ synced[c] \in 1..MaxServer
    BY <1>1, <1>2, ConstantsAssumption DEF RemoteHead
  <2> QED
    BY <1>1, <2>1 DEF Froms, Answer
<1>3. CASE ~(synced[c] > 0)
  <2>1. RemoteHead(c) \in {<<"local", 0>>, <<"none", 0>>}
    BY <1>3 DEF RemoteHead
  <2> QED
    BY <1>1, <2>1 DEF Froms, Answer
<1> QED
  BY <1>2, <1>3

\* What a push, a pull and a fetch start with.
LEMMA Collects ==
  ASSUME TypeInv, NEW c \in Clients, PushCollect(c)
  PROVE  /\ call' \in [Clients -> Calls] /\ \A x \in Clients : x # c => call'[x] = call[x]
         /\ UNCHANGED <<server, store, local, tracking, sidecar, synced, merging>> /\ Joined(c)
         /\ call'[c].pc = "push" /\ call'[c].from = RemoteHead(c) /\ call'[c].mode = "ff"
         /\ call'[c].todo = {} /\ call'[c].upto = 0 /\ call'[c].head = {}
         /\ DOMAIN call'[c].batch = DOMAIN InOrder(Unpushed(c))
         /\ \A i \in DOMAIN call'[c].batch :
              /\ call'[c].batch[i].id = store[c][InOrder(Unpushed(c))[i]].id
              /\ call'[c].batch[i].rows = store[c][InOrder(Unpushed(c))[i]].rows
<1> DEFINE ns == InOrder(Unpushed(c))
           b == [i \in DOMAIN ns |-> [id |-> store[c][ns[i]].id, rows |-> store[c][ns[i]].rows]]
           d == [Idle EXCEPT !.pc = "push", !.from = RemoteHead(c), !.batch = b]
<1>1. ns \in Seq(DOMAIN store[c]) /\ store[c] \in Seq(Objects)
  <2>1. Unpushed(c) \subseteq DOMAIN store[c] /\ ns \in Seq(Unpushed(c))
    BY ToPush
  <2> QED
    BY <2>1, Typed DEF Types
<1>2. call' = [call EXCEPT ![c] = d] /\ UNCHANGED <<server, store, local, tracking, sidecar, synced, merging>> /\ Joined(c)
  BY DEF PushCollect
<1> HIDE DEF ns
<1>3. b \in Seq(Commits)
  <2>1. \A i \in DOMAIN ns : store[c][ns[i]] \in Objects
    BY <1>1
  <2>2. \A i \in DOMAIN ns : b[i] \in Commits
    BY <2>1 DEF Objects, Commits
  <2>3. DOMAIN ns = 1..Len(ns) /\ Len(ns) \in Nat
    BY <1>1
  <2>4. b \in [1..Len(ns) -> Commits]
    BY <2>2, <2>3
  <2> QED
    BY <2>3, <2>4
<1>4. DOMAIN b = DOMAIN ns /\ \A i \in DOMAIN b : b[i].id = store[c][ns[i]].id /\ b[i].rows = store[c][ns[i]].rows
  OBVIOUS
<1> HIDE DEF b
<1>5. /\ d \in Calls /\ d.pc = "push" /\ d.from = RemoteHead(c) /\ d.mode = "ff" /\ d.batch = b
      /\ d.todo = {} /\ d.upto = 0 /\ d.head = {}
  BY <1>3, HeadTyped, IdleFields DEF Calls
<1> HIDE DEF d
<1>6. call' \in [Clients -> Calls] /\ call'[c] = d /\ \A x \in Clients : x # c => call'[x] = call[x]
  BY <1>2, <1>5, Typed DEF Types
<1> QED
  BY <1>2, <1>4, <1>5, <1>6 DEF ns

LEMMA Calling ==
  ASSUME TypeInv, NEW c \in Clients
  PROVE  /\ PullCall(c) \in Calls /\ PullCall(c).todo = Answer(RemoteHead(c)) /\ PullCall(c).upto = Len(server)
         /\ PullCall(c).head = {} /\ PullCall(c).batch = << >>
         /\ PullCall(c).pc = IF Answer(RemoteHead(c)) # {} THEN "apply" ELSE IF Diverged(c) THEN "merge" ELSE "save"
         /\ PullCall(c).mode = IF Diverged(c) THEN "merge" ELSE "ff"
<1> DEFINE pc == IF Answer(RemoteHead(c)) # {} THEN "apply" ELSE IF Diverged(c) THEN "merge" ELSE "save"
           mode == IF Diverged(c) THEN "merge" ELSE "ff"
<1>1. pc \in {"apply", "merge", "save"} /\ mode \in {"ff", "merge"}
  OBVIOUS
<1>2. PullCall(c) = [Idle EXCEPT !.pc = pc, !.mode = mode, !.todo = Answer(RemoteHead(c)), !.upto = Len(server)]
  BY DEF PullCall
<1>3. Len(server) \in 0..MaxServer /\ 1..Len(server) \subseteq 1..MaxServer /\ Answer(RemoteHead(c)) \subseteq 1..Len(server)
  BY Typed, Sets, HeadTyped
<1> HIDE DEF pc, mode
<1>4. /\ PullCall(c) \in Calls /\ PullCall(c).todo = Answer(RemoteHead(c)) /\ PullCall(c).upto = Len(server)
      /\ PullCall(c).head = {} /\ PullCall(c).batch = << >> /\ PullCall(c).pc = pc /\ PullCall(c).mode = mode
  BY <1>1, <1>2, <1>3, IdleFields DEF Calls, Modes
<1> QED
  BY <1>4 DEF pc, mode

LEMMA RequestType ==
  ASSUME TypeInv, NEW c \in Clients, PushCollect(c) \/ PullRequest(c) \/ FetchRequest(c)
  PROVE  Keeps(c)
<1>1. Types /\ Own(c) /\ ShapeOf(c) /\ Len(server) \in Nat /\ Len(store[c]) \in Nat /\ Len(server) \in 0..Len(server)
      /\ Len(server) \in 0..MaxServer /\ 1..Len(server) \subseteq 1..MaxServer
  BY Typed, Sets
<1>2. RemoteHead(c) \in Froms /\ Answer(RemoteHead(c)) \subseteq 1..Len(server)
  BY HeadTyped
<1>3. ASSUME NEW d \in Calls, call' = [call EXCEPT ![c] = d], d.todo \subseteq 1..Len(server), d.upto \in 0..Len(server),
             d.head = {}, d.pc # "ref", d.mode = "merge" \/ d.pc # "merge",
             UNCHANGED <<server, store, local, tracking, sidecar, synced, merging>>
      PROVE  Keeps(c)
  <2>1. call' \in [Clients -> Calls] /\ call'[c] = d /\ \A x \in Clients : x # c => call'[x] = call[x]
    BY <1>1, <1>3 DEF Types
  <2> QED
    BY <1>3, <2>1, CallKeeps
<1>4. CASE PushCollect(c)
  <2>1. {} \subseteq 1..Len(server) /\ 0 \in 0..Len(server)
    BY <1>1
  <2> QED
    BY <1>4, <2>1, Collects, CallKeeps
<1>5. CASE PullRequest(c)
  <2>1. call' = [call EXCEPT ![c] = PullCall(c)] /\ UNCHANGED <<server, store, local, tracking, sidecar, synced, merging>>
    BY <1>5 DEF PullRequest
  <2> QED
    BY <1>1, <1>2, <1>3, <2>1, Calling
<1>6. CASE FetchRequest(c)
  <2> DEFINE pc == IF Answer(RemoteHead(c)) # {} THEN "apply" ELSE "save"
             d == [Idle EXCEPT !.pc = pc, !.mode = "fetch", !.todo = Answer(RemoteHead(c)), !.upto = Len(server)]
  <2>1. pc \in {"apply", "save"}
    OBVIOUS
  <2>2. call' = [call EXCEPT ![c] = d] /\ UNCHANGED <<server, store, local, tracking, sidecar, synced, merging>>
    BY <1>6 DEF FetchRequest
  <2> HIDE DEF pc
  <2>3. d \in Calls /\ d.pc = pc /\ d.todo = Answer(RemoteHead(c)) /\ d.upto = Len(server) /\ d.head = {}
    BY <1>1, <1>2, <2>1, IdleFields DEF Calls, Modes
  <2> HIDE DEF d
  <2> QED
    BY <1>1, <1>2, <1>3, <2>1, <2>2, <2>3
<1> QED
  BY <1>4, <1>5, <1>6

\* The server takes the batch, or refuses it.
LEMMA Request ==
  ASSUME TypeInv, NEW c \in Clients, PushRequest(c)
  PROVE  /\ At(c, "push") /\ UNCHANGED <<store, local, tracking, sidecar, synced, merging>>
         /\ Keeps(c)
         /\ \/ /\ Accepts(call[c].from) /\ call[c].batch \in Seq(Commits) /\ Len(server') = Len(server) + Len(call[c].batch)
               /\ \A i \in DOMAIN call[c].batch : server'[Len(server) + i] = call[c].batch[i]
               /\ call'[c].pc \in {"pushRef", "idle"} /\ call'[c].mode \in {call[c].mode, "ff"}
               /\ call'[c].batch \in {call[c].batch, << >>}
            \/ server' = server /\ call'[c] = Idle
<1>1. /\ Types /\ Own(c) /\ ShapeOf(c) /\ Len(server) \in Nat /\ Len(store[c]) \in Nat /\ call[c] \in Calls
      /\ server \in Seq(Commits) /\ call[c].batch \in Seq(Commits) /\ Len(call[c].batch) \in Nat
  BY Typed DEF Types, Calls
<1>2. At(c, "push") /\ UNCHANGED <<store, local, tracking, sidecar, synced, merging>>
  BY DEF PushRequest
<1>3. ASSUME server' \in Seq(Commits), Len(server) <= Len(server'), Len(server') <= MaxServer,
             \A p \in DOMAIN server : server'[p] = server[p],
             call' \in [Clients -> Calls], \A x \in Clients : x # c => call'[x] = call[x],
             call'[c] = Idle \/ (call'[c].pc = "pushRef" /\ call'[c].todo = call[c].todo
                                  /\ call'[c].upto = call[c].upto /\ call'[c].head = call[c].head)
      PROVE  Keeps(c)
  <2>1. Frame(c) /\ Grows(c) /\ Types' /\ Own(c)'
    BY <1>1, <1>2, <1>3 DEF Frame, Grows, Types, Own
  <2>2. 1..Len(server) \subseteq 1..Len(server') /\ 0..Len(server) \subseteq 0..Len(server') /\ 0 \in 0..Len(server')
    BY <1>1, <1>3
  <2>3. ShapeOf(c)'
    BY <1>1, <1>2, <1>3, <2>2, IdleFields DEF ShapeOf, History, At
  <2> QED
    BY <2>1, <2>3 DEF Keeps
<1>4. CASE /\ Accepts(call[c].from) /\ Len(server) + Len(call[c].batch) <= MaxServer
           /\ server' = server \o call[c].batch
           /\ Goto(c, "pushRef") \/ Ends(c)
  <2>1. /\ server' \in Seq(Commits) /\ Len(server') = Len(server) + Len(call[c].batch)
        /\ \A p \in DOMAIN server : server'[p] = server[p]
        /\ \A i \in DOMAIN call[c].batch : server'[Len(server) + i] = call[c].batch[i]
    BY <1>1, <1>4
  <2>2. CASE Goto(c, "pushRef")
    <3>1. /\ call' \in [Clients -> Calls] /\ \A x \in Clients : x # c => call'[x] = call[x]
          /\ call'[c].pc = "pushRef" /\ call'[c].todo = call[c].todo /\ call'[c].upto = call[c].upto
          /\ call'[c].head = call[c].head /\ call'[c].mode = call[c].mode /\ call'[c].batch = call[c].batch
      BY <2>2, Gone
    <3> QED
      BY <1>1, <1>2, <1>3, <1>4, <2>1, <3>1
  <2>3. CASE Ends(c)
    <3>1. call' \in [Clients -> Calls] /\ \A x \in Clients : x # c => call'[x] = call[x]
      BY <2>3, Ended
    <3>2. call'[c] = Idle /\ call'[c].pc = "idle" /\ call'[c].mode = "ff" /\ call'[c].batch = << >>
      BY <2>3, Ended, IdleFields
    <3>3. Keeps(c)
      BY <1>1, <1>3, <1>4, <2>1, <3>1, <3>2
    <3> QED
      BY <1>1, <1>2, <1>4, <2>1, <3>2, <3>3
  <2> QED
    BY <1>4, <2>2, <2>3
<1>5. CASE Ends(c) /\ UNCHANGED server
  BY <1>2, <1>5, Ended, EndKeeps
<1> QED
  BY <1>4, <1>5 DEF PushRequest

\* A step that moves origin/<branch> only, to a history of the client.
LEMMA RefKeeps ==
  ASSUME TypeInv, NEW c \in Clients, NEW h, History(c, h), tracking' = [tracking EXCEPT ![c] = h],
         UNCHANGED <<server, store, local, sidecar, synced, merging>>,
         call' \in [Clients -> Calls], \A x \in Clients : x # c => call'[x] = call[x],
         call'[c] = Idle \/ (call'[c].pc = "save" /\ call'[c].todo = call[c].todo
                              /\ call'[c].upto = call[c].upto /\ call'[c].head = call[c].head)
  PROVE  Keeps(c) /\ tracking'[c] = h
<1>1. Types /\ Own(c) /\ ShapeOf(c) /\ Len(server) \in Nat /\ Len(store[c]) \in Nat /\ 0 \in 0..Len(server)
  BY Typed
<1>2. h \in SUBSET Numbers
  BY <1>1, Sets DEF History
<1>3. tracking' \in [Clients -> SUBSET Numbers] /\ tracking'[c] = h /\ \A x \in Clients : x # c => tracking'[x] = tracking[x]
  BY <1>1, <1>2 DEF Types
<1>4. Frame(c) /\ Grows(c) /\ Types' /\ Own(c)'
  BY <1>1, <1>3 DEF Frame, Grows, Types, Own
<1>5. h # {}
  BY DEF History
<1>6. ShapeOf(c)'
  BY <1>1, <1>3, <1>5, IdleFields DEF ShapeOf, History, At
<1> QED
  BY <1>3, <1>4, <1>6 DEF Keeps

LEMMA RefType ==
  ASSUME TypeInv, NEW c \in Clients
  PROVE  /\ PushAdvance(c) => Keeps(c) /\ tracking'[c] = local[c] /\ call'[c] = Idle
         /\ PullAdvance(c) => /\ Keeps(c) /\ call'[c].pc = "save"
                              /\ tracking'[c] = IF call[c].mode = "merge" THEN local[c] ELSE call[c].head
                              /\ call'[c].mode = call[c].mode /\ call'[c].upto = call[c].upto
                              /\ call'[c].batch = call[c].batch
<1>1. ShapeOf(c)
  BY Typed
<1>2. ASSUME PushAdvance(c) PROVE Keeps(c) /\ tracking'[c] = local[c] /\ call'[c] = Idle
  <2>1. call' \in [Clients -> Calls] /\ call'[c] = Idle /\ \A x \in Clients : x # c => call'[x] = call[x]
    BY <1>2, Ended DEF PushAdvance
  <2>2. tracking' = [tracking EXCEPT ![c] = local[c]] /\ UNCHANGED <<server, store, local, sidecar, synced, merging>>
    BY <1>2 DEF PushAdvance
  <2>3. History(c, local[c])
    BY <1>1 DEF ShapeOf
  <2> QED
    BY <2>1, <2>2, <2>3, RefKeeps
<1>3. ASSUME PullAdvance(c)
      PROVE  /\ Keeps(c) /\ call'[c].pc = "save"
             /\ tracking'[c] = IF call[c].mode = "merge" THEN local[c] ELSE call[c].head
             /\ call'[c].mode = call[c].mode /\ call'[c].upto = call[c].upto
             /\ call'[c].batch = call[c].batch
  <2> DEFINE h == IF call[c].mode = "merge" THEN local[c] ELSE call[c].head
  <2>1. /\ call' \in [Clients -> Calls] /\ \A x \in Clients : x # c => call'[x] = call[x]
        /\ call'[c].pc = "save" /\ call'[c].todo = call[c].todo /\ call'[c].upto = call[c].upto
        /\ call'[c].head = call[c].head /\ call'[c].mode = call[c].mode /\ call'[c].batch = call[c].batch
    BY <1>3, Gone DEF PullAdvance
  <2>2. tracking' = [tracking EXCEPT ![c] = h] /\ UNCHANGED <<server, store, local, sidecar, synced, merging>>
    BY <1>3 DEF PullAdvance
  <2>3. History(c, h)
    BY <1>1, <1>3 DEF ShapeOf, PullAdvance
  <2> HIDE DEF h
  <2>4. Keeps(c) /\ tracking'[c] = h
    BY <2>1, <2>2, <2>3, RefKeeps
  <2> QED
    BY <2>1, <2>4 DEF h
<1> QED
  BY <1>2, <1>3

LEMMA SaveType ==
  ASSUME TypeInv, NEW c \in Clients, SaveSyncState(c)
  PROVE  Keeps(c) /\ call'[c] = Idle /\ synced'[c] = IF call[c].upto > 0 THEN call[c].upto ELSE synced[c]
<1>1. Types /\ Own(c) /\ ShapeOf(c) /\ Len(server) \in Nat /\ Len(store[c]) \in Nat /\ 0 \in 0..Len(server)
  BY Typed
<1>2. call' \in [Clients -> Calls] /\ call'[c] = Idle /\ \A x \in Clients : x # c => call'[x] = call[x]
  BY Ended DEF SaveSyncState
<1> DEFINE k == IF call[c].upto > 0 THEN call[c].upto ELSE synced[c]
<1>3. k \in 0..Len(server)
  BY <1>1 DEF ShapeOf, Own
<1>4. synced' = [synced EXCEPT ![c] = k] /\ UNCHANGED <<server, store, local, tracking, sidecar, merging>>
  BY DEF SaveSyncState
<1> HIDE DEF k
<1>5. synced' \in [Clients -> Nat] /\ synced'[c] = k /\ \A x \in Clients : x # c => synced'[x] = synced[x]
  BY <1>1, <1>3, <1>4 DEF Types
<1>6. Frame(c) /\ Grows(c) /\ Types' /\ Own(c)'
  BY <1>1, <1>2, <1>3, <1>4, <1>5 DEF Frame, Grows, Types, Own
<1>7. ShapeOf(c)'
  BY <1>1, <1>2, <1>4, IdleFields DEF ShapeOf, History, At
<1> QED
  BY <1>2, <1>5, <1>6, <1>7 DEF Keeps, k

\* What applyCommits makes of the pending commits.
Listing(c) == InOrder(Pending(c))
Grown(c)   == BaseOf(c) \cup {Len(store[c]) + i : i \in DOMAIN Listing(c)}

LEMMA ToApply ==
  ASSUME TypeInv, NEW c \in Clients
  PROVE  /\ Listing(c) \in Seq(DOMAIN server) /\ DOMAIN Listing(c) = 1..Len(Listing(c)) /\ Len(Listing(c)) \in Nat
         /\ \A i \in DOMAIN Listing(c) : Listing(c)[i] \in Pending(c)
         /\ \A p \in Pending(c) : \E i \in DOMAIN Listing(c) : Listing(c)[i] = p
         /\ Pending(c) \subseteq DOMAIN server
<1>1. Len(server) \in Nat /\ DOMAIN server = 1..Len(server) /\ call[c].todo \subseteq 1..Len(server)
  BY Typed DEF ShapeOf
<1>2. Pending(c) \subseteq DOMAIN server /\ Pending(c) \in SUBSET (0..Len(server))
  BY <1>1 DEF Pending
<1>3. Pending(c) \in SUBSET Nat /\ IsFiniteSet(Pending(c))
  BY <1>1, <1>2, Prefixes
<1>4. /\ Listing(c) \in Seq(Pending(c))
      /\ \A p \in Pending(c) : \E i \in DOMAIN Listing(c) : Listing(c)[i] = p
  BY <1>3, InOrderLists DEF Listing
<1> QED
  BY <1>2, <1>4

LEMMA ApplyKeeps ==
  ASSUME TypeInv, NEW c \in Clients, Apply(c)
  PROVE  /\ Keeps(c)
         /\ Len(store'[c]) = Len(store[c]) + Len(Listing(c))
         /\ \A i \in DOMAIN Listing(c) : /\ store'[c][Len(store[c]) + i].id = server[Listing(c)[i]].id
                                         /\ store'[c][Len(store[c]) + i].rows = server[Listing(c)[i]].rows
         /\ TargetOf(c) = "branch" => local'[c] = Grown(c) /\ tracking'[c] = tracking[c]
         /\ TargetOf(c) = "tracking" => tracking'[c] = Grown(c) /\ local'[c] = local[c]
         /\ sidecar'[c] = [sidecar[c] EXCEPT ![TargetOf(c)] = @ \cup call[c].todo]
         /\ call'[c].pc = AfterApply(c) /\ call'[c].head = Grown(c) /\ call'[c].mode = call[c].mode
         /\ call'[c].upto = call[c].upto /\ call'[c].batch = call[c].batch
<1> DEFINE ps    == Listing(c)
           len   == Len(store[c])
           made  == [i \in DOMAIN ps |-> [id |-> server[ps[i]].id, rows |-> server[ps[i]].rows, changed |-> TRUE]]
           grown == Grown(c)
           d     == [call[c] EXCEPT !.pc = AfterApply(c), !.head = grown]
<1>1. /\ Types /\ Own(c) /\ ShapeOf(c) /\ Len(server) \in Nat /\ len \in Nat /\ call[c] \in Calls
      /\ store[c] \in Seq(Objects) /\ DOMAIN store[c] = 1..len /\ server \in Seq(Commits)
      /\ 1..Len(server) \subseteq 1..MaxServer
  BY Typed, Sets DEF Types
<1>2. ps \in Seq(DOMAIN server) /\ DOMAIN ps = 1..Len(ps) /\ Len(ps) \in Nat
  BY ToApply
<1>3. /\ At(c, "apply") /\ len + Len(ps) <= MaxStore
      /\ store' = [store EXCEPT ![c] = @ \o made]
      /\ IF TargetOf(c) = "branch"
         THEN local' = [local EXCEPT ![c] = grown] /\ UNCHANGED tracking
         ELSE tracking' = [tracking EXCEPT ![c] = grown] /\ UNCHANGED local
      /\ sidecar' = Recorded(c)
      /\ call' = [call EXCEPT ![c].pc = AfterApply(c), ![c].head = grown]
      /\ UNCHANGED <<server, synced, merging>>
  BY DEF Apply, Listing, Grown
<1>4. /\ made \in Seq(Objects) /\ Len(made) = Len(ps)
      /\ \A i \in 1..Len(ps) : made[i].id = server[ps[i]].id /\ made[i].rows = server[ps[i]].rows
  <2>1. \A i \in DOMAIN ps : server[ps[i]] \in Commits
    BY <1>1, <1>2
  <2>2. \A i \in DOMAIN ps : made[i] \in Objects /\ made[i].id = server[ps[i]].id /\ made[i].rows = server[ps[i]].rows
    BY <2>1 DEF Commits, Objects
  <2>3. made \in [1..Len(ps) -> Objects]
    BY <1>2, <2>2
  <2> QED
    BY <1>2, <2>2, <2>3
<1> HIDE DEF made, ps
<1>5. /\ store' \in [Clients -> Seq(Objects)] /\ \A x \in Clients : x # c => store'[x] = store[x]
      /\ Len(store'[c]) = len + Len(ps) /\ \A n \in DOMAIN store[c] : store'[c][n] = store[c][n]
      /\ \A i \in 1..Len(ps) : store'[c][len + i].id = server[ps[i]].id /\ store'[c][len + i].rows = server[ps[i]].rows
  <2>1. store[c] \o made \in Seq(Objects) /\ Len(store[c] \o made) = len + Len(ps)
        /\ \A n \in DOMAIN store[c] : (store[c] \o made)[n] = store[c][n]
        /\ \A i \in 1..Len(ps) : (store[c] \o made)[len + i] = made[i]
    <3>1. ASSUME NEW u \in Seq(Objects), NEW v \in Seq(Objects)
          PROVE  /\ u \o v \in Seq(Objects) /\ Len(u \o v) = Len(u) + Len(v)
                 /\ \A n \in 1..Len(u) : (u \o v)[n] = u[n]
                 /\ \A i \in 1..Len(v) : (u \o v)[Len(u) + i] = v[i]
      OBVIOUS
    <3>2. store[c] \in Seq(Objects) /\ made \in Seq(Objects) /\ Len(made) = Len(ps) /\ DOMAIN store[c] = 1..Len(store[c])
      BY <1>1, <1>4
    <3>3. /\ store[c] \o made \in Seq(Objects) /\ Len(store[c] \o made) = Len(store[c]) + Len(made)
          /\ \A n \in 1..Len(store[c]) : (store[c] \o made)[n] = store[c][n]
          /\ \A i \in 1..Len(made) : (store[c] \o made)[Len(store[c]) + i] = made[i]
      BY <3>1, <3>2, Zenon
    <3> QED
      BY <3>2, <3>3
  <2>2. store' \in [Clients -> Seq(Objects)] /\ store'[c] = store[c] \o made /\ \A x \in Clients : x # c => store'[x] = store[x]
    BY <1>1, <1>3, <2>1 DEF Types
  <2>3. \A i \in 1..Len(ps) : store'[c][len + i] = made[i]
    BY <2>1, <2>2
  <2>4. \A i \in 1..Len(ps) : store'[c][len + i].id = server[ps[i]].id /\ store'[c][len + i].rows = server[ps[i]].rows
    BY <1>4, <2>3
  <2> QED
    BY <2>1, <2>2, <2>4
<1>6. BaseOf(c) \subseteq 0..len /\ 0 \in BaseOf(c)
  <2>1. 0 \in 0..len
    BY <1>1
  <2> QED
    BY <1>1, <2>1 DEF BaseOf, ShapeOf, History
<1>7. grown \subseteq 0..(len + Len(ps)) /\ 0 \in grown /\ grown \in SUBSET Numbers
  <2>1. grown = BaseOf(c) \cup {len + i : i \in 1..Len(ps)}
    BY <1>2 DEF Grown, ps
  <2>2. 0..len \subseteq 0..(len + Len(ps)) /\ {len + i : i \in 1..Len(ps)} \subseteq 0..(len + Len(ps))
    BY <1>1, <1>2
  <2>3. 0..(len + Len(ps)) \subseteq Numbers
    <3>1. len + Len(ps) \in Nat
      BY <1>1, <1>2
    <3> QED
      BY <1>3, <3>1, Sets
  <2> QED
    BY <1>6, <2>1, <2>2, <2>3
<1> HIDE DEF grown
<1>8. TargetOf(c) \in {"branch", "tracking"}
  BY DEF TargetOf
<1>9. /\ sidecar' \in [Clients -> [{"branch", "tracking"} -> SUBSET (1..MaxServer)]]
      /\ \A x \in Clients : x # c => sidecar'[x] = sidecar[x]
      /\ sidecar'[c] = [sidecar[c] EXCEPT ![TargetOf(c)] = @ \cup call[c].todo]
      /\ \A b \in {"branch", "tracking"} : sidecar'[c][b] \subseteq 1..Len(server)
  <2> DEFINE sc == [sidecar[c] EXCEPT ![TargetOf(c)] = @ \cup call[c].todo]
  <2>1. sidecar' = [sidecar EXCEPT ![c] = sc]
    BY <1>3 DEF Recorded
  <2>2. sidecar[c] \in [{"branch", "tracking"} -> SUBSET (1..MaxServer)]
    BY <1>1 DEF Types
  <2>3. sc \in [{"branch", "tracking"} -> SUBSET (1..Len(server))]
    BY <1>1, <1>8, <2>2 DEF ShapeOf
  <2>4. sc \in [{"branch", "tracking"} -> SUBSET (1..MaxServer)]
    BY <1>1, <2>3
  <2> HIDE DEF sc
  <2>5. sidecar'[c] = sc
    BY <1>1, <2>1 DEF Types
  <2> QED
    BY <1>1, <2>1, <2>3, <2>4, <2>5 DEF Types, sc
<1>10. AfterApply(c) \in {"ref", "merge", "save"} /\ (AfterApply(c) = "merge" => call[c].mode = "merge")
  BY <1>1 DEF AfterApply, Calls, Modes
<1>11. /\ d \in Calls /\ d.pc = AfterApply(c) /\ d.head = grown /\ d.mode = call[c].mode /\ d.upto = call[c].upto
       /\ d.batch = call[c].batch /\ d.todo = call[c].todo
  BY <1>1, <1>7, <1>10 DEF Calls
<1>12. call' = [call EXCEPT ![c] = d]
  BY <1>3
<1> HIDE DEF d
<1>13. call' \in [Clients -> Calls] /\ call'[c] = d /\ \A x \in Clients : x # c => call'[x] = call[x]
  BY <1>1, <1>11, <1>12 DEF Types
<1>14. /\ local' \in [Clients -> SUBSET Numbers] /\ tracking' \in [Clients -> SUBSET Numbers]
       /\ \A x \in Clients : x # c => local'[x] = local[x] /\ tracking'[x] = tracking[x]
       /\ TargetOf(c) = "branch" => local'[c] = grown /\ tracking'[c] = tracking[c]
       /\ TargetOf(c) = "tracking" => tracking'[c] = grown /\ local'[c] = local[c]
  <2>1. CASE TargetOf(c) = "branch"
    BY <1>1, <1>3, <1>7, <2>1 DEF Types
  <2>2. CASE TargetOf(c) # "branch"
    BY <1>1, <1>3, <1>7, <2>2 DEF Types
  <2> QED
    BY <2>1, <2>2
<1>15. Frame(c) /\ Grows(c)
  BY <1>1, <1>2, <1>3, <1>5, <1>9, <1>13, <1>14 DEF Frame, Grows
<1>16. Types' /\ Own(c)'
  BY <1>1, <1>3, <1>5, <1>9, <1>13, <1>14 DEF Types, Own
<1>17. ShapeOf(c)'
  <2>1. /\ local'[c] \subseteq 0..(len + Len(ps)) /\ 0 \in local'[c]
        /\ tracking'[c] = {} \/ (tracking'[c] \subseteq 0..(len + Len(ps)) /\ 0 \in tracking'[c])
        /\ c \in merging' => tracking'[c] # {}
    <3>1. 0..len \subseteq 0..(len + Len(ps))
      BY <1>1, <1>2
    <3> QED
      BY <1>1, <1>3, <1>7, <1>8, <1>14, <3>1 DEF ShapeOf, History
  <2> QED
    BY <1>1, <1>3, <1>5, <1>7, <1>9, <1>10, <1>11, <1>13, <2>1 DEF ShapeOf, History, At
<1> QED
  BY <1>2, <1>5, <1>9, <1>11, <1>13, <1>14, <1>15, <1>16, <1>17 DEF Keeps, ps, grown

\* A command that ends where it is.
LEMMA EndType ==
  ASSUME TypeInv, NEW c \in Clients, ApplyFails(c) \/ MergeFails(c) \/ Crash(c)
  PROVE  Keeps(c) /\ call'[c] = Idle /\ UNCHANGED <<server, store, local, tracking, sidecar, synced, merging>>
<1>1. Ends(c) /\ UNCHANGED <<server, store, local, tracking, sidecar, synced, merging>>
  BY DEF ApplyFails, MergeFails, Crash
<1> QED
  BY <1>1, EndKeeps, Ended

LEMMA LosesType ==
  ASSUME TypeInv, NEW c \in Clients, ApplyLoses(c)
  PROVE  Keeps(c) /\ call'[c] = Idle /\ UNCHANGED <<server, store, local, tracking, synced, merging>>
<1> DEFINE sc == [sidecar[c] EXCEPT ![TargetOf(c)] = @ \cup call[c].todo]
<1>1. /\ Types /\ Own(c) /\ ShapeOf(c) /\ Len(server) \in Nat /\ Len(store[c]) \in Nat /\ 0 \in 0..Len(server)
      /\ 1..Len(server) \subseteq 1..MaxServer /\ TargetOf(c) \in {"branch", "tracking"}
  BY Typed, Sets DEF TargetOf
<1>2. call' \in [Clients -> Calls] /\ call'[c] = Idle /\ \A x \in Clients : x # c => call'[x] = call[x]
  BY Ended DEF ApplyLoses
<1>3. sidecar' = [sidecar EXCEPT ![c] = sc] /\ UNCHANGED <<server, store, local, tracking, synced, merging>>
  BY DEF ApplyLoses, Recorded
<1>4. sc \in [{"branch", "tracking"} -> SUBSET (1..Len(server))]
  BY <1>1 DEF ShapeOf, Types
<1>5. sc \in [{"branch", "tracking"} -> SUBSET (1..MaxServer)]
  BY <1>1, <1>4
<1> HIDE DEF sc
<1>6. /\ sidecar' \in [Clients -> [{"branch", "tracking"} -> SUBSET (1..MaxServer)]] /\ sidecar'[c] = sc
      /\ \A x \in Clients : x # c => sidecar'[x] = sidecar[x]
  BY <1>1, <1>3, <1>5 DEF Types
<1>7. Frame(c) /\ Grows(c) /\ Types' /\ Own(c)'
  BY <1>1, <1>2, <1>3, <1>6 DEF Frame, Grows, Types, Own
<1>8. ShapeOf(c)'
  BY <1>1, <1>2, <1>3, <1>4, <1>6, IdleFields DEF ShapeOf, History, At
<1> QED
  BY <1>2, <1>3, <1>7, <1>8 DEF Keeps

\* The three ways of a merge.
LEMMA MergeType ==
  ASSUME TypeInv, NEW c \in Clients, MergeTracking(c)
  PROVE  /\ Keeps(c) /\ tracking[c] # {} /\ UNCHANGED <<server, tracking, sidecar, synced, merging>>
         /\ call'[c].pc = "ref" /\ call'[c].mode = "merge" /\ call'[c].upto = call[c].upto
         /\ call'[c].batch = call[c].batch
         /\ \/ tracking[c] \subseteq local[c] /\ store' = store /\ local' = local
            \/ local[c] \subseteq tracking[c] /\ store' = store /\ local'[c] = tracking[c]
            \/ /\ ~(tracking[c] \subseteq local[c])
               /\ Len(store'[c]) = Len(store[c]) + 1 /\ local'[c] = local[c] \cup tracking[c] \cup {Len(store[c]) + 1}
               /\ store'[c][Len(store[c]) + 1].id = <<c, Len(store[c]) + 1>>
               /\ store'[c][Len(store[c]) + 1].rows = MergedRows(c)
<1> DEFINE n == Len(store[c]) + 1
<1>1. /\ Types /\ Own(c) /\ ShapeOf(c) /\ Len(server) \in Nat /\ Len(store[c]) \in Nat /\ call[c] \in Calls
      /\ n \in Nat /\ Len(store[c]) <= n /\ 0..Len(store[c]) \subseteq 0..n
  BY Typed
<1>2. At(c, "merge") /\ tracking[c] # {} /\ UNCHANGED <<server, tracking, sidecar, synced, merging>> /\ Goto(c, "ref")
  BY DEF MergeTracking
<1>3. call[c].mode = "merge" /\ History(c, tracking[c])
  BY <1>1, <1>2 DEF ShapeOf, At
<1>4. /\ call' \in [Clients -> Calls] /\ \A x \in Clients : x # c => call'[x] = call[x]
      /\ call'[c].pc = "ref" /\ call'[c].mode = "merge" /\ call'[c].upto = call[c].upto
      /\ call'[c].batch = call[c].batch /\ call'[c].todo = call[c].todo /\ call'[c].head = call[c].head
  BY <1>2, <1>3, Gone
<1>5. ASSUME NEW h \in SUBSET Numbers, store' \in [Clients -> Seq(Objects)], Len(store'[c]) <= MaxStore,
             \A x \in Clients : x # c => store'[x] = store[x],
             Len(store[c]) <= Len(store'[c]), \A k \in DOMAIN store[c] : store'[c][k] = store[c][k],
             local' = [local EXCEPT ![c] = h], h \subseteq 0..Len(store'[c]), 0 \in h
      PROVE  Keeps(c) /\ local'[c] = h
  <2>1. local' \in [Clients -> SUBSET Numbers] /\ local'[c] = h /\ \A x \in Clients : x # c => local'[x] = local[x]
    BY <1>1, <1>5 DEF Types
  <2>2. Frame(c) /\ Grows(c) /\ Types' /\ Own(c)'
    BY <1>1, <1>2, <1>4, <1>5, <2>1 DEF Frame, Grows, Types, Own
  <2>3. 0..Len(store[c]) \subseteq 0..Len(store'[c])
    <3>1. Len(store'[c]) \in Nat
      BY <1>5
    <3> QED
      BY <1>1, <1>5, <3>1
  <2>4. ShapeOf(c)'
    BY <1>1, <1>2, <1>4, <1>5, <2>1, <2>3 DEF ShapeOf, History, At
  <2> QED
    BY <2>1, <2>2, <2>4 DEF Keeps
<1>6. CASE tracking[c] \subseteq local[c] /\ UNCHANGED <<store, local>>
  <2>1. local' = [local EXCEPT ![c] = local[c]] /\ local[c] \in SUBSET Numbers
    BY <1>1, <1>6 DEF Types
  <2>2. Len(store[c]) <= MaxStore /\ local[c] \subseteq 0..Len(store[c]) /\ 0 \in local[c]
    BY <1>1 DEF Own, ShapeOf, History
  <2>3. Keeps(c)
    <3>1. /\ store' \in [Clients -> Seq(Objects)] /\ store'[c] = store[c] /\ Len(store[c]) <= Len(store[c])
          /\ \A x \in Clients : x # c => store'[x] = store[x]
      BY <1>1, <1>6 DEF Types
    <3> QED
      BY <1>5, <2>1, <2>2, <3>1
  <2> QED
    BY <1>2, <1>4, <1>6, <2>3
<1>7. CASE local[c] \subseteq tracking[c] /\ local' = [local EXCEPT ![c] = tracking[c]] /\ UNCHANGED store
  <2>1. tracking[c] \in SUBSET Numbers /\ Len(store[c]) <= MaxStore /\ tracking[c] \subseteq 0..Len(store[c]) /\ 0 \in tracking[c]
    BY <1>1, <1>3 DEF Types, Own, History
  <2>2. Keeps(c) /\ local'[c] = tracking[c]
    <3>1. /\ store' \in [Clients -> Seq(Objects)] /\ store'[c] = store[c] /\ Len(store[c]) <= Len(store[c])
          /\ \A x \in Clients : x # c => store'[x] = store[x]
      BY <1>1, <1>7 DEF Types
    <3> QED
      BY <1>5, <1>7, <2>1, <3>1
  <2> QED
    BY <1>2, <1>4, <1>7, <2>2
<1>8. CASE /\ ~(tracking[c] \subseteq local[c]) /\ n <= MaxStore
           /\ store' = [store EXCEPT ![c] = Append(@, [id |-> <<c, n>>, rows |-> MergedRows(c),
                                       changed |-> MergedRows(c) # RowsAt(c, local[c])])]
           /\ local' = [local EXCEPT ![c] = @ \cup tracking[c] \cup {n}]
  <2>1. MergedRows(c) \in SUBSET Ids
    <3>1. RowsAt(c, local[c]) \subseteq Ids /\ RowsAt(c, tracking[c]) \subseteq Ids
      BY <1>1, <1>3, RowsTyped DEF ShapeOf
    <3> QED
      BY <3>1 DEF MergedRows
  <2> DEFINE changed == MergedRows(c) # RowsAt(c, local[c])
  <2>2. changed \in BOOLEAN /\ store' = [store EXCEPT ![c] = Append(@, [id |-> <<c, n>>, rows |-> MergedRows(c), changed |-> changed])]
    BY <1>8
  <2> HIDE DEF changed
  <2>3. /\ store' \in [Clients -> Seq(Objects)] /\ \A x \in Clients : x # c => store'[x] = store[x]
        /\ Len(store'[c]) = n /\ \A k \in DOMAIN store[c] : store'[c][k] = store[c][k]
        /\ store'[c][n].id = <<c, n>> /\ store'[c][n].rows = MergedRows(c)
    BY <1>8, <2>1, <2>2, OwnCommit
  <2> DEFINE h == local[c] \cup tracking[c] \cup {n}
  <2>4. h \subseteq 0..n /\ 0 \in h
    <3>1. local[c] \subseteq 0..n /\ tracking[c] \subseteq 0..n /\ n \in 0..n /\ 0 \in local[c]
      BY <1>1, <1>3 DEF ShapeOf, History
    <3> QED
      BY <3>1
  <2>5. h \in SUBSET Numbers
    BY <1>1, <1>8, <2>4, Sets
  <2>6. local' = [local EXCEPT ![c] = h]
    BY <1>8
  <2>7. Keeps(c) /\ local'[c] = h
    <3> HIDE DEF h
    <3> QED
      BY <1>1, <1>5, <1>8, <2>3, <2>4, <2>5, <2>6
  <2> QED
    BY <1>2, <1>4, <1>8, <2>3, <2>7
<1> QED
  BY <1>6, <1>7, <1>8 DEF MergeTracking

LEMMA ConflictType ==
  ASSUME TypeInv, NEW c \in Clients, MergeConflicts(c)
  PROVE  Keeps(c) /\ call'[c] = Idle /\ UNCHANGED <<server, store, local, tracking, sidecar, synced>>
<1>1. Types /\ Own(c) /\ ShapeOf(c) /\ Len(server) \in Nat /\ Len(store[c]) \in Nat /\ 0 \in 0..Len(server)
  BY Typed
<1>2. /\ UNCHANGED <<server, store, local, tracking, sidecar, synced>> /\ merging' = merging \cup {c}
      /\ tracking[c] # {} /\ Ends(c)
  BY DEF MergeConflicts
<1>3. call' \in [Clients -> Calls] /\ call'[c] = Idle /\ \A x \in Clients : x # c => call'[x] = call[x]
  BY <1>2, Ended
<1>4. Frame(c) /\ Grows(c) /\ Types' /\ Own(c)'
  BY <1>1, <1>2, <1>3 DEF Frame, Grows, Types, Own
<1>5. ShapeOf(c)'
  BY <1>1, <1>2, <1>3, IdleFields DEF ShapeOf, History, At
<1> QED
  BY <1>2, <1>3, <1>4, <1>5 DEF Keeps

\* A step of one client.
Step(c) == User(c) \/ Push(c) \/ Pull(c) \/ PullRequest(c) \/ FetchRequest(c) \/ Crash(c)

LEMMA StepType == ASSUME TypeInv, NEW c \in Clients, Step(c) PROVE Keeps(c)
<1>1. Push(c) \/ PullRequest(c) \/ FetchRequest(c) => Keeps(c)
  BY RequestType, Request, RefType DEF Push
<1>2. Pull(c) \/ Crash(c) => Keeps(c)
  BY ApplyKeeps, EndType, LosesType, MergeType, ConflictType, RefType, SaveType DEF Pull
<1> QED
  BY <1>1, <1>2, UserType DEF Step

LEMMA TypeInit == Init => TypeInv
<1> SUFFICES ASSUME Init PROVE TypeInv
  OBVIOUS
<1>1. server \in Seq(Commits) /\ Len(server) \in Nat /\ Len(server) <= MaxServer
  <2>1. << >> \in Seq(Commits) /\ Len(<< >>) = 0
    OBVIOUS
  <2>2. [id |-> <<Seed, 1>>, rows |-> {<<Seed, 1>>}] \in Commits
    BY ConstantsAssumption DEF Commits, Ids
  <2>3. <<[id |-> <<Seed, 1>>, rows |-> {<<Seed, 1>>}]>> \in Seq(Commits)
        /\ Len(<<[id |-> <<Seed, 1>>, rows |-> {<<Seed, 1>>}]>>) = 1
    BY <2>2
  <2> QED
    BY <2>1, <2>3, ConstantsAssumption DEF Init
<1>2. /\ \A c \in Clients : /\ store[c] = << >> /\ local[c] = {0} /\ tracking[c] = {} /\ synced[c] = 0 /\ call[c] = Idle
                            /\ \A b \in {"branch", "tracking"} : sidecar[c][b] = {}
      /\ merging = {}
  BY DEF Init
<1>3. Len(<< >>) = 0 /\ << >> \in Seq(Objects) /\ {0} \subseteq Numbers /\ {0} \subseteq 0..0 /\ 0 \in 0..Len(server)
  BY <1>1, ConstantsAssumption DEF Numbers
<1>4. TypeOK
  <2>1. /\ store \in [Clients -> Seq(Objects)] /\ local \in [Clients -> SUBSET Numbers]
        /\ tracking \in [Clients -> SUBSET Numbers] /\ synced \in [Clients -> 0..Len(server)]
        /\ sidecar \in [Clients -> [{"branch", "tracking"} -> SUBSET (1..MaxServer)]]
        /\ merging \in SUBSET Clients /\ call \in [Clients -> Calls]
    BY <1>3, IdleFields DEF Init
  <2>2. \A c \in Clients : Len(store[c]) <= MaxStore /\ local[c] \cup tracking[c] \subseteq 0..Len(store[c])
    BY <1>2, <1>3, ConstantsAssumption
  <2> QED
    BY <1>1, <2>1, <2>2 DEF TypeOK
<1>5. \A c \in Clients : ShapeOf(c)
  BY <1>2, <1>3, IdleFields DEF ShapeOf, History, At
<1> QED
  BY <1>4, <1>5 DEF TypeInv

LEMMA TypeNext == ASSUME TypeInv, [Next]_vars PROVE TypeInv'
<1>1. CASE Next
  BY <1>1, StepType, StepKeeps DEF Next, Step
<1>2. CASE UNCHANGED vars
  BY <1>2 DEF vars, TypeInv, TypeOK, ShapeOf, History, At
<1> QED
  BY <1>1, <1>2

\* The variables keep their types; branches, sidecars and calls number only
\* what the client's store and the server have (every handler of DeltixSync).
THEOREM TypeIsInvariant == Spec => []TypeInv
<1>1. TypeInv /\ [Next]_vars => TypeInv'
  BY TypeNext
<1> QED
  BY <1>1, TypeInit, PTL DEF Spec

\* The type invariant that the runs check.
THEOREM TypeCorrect == Spec => []TypeOK
<1>1. TypeInv => TypeOK
  BY DEF TypeInv
<1> QED
  BY <1>1, TypeIsInvariant, PTL

(***************************************************************************)
(* No commit is pushed twice.  What a client has yet to push is on the     *)
(* server only behind the head it saved, if at all, so that a push whose   *)
(* base is the server's head brings new commits.                           *)
(***************************************************************************)
Joining == Uses = {}

\* Every id in use was given out: a client's next number is new.
Known(id)     == id[1] \in Clients => id[2] <= Len(store[id[1]])
KnownThen(id) == id[1] \in Clients => id[2] <= Len(store'[id[1]])

FreshInv ==
  /\ \A p \in DOMAIN server : Known(server[p].id)
  /\ \A c \in Clients : /\ \A n \in DOMAIN store[c] : Known(store[c][n].id)
                        /\ \A i \in DOMAIN call[c].batch : Known(call[c].batch[i].id)

New(c) == local[c] \ (tracking[c] \cup {0})

\* The commits to push differ from each other and from what the server has up
\* to position b.
Clean(c, b) ==
  /\ \A n \in New(c), p \in DOMAIN server : server[p].id = store[c][n].id => p > b
  /\ \A n, m \in New(c) : store[c][n].id = store[c][m].id => n = m

CallInv(c) ==
  /\ synced[c] > 0 => Clean(c, synced[c])
  /\ call[c].mode # "fetch"
  /\ At(c, "save") /\ call[c].upto > 0 => Clean(c, call[c].upto)
  /\ call[c].mode = "ff" /\ call[c].pc \in {"apply", "ref"} => synced[c] = 0
  /\ call[c].mode = "ff" /\ At(c, "ref") => local[c] = call[c].head
  /\ At(c, "push") =>
       /\ synced[c] > 0 /\ call[c].from = <<"server", synced[c]>>
       /\ \A i \in DOMAIN call[c].batch, p \in DOMAIN server :
            server[p].id = call[c].batch[i].id => p > synced[c]
       /\ \A i, j \in DOMAIN call[c].batch : call[c].batch[i].id = call[c].batch[j].id => i = j

OnceInv == FreshInv /\ ServerTakesOnce /\ \A c \in Clients : CallInv(c)

LEMMA IdsTyped ==
  ASSUME TypeInv
  PROVE  /\ \A p \in DOMAIN server : server[p].id \in Ids
         /\ \A c \in Clients : /\ \A n \in DOMAIN store[c] : store[c][n].id \in Ids
                               /\ \A i \in DOMAIN call[c].batch : call[c].batch[i].id \in Ids
<1>1. \A p \in DOMAIN server : server[p] \in Commits
  BY Typed DEF Types
<1>2. ASSUME NEW c \in Clients, NEW n \in DOMAIN store[c] PROVE store[c][n].id \in Ids
  <2>1. store[c] \in Seq(Objects)
    BY Typed DEF Types
  <2>2. store[c][n] \in Objects
    BY <1>2, <2>1
  <2> QED
    BY <2>2 DEF Objects
<1>3. ASSUME NEW c \in Clients, NEW i \in DOMAIN call[c].batch PROVE call[c].batch[i].id \in Ids
  <2>1. call[c].batch \in Seq(Commits)
    BY Typed DEF Calls
  <2>2. call[c].batch[i] \in Commits
    BY <1>3, <2>1
  <2> QED
    BY <2>2 DEF Commits
<1> QED
  BY <1>1, <1>2, <1>3 DEF Commits

LEMMA KnownStays ==
  ASSUME TypeInv, NEW c \in Clients, Keeps(c)
  PROVE  \A id \in Ids : Known(id) => KnownThen(id)
<1> SUFFICES ASSUME NEW id \in Ids, Known(id), id[1] \in Clients PROVE id[2] <= Len(store'[id[1]])
  BY DEF KnownThen
<1>1. Len(store[id[1]]) \in Nat /\ id[2] \in Nat /\ id[2] <= Len(store[id[1]])
  BY Typed DEF Known, Ids
<1>2. Len(store'[id[1]]) \in Nat
  BY DEF Keeps, Types
<1>3. Len(store[id[1]]) <= Len(store'[id[1]])
  <2>1. CASE id[1] = c
    BY <2>1 DEF Keeps, Grows
  <2>2. CASE id[1] # c
    <3>1. store'[id[1]] = store[id[1]]
      BY <2>2 DEF Keeps, Frame
    <3> QED
      BY <1>1, <3>1
  <2> QED
    BY <2>1, <2>2
<1> QED
  BY <1>1, <1>2, <1>3

LEMMA FreshStays ==
  ASSUME TypeInv, FreshInv, NEW c \in Clients, Keeps(c),
         \A p \in DOMAIN server' : p \notin DOMAIN server => KnownThen(server'[p].id),
         \A n \in DOMAIN store'[c] : n \notin DOMAIN store[c] => KnownThen(store'[c][n].id),
         \A i \in DOMAIN call'[c].batch : KnownThen(call'[c].batch[i].id)
  PROVE  FreshInv'
<1>1. \A id \in Ids : Known(id) => KnownThen(id)
  BY KnownStays
<1>2. ASSUME NEW p \in DOMAIN server' PROVE KnownThen(server'[p].id)
  <2>1. CASE p \in DOMAIN server
    <3>1. server'[p] = server[p]
      BY <2>1 DEF Keeps, Grows
    <3>2. server[p].id \in Ids /\ Known(server[p].id)
      BY <2>1, IdsTyped DEF FreshInv
    <3> QED
      BY <1>1, <3>1, <3>2
  <2> QED
    BY <2>1
<1>3. ASSUME NEW x \in Clients, NEW n \in DOMAIN store'[x] PROVE KnownThen(store'[x][n].id)
  <2>1. CASE x # c \/ n \in DOMAIN store[x]
    <3>1. n \in DOMAIN store[x] /\ store'[x][n] = store[x][n]
      BY <1>3, <2>1 DEF Keeps, Frame, Grows
    <3>2. store[x][n].id \in Ids /\ Known(store[x][n].id)
      BY <3>1, IdsTyped DEF FreshInv
    <3> QED
      BY <1>1, <3>1, <3>2
  <2> QED
    BY <1>3, <2>1
<1>4. ASSUME NEW x \in Clients, NEW i \in DOMAIN call'[x].batch PROVE KnownThen(call'[x].batch[i].id)
  <2>1. CASE x # c
    <3>1. call'[x] = call[x]
      BY <2>1 DEF Keeps, Frame
    <3>2. call[x].batch[i].id \in Ids /\ Known(call[x].batch[i].id)
      BY <1>4, <3>1, IdsTyped DEF FreshInv
    <3> QED
      BY <1>1, <3>1, <3>2
  <2> QED
    BY <1>4, <2>1
<1> QED
  BY <1>2, <1>3, <1>4 DEF FreshInv, Known, KnownThen

\* Without fetches: what a step does to the ids of its client.
LEMMA FreshStep ==
  ASSUME Joining, TypeInv, FreshInv, NEW c \in Clients, Step(c)
  PROVE  FreshInv'
<1>1. Keeps(c) /\ \A id \in Ids : Known(id) => KnownThen(id)
  BY StepType, KnownStays
<1>2. \A i \in DOMAIN call[c].batch : KnownThen(call[c].batch[i].id)
  BY <1>1, IdsTyped DEF FreshInv
<1>3. Len(store[c]) \in Nat /\ DOMAIN store[c] = 1..Len(store[c]) /\ DOMAIN store'[c] = 1..Len(store'[c])
      /\ Len(server) \in Nat /\ DOMAIN server = 1..Len(server) /\ DOMAIN server' = 1..Len(server')
  BY <1>1, Typed DEF Keeps, Types
<1> DEFINE SameServer == \A p \in DOMAIN server' : p \notin DOMAIN server => KnownThen(server'[p].id)
           SameStore  == \A n \in DOMAIN store'[c] : n \notin DOMAIN store[c] => KnownThen(store'[c][n].id)
           SameBatch  == \A i \in DOMAIN call'[c].batch : KnownThen(call'[c].batch[i].id)
<1>4. server' = server => SameServer
  OBVIOUS
<1>5. store' = store => SameStore
  OBVIOUS
<1>6. call'[c] = Idle \/ call'[c].batch \in {call[c].batch, << >>} => SameBatch
  BY <1>2, IdleFields
<1>7. Len(store'[c]) = Len(store[c]) + 1 /\ store'[c][Len(store[c]) + 1].id = <<c, Len(store[c]) + 1>> => SameStore
  <2> SUFFICES ASSUME Len(store'[c]) = Len(store[c]) + 1, store'[c][Len(store[c]) + 1].id = <<c, Len(store[c]) + 1>>
               PROVE  SameStore
    OBVIOUS
  <2>1. KnownThen(<<c, Len(store[c]) + 1>>)
    BY <1>3 DEF KnownThen
  <2>2. \A n \in DOMAIN store'[c] : n \notin DOMAIN store[c] => n = Len(store[c]) + 1
    BY <1>3
  <2> QED
    BY <2>1, <2>2
<1> SUFFICES SameServer /\ SameStore /\ SameBatch
  BY <1>1, FreshStays
<1> HIDE DEF SameServer, SameStore, SameBatch
<1>8. CASE User(c)
  <2>1. UNCHANGED <<server, call>> /\ (store' = store \/ SameStore)
    BY <1>7, <1>8, UserType
  <2> QED
    BY <1>4, <1>5, <1>6, <2>1
<1>9. CASE PushCollect(c)
  <2>1. SameBatch
    <3> SUFFICES ASSUME NEW i \in DOMAIN call'[c].batch PROVE KnownThen(call'[c].batch[i].id)
      BY DEF SameBatch
    <3>1. InOrder(Unpushed(c))[i] \in DOMAIN store[c]
      BY <1>9, Collects, ToPush
    <3>2. store[c][InOrder(Unpushed(c))[i]].id \in Ids /\ Known(store[c][InOrder(Unpushed(c))[i]].id)
      BY <3>1, IdsTyped DEF FreshInv
    <3> QED
      BY <1>1, <1>9, <3>2, Collects
  <2> QED
    BY <1>4, <1>5, <1>9, <2>1, Collects
<1>10. CASE PushRequest(c)
  <2>1. SameServer
    <3> SUFFICES ASSUME NEW p \in DOMAIN server', p \notin DOMAIN server PROVE KnownThen(server'[p].id)
      BY DEF SameServer
    <3>1. server' # server
      OBVIOUS
    <3>2. /\ call[c].batch \in Seq(Commits) /\ Len(server') = Len(server) + Len(call[c].batch)
          /\ \A i \in DOMAIN call[c].batch : server'[Len(server) + i] = call[c].batch[i]
      BY <1>10, <3>1, Request
    <3>3. p - Len(server) \in DOMAIN call[c].batch /\ p = Len(server) + (p - Len(server))
      BY <1>3, <3>2
    <3>4. server'[p] = call[c].batch[p - Len(server)]
      BY <3>2, <3>3
    <3> QED
      BY <1>2, <3>3, <3>4
  <2> QED
    BY <1>5, <1>6, <1>10, <2>1, Request
<1>11. CASE PushAdvance(c) \/ PullAdvance(c) \/ SaveSyncState(c)
  <2>1. UNCHANGED <<server, store>>
    BY <1>11 DEF PushAdvance, PullAdvance, SaveSyncState
  <2>2. call'[c] = Idle \/ call'[c].batch = call[c].batch
    BY <1>11, RefType, SaveType
  <2> QED
    BY <1>4, <1>5, <1>6, <2>1, <2>2
<1>12. CASE PullRequest(c)
  <2>1. UNCHANGED <<server, store>> /\ call'[c] = PullCall(c)
    BY <1>12, Typed DEF PullRequest, Types
  <2> QED
    BY <1>4, <1>5, <1>6, <2>1, Calling
<1>13. CASE Apply(c)
  <2>1. UNCHANGED server
    BY <1>13 DEF Apply
  <2>2. SameStore
    <3> SUFFICES ASSUME NEW n \in DOMAIN store'[c], n \notin DOMAIN store[c] PROVE KnownThen(store'[c][n].id)
      BY DEF SameStore
    <3>1. /\ Len(store'[c]) = Len(store[c]) + Len(Listing(c)) /\ Listing(c) \in Seq(DOMAIN server)
          /\ \A i \in DOMAIN Listing(c) : store'[c][Len(store[c]) + i].id = server[Listing(c)[i]].id
      BY <1>13, ApplyKeeps, ToApply
    <3>2. n - Len(store[c]) \in DOMAIN Listing(c) /\ n = Len(store[c]) + (n - Len(store[c]))
      BY <1>3, <3>1
    <3>3. Listing(c)[n - Len(store[c])] \in DOMAIN server
          /\ store'[c][n].id = server[Listing(c)[n - Len(store[c])]].id
      BY <3>1, <3>2
    <3>4. server[Listing(c)[n - Len(store[c])]].id \in Ids /\ Known(server[Listing(c)[n - Len(store[c])]].id)
      BY <3>3, IdsTyped DEF FreshInv
    <3> QED
      BY <1>1, <3>3, <3>4
  <2> QED
    BY <1>4, <1>6, <1>13, <2>1, <2>2, ApplyKeeps
<1>14. CASE ApplyFails(c) \/ MergeFails(c) \/ Crash(c) \/ ApplyLoses(c) \/ MergeConflicts(c)
  BY <1>4, <1>5, <1>6, <1>14, EndType, LosesType, ConflictType
<1>15. CASE MergeTracking(c)
  <2>1. server' = server /\ call'[c].batch = call[c].batch /\ (store' = store \/ SameStore)
    BY <1>7, <1>15, MergeType
  <2> QED
    BY <1>4, <1>5, <1>6, <2>1
<1>16. ~FetchRequest(c)
  BY DEF Joining, FetchRequest
<1> QED
  BY <1>8, <1>9, <1>10, <1>11, <1>12, <1>13, <1>14, <1>15, <1>16 DEF Step, Push, Pull

\* A client's commits to push stay clean up to any position the server had.
LEMMA CleanStays ==
  ASSUME TypeInv, FreshInv, NEW c \in Clients, Keeps(c), NEW x \in Clients,
         \A n \in New(x)' : n \in New(x) \/ (x = c /\ n = Len(store[c]) + 1 /\ store'[c][n].id = <<c, n>>)
  PROVE  \A b \in 0..Len(server) : Clean(x, b) => Clean(x, b)'
<1> SUFFICES ASSUME NEW b \in 0..Len(server), Clean(x, b) PROVE Clean(x, b)'
  OBVIOUS
<1>1. /\ Len(server) \in Nat /\ DOMAIN server = 1..Len(server) /\ DOMAIN server' = 1..Len(server')
      /\ \A p \in DOMAIN server : server'[p] = server[p] /\ server[p].id \in Ids /\ Known(server[p].id)
      /\ Len(server') \in Nat
  BY Typed, IdsTyped DEF FreshInv, Keeps, Types, Grows
<1>2. /\ Len(store[x]) \in Nat /\ DOMAIN store[x] = 1..Len(store[x])
      /\ \A n \in DOMAIN store[x] : store'[x][n] = store[x][n] /\ store[x][n].id \in Ids /\ Known(store[x][n].id)
  BY Typed, IdsTyped DEF FreshInv, Keeps, Frame, Grows
<1>3. New(x) \subseteq DOMAIN store[x]
  BY Typed DEF New, ShapeOf, History
<1> DEFINE m == Len(store[c]) + 1
<1>4. \A id \in Ids : Known(id) => id # <<c, m>>
  <2> SUFFICES ASSUME NEW id \in Ids, Known(id), id = <<c, m>> PROVE FALSE
    OBVIOUS
  <2>1. Len(store[c]) \in Nat /\ id[1] = c /\ id[2] = m
    BY Typed
  <2> QED
    BY <2>1 DEF Known
<1>5. ASSUME NEW n \in New(x)', NEW p \in DOMAIN server', server'[p].id = store'[x][n].id PROVE p > b
  <2>1. CASE p \notin DOMAIN server
    BY <1>1, <2>1
  <2>2. CASE p \in DOMAIN server /\ n \in New(x)
    BY <1>1, <1>2, <1>3, <1>5, <2>2 DEF Clean
  <2>3. CASE p \in DOMAIN server /\ n \notin New(x)
    BY <1>1, <1>4, <1>5, <2>3
  <2> QED
    BY <2>1, <2>2, <2>3
<1>6. ASSUME NEW n \in New(x)', NEW k \in New(x)', store'[x][n].id = store'[x][k].id PROVE n = k
  <2>1. CASE n \in New(x) /\ k \in New(x)
    BY <1>2, <1>3, <1>6, <2>1 DEF Clean
  <2>2. CASE n \notin New(x) /\ k \notin New(x)
    BY <2>2
  <2>3. CASE n \in New(x) /\ k \notin New(x)
    BY <1>2, <1>3, <1>4, <1>6, <2>3
  <2>4. CASE n \notin New(x) /\ k \in New(x)
    BY <1>2, <1>3, <1>4, <1>6, <2>4
  <2> QED
    BY <2>1, <2>2, <2>3, <2>4
<1> QED
  BY <1>5, <1>6 DEF Clean

\* The other clients' calls, while the server only grows.
LEMMA OtherCalls ==
  ASSUME TypeInv, FreshInv, NEW c \in Clients, Keeps(c), NEW x \in Clients, x # c, CallInv(x)
  PROVE  CallInv(x)'
<1>1. /\ store'[x] = store[x] /\ local'[x] = local[x] /\ tracking'[x] = tracking[x]
      /\ synced'[x] = synced[x] /\ call'[x] = call[x] /\ New(x)' = New(x)
  BY DEF Keeps, Frame, New
<1>2. /\ \A b \in 0..Len(server) : Clean(x, b) => Clean(x, b)'
  BY <1>1, CleanStays
<1>3. /\ Len(server) \in Nat /\ DOMAIN server = 1..Len(server) /\ DOMAIN server' = 1..Len(server')
      /\ \A p \in DOMAIN server : server'[p] = server[p] /\ Len(server') \in Nat
      /\ synced[x] \in 0..Len(server) /\ call[x].upto \in 0..Len(server)
  BY Typed DEF Keeps, Types, Grows, Own, ShapeOf
<1>4. synced'[x] > 0 => Clean(x, synced[x])'
  <2> SUFFICES ASSUME synced[x] > 0 PROVE Clean(x, synced[x])'
    BY <1>1
  <2>1. Clean(x, synced[x])
    BY DEF CallInv
  <2> QED
    BY <1>1, <1>2, <1>3, <2>1
<1>5. (At(x, "save") /\ call[x].upto > 0 => Clean(x, call[x].upto))'
  BY <1>1, <1>2, <1>3 DEF CallInv, At
<1>6. (At(x, "push") =>
       \A i \in DOMAIN call[x].batch, p \in DOMAIN server :
            server[p].id = call[x].batch[i].id => p > synced[x])'
  <2> SUFFICES ASSUME call[x].pc = "push", NEW i \in DOMAIN call[x].batch, NEW p \in DOMAIN server',
                      server'[p].id = call[x].batch[i].id
               PROVE  p > synced[x]
    BY <1>1 DEF At
  <2>1. CASE p \in DOMAIN server
    BY <1>3, <2>1 DEF CallInv, At
  <2>2. CASE p \notin DOMAIN server
    BY <1>3, <2>2
  <2> QED
    BY <2>1, <2>2
<1> QED
  BY <1>1, <1>4, <1>5, <1>6 DEF CallInv, At

\* A client's own step.
LEMMA OwnCall ==
  ASSUME Joining, TypeInv, FreshInv, NEW c \in Clients, CallInv(c), Step(c)
  PROVE  CallInv(c)'
<1>1. /\ Keeps(c) /\ Len(server) \in Nat /\ DOMAIN server = 1..Len(server)
      /\ synced[c] \in 0..Len(server) /\ call[c].upto \in 0..Len(server) /\ Len(server) \in 0..Len(server)
      /\ call[c] \in Calls
  BY StepType, Typed DEF Own, ShapeOf
<1>2. Joined(c) <=> synced[c] > 0
  BY DEF Joined, Joining
<1> DEFINE fresh(n) == n = Len(store[c]) + 1 /\ store'[c][n].id = <<c, n>>
<1>3. (\A n \in New(c)' : n \in New(c) \/ fresh(n)) => \A b \in 0..Len(server) : Clean(c, b) => Clean(c, b)'
  BY <1>1, CleanStays
<1>4. New(c)' = {} => \A b : Clean(c, b)'
  BY DEF Clean
<1>5. UNCHANGED <<local, tracking>> => New(c)' = New(c)
  BY DEF New
<1>6. ASSUME synced'[c] > 0 => Clean(c, synced[c])',
             call'[c].pc \notin {"save", "apply", "ref", "push"}, call'[c].mode # "fetch"
      PROVE  CallInv(c)'
  BY <1>6 DEF CallInv, At
<1>7. ASSUME \A n \in New(c)' : n \in New(c) \/ fresh(n), UNCHANGED synced
      PROVE  synced'[c] > 0 => Clean(c, synced[c])'
  <2> SUFFICES ASSUME synced[c] > 0 PROVE Clean(c, synced[c])'
    BY <1>7
  <2>1. Clean(c, synced[c])
    BY DEF CallInv
  <2> QED
    BY <1>1, <1>3, <1>7, <2>1
<1>8. CASE User(c)
  <2>1. UNCHANGED <<server, tracking, sidecar, synced, call>>
    BY <1>8, UserType
  <2>2. \A n \in New(c)' : n \in New(c) \/ fresh(n)
    BY <1>8, UserType DEF New
  <2>3. synced'[c] > 0 => Clean(c, synced[c])'
    BY <1>7, <2>1, <2>2
  <2>4. (At(c, "save") /\ call[c].upto > 0 => Clean(c, call[c].upto))'
    BY <1>1, <1>3, <2>1, <2>2 DEF CallInv, At
  <2>5. (call[c].mode = "ff" /\ At(c, "ref") => local[c] = call[c].head)'
    <3> SUFFICES ASSUME call[c].mode = "ff", call[c].pc = "ref" PROVE local'[c] = call[c].head
      BY <2>1 DEF At
    <3>1. synced[c] = 0 /\ local[c] = call[c].head
      BY DEF CallInv, At
    <3> QED
      BY <1>2, <1>8, <3>1, UserType DEF At
  <2> QED
    BY <2>1, <2>3, <2>4, <2>5 DEF CallInv, At
<1>9. CASE PushCollect(c)
  <2>1. /\ UNCHANGED <<server, store, local, tracking, synced>> /\ synced[c] > 0
        /\ call'[c].pc = "push" /\ call'[c].from = RemoteHead(c) /\ call'[c].mode = "ff"
        /\ DOMAIN call'[c].batch = DOMAIN InOrder(Unpushed(c))
        /\ \A i \in DOMAIN call'[c].batch : call'[c].batch[i].id = store[c][InOrder(Unpushed(c))[i]].id
    BY <1>2, <1>9, Collects
  <2>2. synced'[c] > 0 => Clean(c, synced[c])'
    BY <1>5, <1>7, <2>1
  <2>3. RemoteHead(c) = <<"server", synced[c]>> /\ Clean(c, synced[c])
    BY <2>1 DEF RemoteHead, CallInv
  <2> DEFINE ns == InOrder(Unpushed(c))
  <2>4. /\ \A i \in DOMAIN ns : ns[i] \in New(c) /\ ns[i] \in Nat
        /\ \A i, j \in DOMAIN ns : i < j => ns[i] < ns[j]
        /\ DOMAIN ns \subseteq Nat
    <3>1. Unpushed(c) \subseteq New(c)
      BY DEF Unpushed, New
    <3>2. ns \in Seq(Unpushed(c)) /\ Unpushed(c) \subseteq DOMAIN store[c] /\ DOMAIN store[c] \subseteq Nat
      BY ToPush, Typed
    <3> QED
      BY <3>1, <3>2, ToPush
  <2> HIDE DEF ns
  <2>5. \A i, j \in DOMAIN ns : store[c][ns[i]].id = store[c][ns[j]].id => i = j
    <3> SUFFICES ASSUME NEW i \in DOMAIN ns, NEW j \in DOMAIN ns, store[c][ns[i]].id = store[c][ns[j]].id, i # j
                 PROVE  FALSE
      OBVIOUS
    <3>1. ns[i] = ns[j]
      BY <2>3, <2>4 DEF Clean
    <3>2. i < j \/ j < i
      BY <2>4
    <3> QED
      BY <2>4, <3>1, <3>2
  <2>6. \A i \in DOMAIN ns, p \in DOMAIN server : server[p].id = store[c][ns[i]].id => p > synced[c]
    BY <2>3, <2>4 DEF Clean
  <2>7. /\ \A i, j \in DOMAIN call'[c].batch : call'[c].batch[i].id = call'[c].batch[j].id => i = j
        /\ \A i \in DOMAIN call'[c].batch, p \in DOMAIN server : server[p].id = call'[c].batch[i].id => p > synced[c]
    BY <2>1, <2>5, <2>6 DEF ns
  <2> QED
    BY <2>1, <2>2, <2>3, <2>7 DEF CallInv, At
<1>10. CASE PushRequest(c)
  <2>1. /\ UNCHANGED <<store, local, tracking, synced>> /\ call'[c].pc \in {"pushRef", "idle"}
        /\ call'[c].mode # "fetch"
    BY <1>10, Request, IdleFields DEF CallInv
  <2> QED
    BY <1>5, <1>6, <1>7, <2>1
<1>11. CASE PushAdvance(c)
  <2>1. /\ UNCHANGED <<local, synced>> /\ tracking'[c] = local[c] /\ call'[c] = Idle
    BY <1>11, RefType DEF PushAdvance
  <2>2. New(c)' = {}
    BY <2>1 DEF New
  <2> QED
    BY <1>6, <1>7, <2>1, <2>2, IdleFields
<1>12. CASE PullRequest(c)
  <2>1. UNCHANGED <<server, store, local, tracking, synced>> /\ call'[c] = PullCall(c)
    BY <1>12, Typed DEF PullRequest, Types
  <2>2. synced'[c] > 0 => Clean(c, synced[c])'
    BY <1>5, <1>7, <2>1
  <2>3. ~Diverged(c) => synced[c] = 0 /\ Answer(RemoteHead(c)) = DOMAIN server
    BY <1>1 DEF Diverged, RemoteHead, Answer
  <2>4. /\ PullCall(c).upto = Len(server) /\ PullCall(c).mode = IF Diverged(c) THEN "merge" ELSE "ff"
        /\ PullCall(c).pc = IF Answer(RemoteHead(c)) # {} THEN "apply" ELSE IF Diverged(c) THEN "merge" ELSE "save"
    BY Calling
  <2>5. call'[c].pc = "save" => ~(call'[c].upto > 0)
    <3> SUFFICES ASSUME call'[c].pc = "save" PROVE Len(server) = 0
      BY <2>1, <2>4
    <3>1. Answer(RemoteHead(c)) = {} /\ ~Diverged(c)
      BY <2>1, <2>4, Zenon
    <3>2. DOMAIN server = {}
      BY <2>3, <3>1
    <3> QED
      BY <1>1, <3>2
  <2> QED
    BY <2>1, <2>2, <2>3, <2>4, <2>5 DEF CallInv, At
<1>13. CASE Apply(c)
  <2>1. UNCHANGED <<server, synced>> /\ At(c, "apply")
    BY <1>13 DEF Apply
  <2>2. /\ call'[c].pc = AfterApply(c) /\ call'[c].head = Grown(c) /\ call'[c].mode = call[c].mode
        /\ TargetOf(c) = "branch" => local'[c] = Grown(c)
        /\ TargetOf(c) = "tracking" => tracking'[c] = Grown(c) /\ local'[c] = local[c]
    BY <1>13, ApplyKeeps
  <2>3. call[c].mode \in {"ff", "merge"}
    BY <1>1 DEF CallInv, Calls, Modes
  <2>4. CASE call[c].mode = "ff"
    <3>1. synced[c] = 0 /\ TargetOf(c) = "branch" /\ AfterApply(c) = "ref"
      BY <2>1, <2>4 DEF CallInv, At, TargetOf, AfterApply
    <3> QED
      BY <2>1, <2>2, <2>4, <3>1 DEF CallInv, At
  <2>5. CASE call[c].mode = "merge"
    <3>1. TargetOf(c) = "tracking" /\ AfterApply(c) = "merge"
      BY <2>5 DEF TargetOf, AfterApply
    <3>2. tracking[c] \subseteq Grown(c)
      BY <3>1 DEF Grown, BaseOf
    <3>3. \A n \in New(c)' : n \in New(c)
      BY <2>2, <3>1, <3>2 DEF New
    <3> QED
      BY <1>6, <1>7, <2>1, <2>2, <2>5, <3>1, <3>3
  <2> QED
    BY <2>3, <2>4, <2>5
<1>14. CASE ApplyFails(c) \/ MergeFails(c) \/ Crash(c) \/ ApplyLoses(c) \/ MergeConflicts(c)
  <2>1. call'[c] = Idle /\ UNCHANGED <<local, tracking, synced>>
    BY <1>14, EndType, LosesType, ConflictType
  <2> QED
    BY <1>5, <1>6, <1>7, <2>1, IdleFields
<1>15. CASE MergeTracking(c)
  <2>1. UNCHANGED <<server, tracking, synced>> /\ call'[c].pc = "ref" /\ call'[c].mode = "merge"
    BY <1>15, MergeType
  <2>2. \A n \in New(c)' : n \in New(c) \/ fresh(n)
    BY <1>15, MergeType DEF New
  <2>3. synced'[c] > 0 => Clean(c, synced[c])'
    BY <1>7, <2>1, <2>2
  <2> QED
    BY <2>1, <2>3 DEF CallInv, At
<1>16. CASE PullAdvance(c)
  <2>1. /\ UNCHANGED <<server, store, local, synced>> /\ At(c, "ref") /\ call'[c].pc = "save" /\ call'[c].mode = call[c].mode
        /\ tracking'[c] = IF call[c].mode = "merge" THEN local[c] ELSE call[c].head
    BY <1>16, RefType DEF PullAdvance
  <2>2. tracking'[c] = local'[c] /\ call[c].mode # "fetch"
    BY <1>1, <2>1 DEF CallInv, Calls, Modes
  <2>3. New(c)' = {}
    BY <2>2 DEF New
  <2> QED
    BY <1>4, <2>1, <2>2, <2>3 DEF CallInv, At
<1>17. CASE SaveSyncState(c)
  <2>1. /\ UNCHANGED <<server, store, local, tracking>> /\ call'[c] = Idle /\ At(c, "save")
        /\ synced'[c] = IF call[c].upto > 0 THEN call[c].upto ELSE synced[c]
    BY <1>17, SaveType DEF SaveSyncState
  <2>2. synced'[c] > 0 => Clean(c, synced[c])'
    <3> SUFFICES ASSUME synced'[c] > 0 PROVE Clean(c, synced[c])'
      OBVIOUS
    <3>1. Clean(c, synced'[c])
      BY <2>1 DEF CallInv
    <3>2. synced'[c] \in 0..Len(server)
      BY <1>1, <2>1
    <3> QED
      BY <1>3, <1>5, <2>1, <3>1, <3>2
  <2> QED
    BY <1>6, <2>1, <2>2, IdleFields
<1>18. ~FetchRequest(c)
  BY DEF Joining, FetchRequest
<1> QED
  BY <1>8, <1>9, <1>10, <1>11, <1>12, <1>13, <1>14, <1>15, <1>16, <1>17, <1>18 DEF Step, Push, Pull

\* A push is taken at the saved head only, where what it brings is new.
LEMMA OnceStep ==
  ASSUME Joining, TypeInv, OnceInv, NEW c \in Clients, Step(c)
  PROVE  ServerTakesOnce'
<1>1. CASE server' = server
  BY <1>1 DEF OnceInv, ServerTakesOnce
<1>2. CASE server' # server
  <2>1. PushRequest(c)
    <3>1. CASE Pull(c) \/ User(c) \/ PushCollect(c) \/ PushAdvance(c) \/ PullRequest(c) \/ FetchRequest(c) \/ Crash(c)
      BY <1>2, <3>1 DEF Pull, User, PushCollect, PushAdvance, PullRequest, FetchRequest, Crash, Apply, ApplyFails,
         ApplyLoses, MergeTracking, MergeConflicts, MergeFails, PullAdvance, SaveSyncState,
         UserCommits, UserResolves, UserAborts
    <3> QED
      BY <3>1 DEF Step, Push
  <2> DEFINE b == call[c].batch
             L == Len(server)
  <2>2. /\ Accepts(call[c].from) /\ b \in Seq(Commits) /\ Len(server') = L + Len(b)
        /\ \A i \in DOMAIN b : server'[L + i] = b[i]
        /\ At(c, "push")
    BY <1>2, <2>1, Request
  <2>3. /\ L \in Nat /\ DOMAIN server = 1..L /\ DOMAIN server' = 1..Len(server')
        /\ \A p \in DOMAIN server : server'[p] = server[p]
    BY <2>1, Request, Typed DEF Keeps, Grows, Types
  <2>4. /\ synced[c] = L
        /\ \A i \in DOMAIN b, p \in DOMAIN server : server[p].id = b[i].id => p > synced[c]
        /\ \A i, j \in DOMAIN b : b[i].id = b[j].id => i = j
    BY <2>2 DEF OnceInv, CallInv, Accepts
  <2>5. \A i \in DOMAIN b, p \in DOMAIN server : server[p].id # b[i].id
    BY <2>3, <2>4
  <2>6. \A p \in DOMAIN server' : p \in DOMAIN server \/ (p - L \in DOMAIN b /\ server'[p] = b[p - L])
    <3> SUFFICES ASSUME NEW p \in DOMAIN server', p \notin DOMAIN server
                 PROVE  p - L \in DOMAIN b /\ server'[p] = b[p - L]
      OBVIOUS
    <3>1. p - L \in DOMAIN b /\ L + (p - L) = p
      BY <2>2, <2>3
    <3> QED
      BY <2>2, <3>1
  <2> HIDE DEF b, L
  <2>7. ASSUME NEW p \in DOMAIN server', NEW q \in DOMAIN server', server'[p].id = server'[q].id PROVE p = q
    <3>1. p \in Int /\ q \in Int /\ L \in Int
      BY <2>2, <2>3
    <3>2. CASE p \in DOMAIN server /\ q \in DOMAIN server
      BY <2>3, <2>7, <3>2 DEF OnceInv, ServerTakesOnce
    <3>3. CASE p \notin DOMAIN server /\ q \notin DOMAIN server
      <4>1. p - L = q - L
        BY <2>4, <2>6, <2>7, <3>3
      <4> QED
        BY <3>1, <4>1
    <3>4. CASE p \in DOMAIN server /\ q \notin DOMAIN server
      BY <2>3, <2>5, <2>6, <2>7, <3>4
    <3>5. CASE p \notin DOMAIN server /\ q \in DOMAIN server
      BY <2>3, <2>5, <2>6, <2>7, <3>5
    <3> QED
      BY <3>2, <3>3, <3>4, <3>5
  <2> QED
    BY <2>7 DEF ServerTakesOnce
<1> QED
  BY <1>1, <1>2

LEMMA OnceInit == Init => OnceInv
<1> SUFFICES ASSUME Init PROVE OnceInv
  OBVIOUS
<1>1. \A p \in DOMAIN server : p = 1 /\ server[p].id = <<Seed, 1>>
  <2>1. CASE Seeded
    <3>1. server = <<[id |-> <<Seed, 1>>, rows |-> {<<Seed, 1>>}]>>
      BY <2>1 DEF Init
    <3> QED
      BY <3>1
  <2>2. CASE ~Seeded
    BY <2>2 DEF Init
  <2> QED
    BY <2>1, <2>2
<1>2. \A c \in Clients : store[c] = << >> /\ synced[c] = 0 /\ call[c] = Idle
  BY DEF Init
<1>3. FreshInv
  BY <1>1, <1>2, IdleFields, ConstantsAssumption DEF FreshInv, Known
<1>4. \A c \in Clients : CallInv(c)
  BY <1>2, IdleFields DEF CallInv, At
<1> QED
  BY <1>1, <1>3, <1>4 DEF OnceInv, ServerTakesOnce

LEMMA OnceNext == ASSUME Joining, TypeInv, OnceInv, [Next]_vars PROVE OnceInv'
<1>1. ASSUME NEW c \in Clients, Step(c) PROVE OnceInv'
  <2>1. Keeps(c) /\ FreshInv' /\ ServerTakesOnce'
    BY <1>1, StepType, FreshStep, OnceStep DEF OnceInv
  <2>2. \A x \in Clients : CallInv(x)'
    BY <1>1, <2>1, OtherCalls, OwnCall DEF OnceInv
  <2> QED
    BY <2>1, <2>2 DEF OnceInv
<1>2. CASE UNCHANGED vars
  <2>1. ServerTakesOnce' /\ FreshInv'
    BY <1>2 DEF vars, OnceInv, ServerTakesOnce, FreshInv, Known
  <2>2. \A c \in Clients : CallInv(c)'
    BY <1>2 DEF vars, OnceInv, CallInv, At, Clean, New
  <2> QED
    BY <2>1, <2>2 DEF OnceInv
<1> QED
  BY <1>1, <1>2 DEF Next, Step

\* The server never gets a commit twice when users join before they commit and
\* nobody fetches, whatever call, answer, apply or advance is lost (runPush,
\* getRemoteHead, getUnpushedCommits and the server's 409).
THEOREM TakesOnce ==
  ASSUME Joining
  PROVE  Spec => []ServerTakesOnce
<1>1. TypeInv /\ OnceInv /\ [Next]_vars => OnceInv'
  BY OnceNext
<1>2. OnceInv => ServerTakesOnce
  BY DEF OnceInv
<1> QED
  BY <1>1, <1>2, OnceInit, TypeIsInvariant, PTL DEF Spec

(***************************************************************************)
(* The saved head.  What the sidecars list, the branches have, unless the  *)
(* branch failed to move after its sidecar was written.                    *)
(***************************************************************************)
Whole == "fetch" \notin Uses /\ "advanceFails" \notin Faults

\* The history h has a copy of every server commit at the positions S.
Covers(c, S, h) == \A p \in S : \E n \in h : n # 0 /\ store[c][n].id = server[p].id

HasInv(c) ==
  /\ Covers(c, 1..synced[c], local[c]) /\ Covers(c, 1..synced[c], tracking[c])
  /\ Covers(c, sidecar[c]["branch"], local[c]) /\ Covers(c, sidecar[c]["tracking"], tracking[c])
  /\ call[c].mode # "fetch"
  /\ At(c, "apply") => 1..call[c].upto \subseteq
                         call[c].todo \cup IF call[c].mode = "ff" THEN {} ELSE 1..synced[c]
  /\ At(c, "merge") => Covers(c, 1..call[c].upto, tracking[c])
  /\ At(c, "ref") => Covers(c, 1..call[c].upto, local[c])
  /\ At(c, "ref") /\ call[c].mode = "merge" => tracking[c] \subseteq local[c]
  /\ call[c].mode = "ff" /\ call[c].pc \in {"apply", "ref"} =>
       synced[c] = 0 /\ Covers(c, sidecar[c]["tracking"], local[c])
  /\ At(c, "ref") /\ call[c].mode = "ff" =>
       Covers(c, 1..call[c].upto, call[c].head) /\ Covers(c, sidecar[c]["tracking"], call[c].head)
  /\ At(c, "save") => Covers(c, 1..call[c].upto, local[c]) /\ Covers(c, 1..call[c].upto, tracking[c])
  /\ At(c, "push") => /\ call[c].from[1] = "server" => call[c].from[2] = synced[c]
                      /\ call[c].from[1] = "none" => tracking[c] = {}
  /\ At(c, "pushRef") => Covers(c, sidecar[c]["tracking"], local[c])

TrackedInv == \A c \in Clients : HasInv(c)

\* What is covered stays covered, by any history with more in it.
LEMMA CoversStays ==
  ASSUME TypeInv, NEW c \in Clients, Keeps(c), NEW x \in Clients
  PROVE  \A S \in SUBSET (1..Len(server)), h \in SUBSET (0..Len(store[x])) :
           \A g : h \subseteq g /\ Covers(x, S, h) => Covers(x, S, g)'
<1> SUFFICES ASSUME NEW S \in SUBSET (1..Len(server)), NEW h \in SUBSET (0..Len(store[x])), NEW g,
                    h \subseteq g, Covers(x, S, h), NEW p \in S
             PROVE  \E n \in g : n # 0 /\ store'[x][n].id = server'[p].id
  BY DEF Covers
<1>1. PICK n \in h : n # 0 /\ store[x][n].id = server[p].id
  BY DEF Covers
<1>2. p \in DOMAIN server /\ n \in DOMAIN store[x]
  BY <1>1, Typed
<1>3. server'[p] = server[p] /\ store'[x][n] = store[x][n]
  BY <1>2 DEF Keeps, Frame, Grows
<1> QED
  BY <1>1, <1>3

LEMMA OtherHas ==
  ASSUME TypeInv, NEW c \in Clients, Keeps(c), NEW x \in Clients, x # c, HasInv(x)
  PROVE  HasInv(x)'
<1>1. /\ store'[x] = store[x] /\ local'[x] = local[x] /\ tracking'[x] = tracking[x]
      /\ synced'[x] = synced[x] /\ call'[x] = call[x] /\ sidecar'[x] = sidecar[x]
  BY DEF Keeps, Frame
<1>2. \A S \in SUBSET (1..Len(server)), h \in SUBSET (0..Len(store[x])) : Covers(x, S, h) => Covers(x, S, h)'
  BY CoversStays
<1>3. /\ local[x] \in SUBSET (0..Len(store[x])) /\ tracking[x] \in SUBSET (0..Len(store[x]))
      /\ 1..synced[x] \in SUBSET (1..Len(server)) /\ 1..call[x].upto \in SUBSET (1..Len(server))
      /\ sidecar[x]["branch"] \in SUBSET (1..Len(server)) /\ sidecar[x]["tracking"] \in SUBSET (1..Len(server))
      /\ call[x].head \in SUBSET (0..Len(store[x]))
  <2>1. synced[x] \in 0..Len(server) /\ call[x].upto \in 0..Len(server) /\ Len(server) \in Nat
    BY Typed DEF Own, ShapeOf
  <2> QED
    BY <2>1, Typed DEF ShapeOf, History
<1> QED
  BY <1>1, <1>2, <1>3 DEF HasInv, At

\* A client's own step.
LEMMA OwnHas ==
  ASSUME Whole, TypeInv, NEW c \in Clients, HasInv(c), Step(c)
  PROVE  HasInv(c)'
<1> DEFINE br == sidecar[c]["branch"]
           tr == sidecar[c]["tracking"]
           sy == synced[c]
           up == call[c].upto
           Srv == SUBSET (1..Len(server))
           Sto == SUBSET (0..Len(store[c]))
<1>1. /\ Keeps(c) /\ Len(server) \in Nat /\ DOMAIN server = 1..Len(server) /\ call[c] \in Calls
      /\ sy \in 0..Len(server) /\ up \in 0..Len(server) /\ DOMAIN store[c] = 1..Len(store[c]) /\ Len(store[c]) \in Nat
  BY StepType, Typed DEF Own, ShapeOf
<1>2. \A S \in Srv, h \in Sto : \A g : h \subseteq g /\ Covers(c, S, h) => Covers(c, S, g)'
  BY <1>1, CoversStays
<1>3. local[c] \in Sto /\ tracking[c] \in Sto /\ 1..sy \in Srv /\ 1..up \in Srv /\ br \in Srv /\ tr \in Srv
  BY <1>1, Typed DEF ShapeOf, History
<1>4. call[c].head \in Sto
  BY <1>1, Typed DEF ShapeOf
<1>5. /\ Covers(c, 1..sy, local[c]) /\ Covers(c, 1..sy, tracking[c]) /\ Covers(c, br, local[c]) /\ Covers(c, tr, tracking[c])
      /\ call[c].mode \in {"ff", "merge"}
  BY <1>1 DEF HasInv, Calls, Modes
\* The branches grow, the saved head and the sidecars stay.
<1> DEFINE More == local[c] \subseteq local'[c] /\ tracking[c] \subseteq tracking'[c]
<1>6. ASSUME More, synced'[c] = sy, sidecar'[c] = sidecar[c]
      PROVE  /\ Covers(c, 1..synced[c], local[c])' /\ Covers(c, 1..synced[c], tracking[c])'
             /\ Covers(c, sidecar[c]["branch"], local[c])' /\ Covers(c, sidecar[c]["tracking"], tracking[c])'
  BY <1>2, <1>3, <1>5, <1>6
<1>7. ASSUME More, synced'[c] = sy, sidecar'[c] = sidecar[c],
             call'[c].pc = "idle" \/ (call'[c].pc = "pushRef" /\ Covers(c, sidecar[c]["tracking"], local[c])'),
             call'[c].mode # "fetch", call'[c].mode = "ff" => call'[c].pc \notin {"apply", "ref"}
      PROVE  HasInv(c)'
  BY <1>6, <1>7 DEF HasInv, At
<1>7a. ASSUME More, synced'[c] = sy, sidecar'[c] = sidecar[c], call'[c] = Idle
       PROVE  HasInv(c)'
  <2>1. call'[c].pc = "idle" /\ call'[c].mode = "ff"
    BY <1>7a, IdleFields
  <2> QED
    BY <1>6, <1>7a, <2>1 DEF HasInv, At
<1>8. CASE User(c)
  <2>1. UNCHANGED <<tracking, sidecar, synced, call>> /\ local[c] \subseteq local'[c]
    BY <1>8, UserType
  <2>2. /\ Covers(c, 1..synced[c], local[c])' /\ Covers(c, 1..synced[c], tracking[c])'
        /\ Covers(c, sidecar[c]["branch"], local[c])' /\ Covers(c, sidecar[c]["tracking"], tracking[c])'
    BY <1>6, <2>1
  <2>3. /\ Covers(c, 1..up, tracking[c]) => Covers(c, 1..call[c].upto, tracking[c])'
        /\ Covers(c, 1..up, local[c]) => Covers(c, 1..call[c].upto, local[c])'
        /\ Covers(c, tr, local[c]) => Covers(c, sidecar[c]["tracking"], local[c])'
    BY <1>2, <1>3, <2>1
  <2>4. /\ Covers(c, 1..up, call[c].head) => Covers(c, 1..call[c].upto, call[c].head)'
        /\ Covers(c, tr, call[c].head) => Covers(c, sidecar[c]["tracking"], call[c].head)'
    BY <1>2, <1>3, <1>4, <2>1
  <2>5. call[c].mode = "merge" /\ At(c, "ref") => tracking[c] \subseteq local'[c]
    BY <2>1 DEF HasInv
  <2> QED
    BY <2>1, <2>2, <2>3, <2>4, <2>5 DEF HasInv, At
<1>9. CASE PushCollect(c)
  <2>1. /\ UNCHANGED <<server, store, local, tracking, sidecar, synced>>
        /\ call'[c].pc = "push" /\ call'[c].from = RemoteHead(c) /\ call'[c].mode = "ff"
    BY <1>9, Collects
  <2>2. /\ RemoteHead(c)[1] = "server" => RemoteHead(c)[2] = sy
        /\ RemoteHead(c)[1] = "none" => tracking[c] = {}
    BY DEF RemoteHead
  <2>3. /\ Covers(c, 1..synced[c], local[c])' /\ Covers(c, 1..synced[c], tracking[c])'
        /\ Covers(c, sidecar[c]["branch"], local[c])' /\ Covers(c, sidecar[c]["tracking"], tracking[c])'
    BY <1>6, <2>1
  <2> QED
    BY <2>1, <2>2, <2>3 DEF HasInv, At
<1>10. CASE PushRequest(c)
  <2>1. UNCHANGED <<store, local, tracking, sidecar, synced, merging>> /\ At(c, "push")
    BY <1>10, Request
  <2>2. CASE call'[c] = Idle
    <3>1. More /\ synced'[c] = sy /\ sidecar'[c] = sidecar[c]
      BY <2>1
    <3> QED
      BY <1>7a, <2>2, <3>1
  <2>3. CASE call'[c] # Idle
    <3>1. Accepts(call[c].from) /\ call'[c].pc \in {"pushRef", "idle"} /\ call'[c].mode \in {call[c].mode, "ff"}
      BY <1>10, <2>3, Request
    <3>2. sy = Len(server) \/ tracking[c] = {}
      BY <2>1, <3>1 DEF HasInv, Accepts
    <3>3. Covers(c, tr, local[c])
      BY <1>3, <1>5, <3>2 DEF Covers
    <3>4. Covers(c, sidecar[c]["tracking"], local[c])'
      BY <1>2, <1>3, <2>1, <3>3
    <3> QED
      BY <1>5, <1>7, <2>1, <3>1, <3>4
  <2> QED
    BY <2>2, <2>3
<1>11. CASE PushAdvance(c)
  <2>1. UNCHANGED <<store, local, sidecar, synced>> /\ tracking'[c] = local[c] /\ call'[c] = Idle /\ At(c, "pushRef")
    BY <1>11, RefType DEF PushAdvance
  <2>2. Covers(c, tr, local[c])
    BY <2>1 DEF HasInv
  <2>3. /\ Covers(c, 1..synced[c], local[c])' /\ Covers(c, 1..synced[c], tracking[c])'
        /\ Covers(c, sidecar[c]["branch"], local[c])' /\ Covers(c, sidecar[c]["tracking"], tracking[c])'
    BY <1>2, <1>3, <1>5, <2>1, <2>2
  <2> QED
    BY <2>1, <2>3, IdleFields DEF HasInv, At
<1>12. CASE PullRequest(c)
  <2>1. UNCHANGED <<server, store, local, tracking, sidecar, synced>> /\ call'[c] = PullCall(c)
    BY <1>12, Typed DEF PullRequest, Types
  <2> DEFINE ans == Answer(RemoteHead(c))
  <2>2. /\ PullCall(c).upto = Len(server) /\ PullCall(c).mode = IF Diverged(c) THEN "merge" ELSE "ff"
        /\ PullCall(c).pc = IF ans # {} THEN "apply" ELSE IF Diverged(c) THEN "merge" ELSE "save"
        /\ PullCall(c).todo = ans
    BY Calling
  <2>3. ans = (sy + 1)..Len(server)
    BY <1>1 DEF RemoteHead, Answer
  <2>4. ~Diverged(c) => sy = 0 /\ (tracking[c] = {} \/ local[c] = tracking[c])
    BY <1>1 DEF Diverged, RemoteHead
  <2>5. 1..Len(server) \subseteq ans \cup 1..sy /\ (sy = 0 => 1..sy = {})
    BY <1>1, <2>3
  <2>6. ~Diverged(c) => Covers(c, tr, local[c])
    BY <1>5, <2>4 DEF Covers
  <2>7. ans = {} => Covers(c, 1..Len(server), tracking[c]) /\ Covers(c, 1..Len(server), local[c])
    BY <1>5, <2>5 DEF Covers
  <2>8. /\ Covers(c, 1..synced[c], local[c])' /\ Covers(c, 1..synced[c], tracking[c])'
        /\ Covers(c, sidecar[c]["branch"], local[c])' /\ Covers(c, sidecar[c]["tracking"], tracking[c])'
    BY <1>6, <2>1
  <2> HIDE DEF ans
  <2>9. 1..Len(server) \in Srv
    OBVIOUS
  <2>10. /\ ~Diverged(c) => Covers(c, sidecar[c]["tracking"], local[c])'
         /\ call'[c].pc \in {"merge", "save"} =>
              Covers(c, 1..call[c].upto, tracking[c])' /\ Covers(c, 1..call[c].upto, local[c])'
    BY <1>2, <1>3, <2>1, <2>2, <2>6, <2>7, <2>9
  <2>11. /\ call'[c].mode # "fetch" /\ call'[c].pc \in {"apply", "merge", "save"}
         /\ call'[c].mode = "ff" => ~Diverged(c) /\ sy = 0
         /\ call'[c].pc = "apply" => 1..call'[c].upto \subseteq
                         call'[c].todo \cup IF call'[c].mode = "ff" THEN {} ELSE 1..synced'[c]
    BY <2>1, <2>2, <2>4, <2>5
  <2> QED
    BY <2>1, <2>8, <2>10, <2>11 DEF HasInv, At
<1>13. CASE ApplyFails(c) \/ MergeFails(c) \/ Crash(c) \/ MergeConflicts(c)
  <2>1. call'[c] = Idle /\ UNCHANGED <<local, tracking, synced, sidecar>>
    BY <1>13, EndType, ConflictType
  <2>2. More /\ synced'[c] = sy /\ sidecar'[c] = sidecar[c]
    BY <2>1
  <2> QED
    BY <1>7a, <2>1, <2>2
<1>14. CASE MergeTracking(c)
  <2>1. /\ UNCHANGED <<server, tracking, sidecar, synced>> /\ call'[c].pc = "ref" /\ call'[c].mode = "merge"
        /\ call'[c].upto = up /\ local[c] \cup tracking[c] \subseteq local'[c]
    BY <1>14, MergeType
  <2>2. Covers(c, 1..up, tracking[c])
    BY <1>14 DEF MergeTracking, HasInv
  <2>3. /\ Covers(c, 1..synced[c], local[c])' /\ Covers(c, 1..synced[c], tracking[c])'
        /\ Covers(c, sidecar[c]["branch"], local[c])' /\ Covers(c, sidecar[c]["tracking"], tracking[c])'
    BY <1>6, <2>1
  <2>4. Covers(c, 1..call[c].upto, local[c])'
    BY <1>2, <1>3, <2>1, <2>2
  <2> QED
    BY <2>1, <2>3, <2>4 DEF HasInv, At
<1>15. CASE PullAdvance(c)
  <2>1. /\ UNCHANGED <<server, store, local, synced, sidecar>> /\ At(c, "ref") /\ call'[c].pc = "save"
        /\ call'[c].mode = call[c].mode /\ call'[c].upto = up
        /\ tracking'[c] = IF call[c].mode = "merge" THEN local[c] ELSE call[c].head
    BY <1>15, RefType DEF PullAdvance
  <2>2. Covers(c, 1..up, local[c]) /\ tracking'[c] \in Sto
    BY <1>3, <1>4, <2>1 DEF HasInv
  <2>3. Covers(c, tr, tracking'[c]) /\ Covers(c, 1..up, tracking'[c]) /\ Covers(c, 1..sy, tracking'[c])
    <3>1. CASE call[c].mode = "ff"
      <4>1. tracking'[c] = call[c].head /\ sy = 0
        BY <2>1, <3>1 DEF HasInv, At
      <4>2. Covers(c, tr, call[c].head) /\ Covers(c, 1..up, call[c].head) /\ 1..sy = {}
        BY <2>1, <3>1, <4>1 DEF HasInv
      <4> QED
        BY <4>1, <4>2 DEF Covers
    <3>2. CASE call[c].mode = "merge"
      <4>1. tracking[c] \subseteq local[c] /\ tracking'[c] = local[c]
        BY <2>1, <3>2 DEF HasInv
      <4> QED
        BY <1>5, <2>2, <4>1 DEF Covers
    <3> QED
      BY <1>5, <3>1, <3>2
  <2>4. /\ Covers(c, 1..synced[c], local[c])' /\ Covers(c, 1..synced[c], tracking[c])'
        /\ Covers(c, sidecar[c]["branch"], local[c])' /\ Covers(c, sidecar[c]["tracking"], tracking[c])'
        /\ Covers(c, 1..call[c].upto, local[c])' /\ Covers(c, 1..call[c].upto, tracking[c])'
    BY <1>2, <1>3, <1>5, <2>1, <2>2, <2>3 DEF Covers
  <2> QED
    BY <1>5, <2>1, <2>4 DEF HasInv, At
<1>16. CASE SaveSyncState(c)
  <2>1. /\ UNCHANGED <<server, store, local, tracking, sidecar>> /\ call'[c] = Idle /\ At(c, "save")
        /\ synced'[c] = IF up > 0 THEN up ELSE sy
    BY <1>16, SaveType DEF SaveSyncState
  <2>2. Covers(c, 1..up, local[c]) /\ Covers(c, 1..up, tracking[c])
    BY <2>1 DEF HasInv
  <2>3. /\ Covers(c, 1..synced[c], local[c])' /\ Covers(c, 1..synced[c], tracking[c])'
        /\ Covers(c, sidecar[c]["branch"], local[c])' /\ Covers(c, sidecar[c]["tracking"], tracking[c])'
    BY <1>2, <1>3, <1>5, <2>1, <2>2
  <2> QED
    BY <2>1, <2>3, IdleFields DEF HasInv, At
<1>17. CASE Apply(c)
  <2> DEFINE todo == call[c].todo
  <2>1. UNCHANGED <<server, synced>> /\ At(c, "apply")
    BY <1>17 DEF Apply
  <2>2. /\ Len(store'[c]) = Len(store[c]) + Len(Listing(c)) /\ Len(Listing(c)) \in Nat
        /\ \A i \in DOMAIN Listing(c) : store'[c][Len(store[c]) + i].id = server[Listing(c)[i]].id
        /\ \A p \in Pending(c) : \E i \in DOMAIN Listing(c) : Listing(c)[i] = p
        /\ DOMAIN Listing(c) = 1..Len(Listing(c))
        /\ TargetOf(c) = "branch" => local'[c] = Grown(c) /\ tracking'[c] = tracking[c]
        /\ TargetOf(c) = "tracking" => tracking'[c] = Grown(c) /\ local'[c] = local[c]
        /\ sidecar'[c] = [sidecar[c] EXCEPT ![TargetOf(c)] = @ \cup todo]
        /\ call'[c].pc = AfterApply(c) /\ call'[c].head = Grown(c) /\ call'[c].mode = call[c].mode
        /\ call'[c].upto = up
    BY <1>17, ApplyKeeps, ToApply
  <2>3. todo \in Srv /\ sidecar[c] \in [{"branch", "tracking"} -> SUBSET (1..MaxServer)]
    BY Typed DEF ShapeOf, Types
  \* What was pending is now a commit above the base.
  <2>4. ASSUME NEW p \in Pending(c)
        PROVE  \E n \in Grown(c) : n # 0 /\ store'[c][n].id = server'[p].id
    <3>1. PICK i \in DOMAIN Listing(c) : Listing(c)[i] = p
      BY <2>2
    <3>2. Len(store[c]) + i \in Grown(c) /\ Len(store[c]) + i # 0
      BY <1>1, <2>2, <3>1 DEF Grown
    <3>3. store'[c][Len(store[c]) + i].id = server'[p].id
      BY <2>1, <2>2, <3>1
    <3> QED
      BY <3>2, <3>3
  <2>5. ASSUME NEW S, NEW T \in Srv, NEW h \in Sto, NEW g, Covers(c, T, h), h \subseteq g, g = Grown(c),
               S \subseteq T \cup Pending(c)
        PROVE  Covers(c, S, g)'
    <3> SUFFICES ASSUME NEW p \in S PROVE \E n \in g : n # 0 /\ store'[c][n].id = server'[p].id
      BY DEF Covers
    <3>1. CASE p \in T
      <4>1. Covers(c, T, g)'
        BY <1>2, <2>5
      <4> QED
        BY <3>1, <4>1 DEF Covers
    <3>2. CASE p \in Pending(c)
      BY <2>4, <2>5, <3>2
    <3> QED
      BY <2>5, <3>1, <3>2
  <2>6. CASE call[c].mode = "ff"
    <3>1. /\ TargetOf(c) = "branch" /\ AfterApply(c) = "ref" /\ local[c] \subseteq Grown(c)
          /\ sy = 0 /\ Covers(c, tr, local[c]) /\ 1..up \subseteq todo
          /\ todo \cup br \subseteq br \cup Pending(c)
      BY <2>1, <2>6 DEF TargetOf, AfterApply, Grown, BaseOf, Pending, HasInv, At
    <3>2. /\ local'[c] = Grown(c) /\ tracking'[c] = tracking[c] /\ sidecar'[c]["branch"] = br \cup todo
          /\ sidecar'[c]["tracking"] = tr
      BY <2>2, <2>3, <3>1
    <3>3. \A S : S \subseteq br \cup Pending(c) => Covers(c, S, local[c])'
      BY <1>3, <1>5, <2>5, <3>1, <3>2
    <3>4. /\ Covers(c, 1..call[c].upto, local[c])' /\ Covers(c, sidecar[c]["branch"], local[c])'
      BY <2>2, <3>1, <3>2, <3>3
    <3>5. /\ Covers(c, 1..synced[c], local[c])' /\ Covers(c, 1..synced[c], tracking[c])'
          /\ Covers(c, sidecar[c]["tracking"], tracking[c])' /\ Covers(c, sidecar[c]["tracking"], local[c])'
          /\ call'[c].head = local'[c]
      BY <1>2, <1>3, <1>5, <2>1, <2>2, <3>1, <3>2
    <3> QED
      BY <2>1, <2>2, <2>6, <3>1, <3>2, <3>4, <3>5 DEF HasInv, At
  <2>7. CASE call[c].mode = "merge"
    <3>1. /\ TargetOf(c) = "tracking" /\ AfterApply(c) = "merge" /\ tracking[c] \subseteq Grown(c)
          /\ 1..up \subseteq todo \cup 1..sy /\ todo \cup tr \subseteq tr \cup Pending(c)
      BY <2>1, <2>7 DEF TargetOf, AfterApply, Grown, BaseOf, Pending, HasInv, At
    <3>2. /\ tracking'[c] = Grown(c) /\ local'[c] = local[c] /\ sidecar'[c]["branch"] = br
          /\ sidecar'[c]["tracking"] = tr \cup todo
      BY <2>2, <2>3, <3>1
    <3>3. tr \cup 1..sy \in Srv /\ Covers(c, tr \cup 1..sy, tracking[c])
      BY <1>3, <1>5 DEF Covers
    <3>4. \A S : S \subseteq (tr \cup 1..sy) \cup Pending(c) => Covers(c, S, tracking[c])'
      BY <1>3, <2>5, <3>1, <3>2, <3>3
    <3>5. /\ Covers(c, 1..call[c].upto, tracking[c])' /\ Covers(c, sidecar[c]["tracking"], tracking[c])'
          /\ Covers(c, 1..synced[c], tracking[c])'
      BY <2>1, <2>2, <3>1, <3>2, <3>4
    <3>6. Covers(c, 1..synced[c], local[c])' /\ Covers(c, sidecar[c]["branch"], local[c])'
      BY <1>2, <1>3, <1>5, <2>1, <3>2
    <3> QED
      BY <2>1, <2>2, <2>7, <3>1, <3>2, <3>5, <3>6 DEF HasInv, At
  <2> QED
    BY <1>5, <2>6, <2>7
<1>18. ~FetchRequest(c) /\ ~ApplyLoses(c)
  BY DEF Whole, FetchRequest, ApplyLoses, Fails
<1> QED
  BY <1>8, <1>9, <1>10, <1>11, <1>12, <1>13, <1>14, <1>15, <1>16, <1>17, <1>18 DEF Step, Push, Pull

LEMMA TrackedInit == Init => TrackedInv
<1> SUFFICES ASSUME Init, NEW c \in Clients PROVE HasInv(c)
  BY DEF TrackedInv
<1>1. synced[c] = 0 /\ call[c] = Idle /\ sidecar[c]["branch"] = {} /\ sidecar[c]["tracking"] = {} /\ 1..0 = {}
  BY DEF Init
<1>2. \A h : Covers(c, {}, h)
  BY DEF Covers
<1> QED
  BY <1>1, <1>2, IdleFields DEF HasInv, At

LEMMA TrackedNext == ASSUME Whole, TypeInv, TrackedInv, [Next]_vars PROVE TrackedInv'
<1>1. ASSUME NEW c \in Clients, Step(c) PROVE TrackedInv'
  <2>1. Keeps(c)
    BY <1>1, StepType
  <2> QED
    BY <1>1, <2>1, OtherHas, OwnHas DEF TrackedInv
<1>2. CASE UNCHANGED vars
  BY <1>2 DEF vars, TrackedInv, HasInv, Covers, At
<1> QED
  BY <1>1, <1>2 DEF Next, Step

\* What the saved server head stands for, origin/<branch> has, as long as a
\* branch always follows its sidecar and nobody fetches: also when users commit
\* and push before a first pull (runPull, runPush, applyCommits, saveSyncState).
THEOREM SavedHeadIsTracked ==
  ASSUME Whole
  PROVE  Spec => []SyncedIsTracked
<1>1. TypeInv /\ TrackedInv /\ [Next]_vars => TrackedInv'
  BY TrackedNext
<1>2. TrackedInv => SyncedIsTracked
  <2> SUFFICES ASSUME TrackedInv, NEW c \in Clients, NEW p \in 1..synced[c]
               PROVE  server[p].id \in IdsIn(c, tracking[c])
    BY DEF SyncedIsTracked
  <2>1. Covers(c, 1..synced[c], tracking[c])
    BY DEF TrackedInv, HasInv
  <2> QED
    BY <2>1 DEF Covers, IdsIn
<1> QED
  BY <1>1, <1>2, TrackedInit, TypeIsInvariant, PTL DEF Spec
=============================================================================
