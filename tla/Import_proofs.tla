--------------------------- MODULE Import_proofs ---------------------------
(***************************************************************************)
(* Proofs about Import: what topoOrder returns for every list of tables,   *)
(* and the invariants of the import.                                       *)
(***************************************************************************)
EXTENDS Import, FiniteSetTheorems, NaturalsInduction, WellFoundedInduction, SequenceTheorems, TLAPS

-----------------------------------------------------------------------------
(***************************************************************************)
(* Induction and recursion up to a number.                                 *)
(***************************************************************************)

\* Induction up to n: what holds at 0 and goes on to the next number holds for all.
LEMMA SetInduction ==
  ASSUME NEW n \in Nat, NEW T,
         0 \in T, \A i \in 1..n : i - 1 \in T => i \in T
  PROVE  0..n \subseteq T
<1> DEFINE Bad == {i \in 0..n : i \notin T}
           Less == {e \in Nat \X Nat : e[1] < e[2]}
<1> SUFFICES ASSUME Bad # {} PROVE FALSE
  OBVIOUS
<1>1. IsWellFoundedOn(Less, Nat)
  BY NatLessThanWellFounded DEF OpToRel
<1>2. PICK m \in Bad : \A k \in Bad : ~(k < m)
  <2>1. \E m \in Bad : \A k \in Bad : ~(<<k, m>> \in Less)
    BY <1>1, WFMin
  <2>2. ASSUME NEW k \in Nat, NEW m \in Nat, k < m PROVE <<k, m>> \in Less
    <3>1. <<k, m>> \in Nat \X Nat /\ <<k, m>>[1] < <<k, m>>[2]
      BY <2>2
    <3> QED
      BY <3>1
  <2>3. \A k \in Bad : k \in Nat
    OBVIOUS
  <2> QED
    BY <2>1, <2>2, <2>3, Zenon
<1>3. m # 0 /\ m \in 1..n
  OBVIOUS
<1>4. m - 1 \in 0..n /\ m - 1 \notin Bad
  BY <1>2, <1>3
<1> QED
  BY <1>3, <1>4

\* A function may be defined by recursion on its bounded argument.
LEMMA Recursion ==
  ASSUME NEW S, NEW x \in S, NEW n \in Nat, NEW step \in [1..n -> [S -> S]]
  PROVE  \E f \in [0..n -> S] : f[0] = x /\ \A i \in 1..n : f[i] = step[i][f[i - 1]]
<1> DEFINE Good(m, f) == f[0] = x /\ \A i \in 1..m : f[i] = step[i][f[i - 1]]
           T == {m \in 0..n : \E f \in [0..m -> S] : Good(m, f)}
<1>1. 0 \in T
  <2> DEFINE f == [i \in 0..0 |-> x]
  <2>1. f \in [0..0 -> S] /\ Good(0, f)
    OBVIOUS
  <2> HIDE DEF f, Good
  <2> QED
    BY <2>1
<1>2. ASSUME NEW i \in 1..n, i - 1 \in T PROVE i \in T
  <2>1. PICK f \in [0..i - 1 -> S] : Good(i - 1, f)
    BY <1>2
  <2>2. i - 1 \in 0..i - 1 /\ f[i - 1] \in S /\ step[i][f[i - 1]] \in S
    OBVIOUS
  <2> DEFINE g == [k \in 0..i |-> IF k = i THEN step[i][f[i - 1]] ELSE f[k]]
  <2>3. g \in [0..i -> S]
    BY <2>2
  <2>4. g[0] = x /\ g[i] = step[i][f[i - 1]] /\ \A k \in 0..i - 1 : g[k] = f[k]
    BY <2>1
  <2>5. \A k \in 1..i : g[k] = step[k][g[k - 1]]
    <3> SUFFICES ASSUME NEW k \in 1..i PROVE g[k] = step[k][g[k - 1]]
      OBVIOUS
    <3> HIDE DEF g
    <3>1. k - 1 \in 0..i - 1 /\ g[k - 1] = f[k - 1]
      BY <2>4
    <3>2. CASE k = i
      BY <2>4, <3>1, <3>2
    <3>3. CASE k # i
      <4>1. k \in 1..i - 1 /\ k \in 0..i - 1
        BY <3>3
      <4> QED
        BY <2>1, <2>4, <3>1, <4>1
    <3> QED
      BY <3>2, <3>3
  <2>6. Good(i, g)
    BY <2>4, <2>5
  <2> HIDE DEF g, Good
  <2> QED
    BY <2>3, <2>6
<1>3. n \in T
  <2> HIDE DEF T
  <2>1. 0..n \subseteq T
    BY <1>1, <1>2, SetInduction
  <2> QED
    BY <2>1
<1> QED
  BY <1>3

-----------------------------------------------------------------------------
(***************************************************************************)
(* The entries of a sequence that are in a set.                            *)
(***************************************************************************)

\* Those adds them one after the other.
Picks(f, A, s, S) ==
  /\ f \in [0..Len(s) -> Seq(A)]
  /\ f[0] = <<>> /\ Those(s, S) = f[Len(s)]
  /\ \A i \in 1..Len(s) : f[i] = IF s[i] \in S THEN Append(f[i - 1], s[i]) ELSE f[i - 1]

LEMMA ThoseSteps ==
  ASSUME NEW A, NEW s \in Seq(A), NEW S
  PROVE  \E f : Picks(f, A, s, S)
<1> DEFINE n == Len(s)
           step == [i \in 1..n |-> [t \in Seq(A) |-> IF s[i] \in S THEN Append(t, s[i]) ELSE t]]
           Rec(g) == [i \in 0..n |-> IF i = 0 THEN <<>>
                                     ELSE IF s[i] \in S THEN Append(g[i - 1], s[i])
                                     ELSE g[i - 1]]
           F == CHOOSE g : g = Rec(g)
<1>1. n \in Nat /\ \A i \in 1..n : s[i] \in A
  OBVIOUS
<1>2. step \in [1..n -> [Seq(A) -> Seq(A)]] /\ <<>> \in Seq(A)
  <2>1. ASSUME NEW i \in 1..n, NEW t \in Seq(A)
        PROVE  (IF s[i] \in S THEN Append(t, s[i]) ELSE t) \in Seq(A)
    BY <1>1, AppendProperties
  <2> HIDE DEF n
  <2> QED
    BY <2>1
<1>3. PICK f \in [0..n -> Seq(A)] : f[0] = <<>> /\ \A i \in 1..n : f[i] = step[i][f[i - 1]]
  <2> DEFINE Q == Seq(A)
             e0 == <<>>
  <2>1. n \in Nat /\ step \in [1..n -> [Q -> Q]] /\ e0 \in Q
    BY <1>1, <1>2
  <2> HIDE DEF step, n, Q, e0
  <2>2. \E f \in [0..n -> Q] : f[0] = e0 /\ \A i \in 1..n : f[i] = step[i][f[i - 1]]
    BY <2>1, Recursion
  <2> QED
    BY <2>2 DEF Q, e0
<1>4. \A i \in 1..n : f[i] = IF s[i] \in S THEN Append(f[i - 1], s[i]) ELSE f[i - 1]
  <2> SUFFICES ASSUME NEW i \in 1..n
               PROVE  f[i] = IF s[i] \in S THEN Append(f[i - 1], s[i]) ELSE f[i - 1]
    OBVIOUS
  <2>1. i - 1 \in 0..n
    BY <1>1
  <2>2. f[i - 1] \in Seq(A)
    <3> HIDE DEF n
    <3> QED
      BY <2>1
  <2>3. step[i][f[i - 1]] = IF s[i] \in S THEN Append(f[i - 1], s[i]) ELSE f[i - 1]
    <3> HIDE DEF n
    <3> QED
      BY <2>2
  <2> QED
    BY <1>3, <2>3
<1>5. f = Rec(f)
  <2> HIDE DEF n
  <2>1. \A i \in 0..n : f[i] = Rec(f)[i]
    <3> SUFFICES ASSUME NEW i \in 0..n PROVE f[i] = Rec(f)[i]
      OBVIOUS
    <3>1. CASE i = 0
      BY <1>1, <1>3, <3>1
    <3>2. CASE i # 0
      <4>1. i \in 1..n
        BY <1>1, <3>2
      <4> QED
        BY <1>4, <3>2, <4>1
    <3> QED
      BY <3>1, <3>2
  <2> QED
    BY <1>3, <2>1
<1>6. F = Rec(F)
  <2> HIDE DEF Rec
  <2> QED
    BY <1>5
<1>7. 0..n \subseteq {i \in 0..n : F[i] = f[i]}
  <2> DEFINE T == {i \in 0..n : F[i] = f[i]}
  <2> HIDE DEF F, n
  <2>1. 0 \in T
    BY <1>1, <1>3, <1>6
  <2>2. ASSUME NEW i \in 1..n, i - 1 \in T PROVE i \in T
    <3>1. i \in 0..n /\ i # 0 /\ F[i - 1] = f[i - 1]
      BY <1>1, <2>2
    <3>2. F[i] = IF s[i] \in S THEN Append(F[i - 1], s[i]) ELSE F[i - 1]
      BY <1>6, <3>1
    <3> QED
      BY <1>4, <3>1, <3>2
  <2> HIDE DEF T
  <2>3. 0..n \subseteq T
    BY <1>1, <2>1, <2>2, SetInduction
  <2> QED
    BY <2>3 DEF T
<1>8. Those(s, S) = F[n]
  BY DEF Those
<1>9. Those(s, S) = f[n]
  <2> HIDE DEF F, n
  <2> QED
    BY <1>1, <1>7, <1>8
<1> QED
  <2>1. Picks(f, A, s, S)
    BY <1>3, <1>4, <1>9 DEF Picks
  <2> QED
    BY <2>1

\* They are the entries at some places of the sequence, in order and all of them.
Places(e, r, m, s, S) ==
  /\ e \in [1..Len(r) -> 1..m]
  /\ \A i, j \in 1..Len(r) : i < j => e[i] < e[j]
  /\ \A i \in 1..Len(r) : r[i] = s[e[i]] /\ s[e[i]] \in S
  /\ \A k \in 1..m : s[k] \in S => \E i \in 1..Len(r) : e[i] = k

LEMMA ThosePlaces ==
  ASSUME NEW A, NEW s \in Seq(A), NEW S
  PROVE  Those(s, S) \in Seq(A) /\ \E e : Places(e, Those(s, S), Len(s), s, S)
<1> DEFINE n == Len(s)
<1>0. PICK f : Picks(f, A, s, S)
  BY ThoseSteps
<1>2. /\ f \in [0..n -> Seq(A)] /\ f[0] = <<>> /\ Those(s, S) = f[n]
      /\ \A i \in 1..n : f[i] = IF s[i] \in S THEN Append(f[i - 1], s[i]) ELSE f[i - 1]
  BY <1>0 DEF Picks
<1>1. n \in Nat /\ \A i \in 1..n : s[i] \in A
  OBVIOUS
<1> DEFINE T == {m \in 0..n : \E e : Places(e, f[m], m, s, S)}
<1> HIDE DEF n
<1>3. 0 \in T
  <2>1. Len(f[0]) = 0 /\ 0 \in 0..n
    BY <1>1, <1>2
  <2>2. [i \in 1..0 |-> i] \in [1..0 -> 1..0]
    OBVIOUS
  <2>3. Places([i \in 1..0 |-> i], f[0], 0, s, S)
    BY <2>1, <2>2 DEF Places
  <2> QED
    BY <2>1, <2>3
<1>4. ASSUME NEW m \in 1..n, m - 1 \in T PROVE m \in T
  <2>1. PICK e : Places(e, f[m - 1], m - 1, s, S)
    BY <1>4
  <2> DEFINE r == f[m - 1]
             N == Len(r)
  <2>2. /\ m \in 0..n /\ m \in Nat /\ m - 1 \in 0..n /\ s[m] \in A
        /\ r \in Seq(A) /\ N \in Nat
    BY <1>1, <1>2
  <2>3. /\ e \in [1..N -> 1..m - 1]
        /\ \A i, j \in 1..N : i < j => e[i] < e[j]
        /\ \A i \in 1..N : r[i] = s[e[i]] /\ s[e[i]] \in S
        /\ \A k \in 1..m - 1 : s[k] \in S => \E i \in 1..N : e[i] = k
    BY <2>1 DEF Places
  <2>4. CASE s[m] \in S
    <3> DEFINE q == Append(r, s[m])
               g == [i \in 1..N + 1 |-> IF i = N + 1 THEN m ELSE e[i]]
    <3>1. f[m] = q
      BY <1>2, <2>4
    <3>2. Len(q) = N + 1 /\ q[N + 1] = s[m] /\ \A i \in 1..N : q[i] = r[i]
      BY <2>2, AppendProperties
    <3>3. g[N + 1] = m /\ \A i \in 1..N : g[i] = e[i] /\ e[i] \in 1..m - 1
      <4>1. N + 1 \in 1..N + 1 /\ \A i \in 1..N : i \in 1..N + 1 /\ i # N + 1
        BY <2>2
      <4>2. \A i \in 1..N : e[i] \in 1..m - 1
        BY <2>3
      <4> HIDE DEF N
      <4> QED
        BY <4>1, <4>2
    <3> HIDE DEF N, r, q
    <3>4. g \in [1..N + 1 -> 1..m]
      <4>1. m \in 1..m /\ 1..m - 1 \subseteq 1..m
        BY <2>2
      <4>2. \A i \in 1..N + 1 : i # N + 1 => i \in 1..N
        BY <2>2
      <4>3. \A i \in 1..N + 1 : (IF i = N + 1 THEN m ELSE e[i]) \in 1..m
        BY <2>3, <4>1, <4>2
      <4> QED
        BY <4>3
    <3> HIDE DEF g
    <3>5. \A i \in 1..N + 1 : i = N + 1 \/ i \in 1..N
      BY <2>2
    <3>6. ASSUME NEW i \in 1..N + 1, NEW j \in 1..N + 1, i < j PROVE g[i] < g[j]
      <4>1. i \in 1..N
        BY <2>2, <3>6
      <4>2. CASE j = N + 1
        BY <2>2, <3>3, <4>1, <4>2
      <4>3. CASE j \in 1..N
        BY <2>3, <3>3, <3>6, <4>1, <4>3
      <4> QED
        BY <3>5, <4>2, <4>3
    <3>7. ASSUME NEW i \in 1..N + 1 PROVE q[i] = s[g[i]] /\ s[g[i]] \in S
      <4>1. CASE i = N + 1
        BY <2>4, <3>2, <3>3, <4>1
      <4>2. CASE i \in 1..N
        BY <2>3, <3>2, <3>3, <4>2
      <4> QED
        BY <3>5, <4>1, <4>2
    <3>8. ASSUME NEW k \in 1..m, s[k] \in S PROVE \E i \in 1..N + 1 : g[i] = k
      <4>1. CASE k = m
        <5>1. N + 1 \in 1..N + 1
          BY <2>2
        <5> QED
          BY <3>3, <4>1, <5>1
      <4>2. CASE k # m
        <5>1. k \in 1..m - 1
          BY <2>2, <4>2
        <5>2. PICK i \in 1..N : e[i] = k
          BY <2>3, <3>8, <5>1
        <5>3. i \in 1..N + 1
          BY <2>2
        <5> QED
          BY <3>3, <5>2, <5>3
      <4> QED
        BY <4>1, <4>2
    <3>9. Places(g, q, m, s, S)
      BY <3>2, <3>4, <3>6, <3>7, <3>8 DEF Places
    <3> QED
      BY <2>2, <3>1, <3>9
  <2>5. CASE s[m] \notin S
    <3>1. f[m] = r
      BY <1>2, <2>5
    <3> HIDE DEF N
    <3>2. e \in [1..N -> 1..m]
      <4>1. \A i \in 1..N : e[i] \in 1..m
        BY <2>2, <2>3
      <4> QED
        BY <2>3, <4>1
    <3>3. ASSUME NEW k \in 1..m, s[k] \in S PROVE \E i \in 1..N : e[i] = k
      <4>1. k \in 1..m - 1
        BY <2>2, <2>5, <3>3
      <4> QED
        BY <2>3, <3>3, <4>1
    <3>4. Places(e, r, m, s, S)
      BY <2>3, <3>2, <3>3 DEF N, Places
    <3> HIDE DEF r
    <3> QED
      BY <2>2, <3>1, <3>4
  <2> QED
    BY <2>4, <2>5
<1>5. n \in T
  <2> HIDE DEF T
  <2>1. 0..n \subseteq T
    BY <1>1, <1>3, <1>4, SetInduction
  <2> QED
    BY <1>1, <2>1
<1>6. Those(s, S) \in Seq(A)
  BY <1>1, <1>2
<1> QED
  BY <1>2, <1>5, <1>6 DEF n

\* They keep their order, they are the ones of the sequence in the set, and
\* they are different when those of the sequence are.
LEMMA ThoseOf ==
  ASSUME NEW A, NEW s \in Seq(A), NEW S
  PROVE  /\ Those(s, S) \in Seq(A)
         /\ Range(Those(s, S)) = Range(s) \cap S
         /\ IsInjective(s) => IsInjective(Those(s, S))
         /\ \A i, j \in 1..Len(Those(s, S)) : i < j =>
              \E k, l \in 1..Len(s) : k < l /\ s[k] = Those(s, S)[i] /\ s[l] = Those(s, S)[j]
<1> DEFINE r == Those(s, S)
<1>1. r \in Seq(A)
  BY ThosePlaces
<1>0. PICK e : Places(e, r, Len(s), s, S)
  BY ThosePlaces
<1>2. /\ e \in [1..Len(r) -> 1..Len(s)]
      /\ \A i, j \in 1..Len(r) : i < j => e[i] < e[j]
      /\ \A i \in 1..Len(r) : r[i] = s[e[i]] /\ s[e[i]] \in S
      /\ \A k \in 1..Len(s) : s[k] \in S => \E i \in 1..Len(r) : e[i] = k
  BY <1>0 DEF Places
<1> HIDE DEF r
<1>3. /\ DOMAIN r = 1..Len(r) /\ DOMAIN s = 1..Len(s) /\ Len(r) \in Nat /\ Len(s) \in Nat
      /\ \A i \in 1..Len(r) : e[i] \in 1..Len(s)
  BY <1>1, <1>2
<1>4. Range(r) = Range(s) \cap S
  <2>1. \A x \in Range(r) : x \in Range(s) \cap S
    BY <1>2, <1>3 DEF Range
  <2>2. \A x \in Range(s) \cap S : x \in Range(r)
    <3> SUFFICES ASSUME NEW k \in 1..Len(s), s[k] \in S PROVE s[k] \in Range(r)
      BY <1>3 DEF Range
    <3>1. PICK i \in 1..Len(r) : e[i] = k
      BY <1>2
    <3>2. s[k] = r[i]
      BY <1>2, <3>1
    <3> QED
      BY <1>3, <3>2 DEF Range
  <2> QED
    BY <2>1, <2>2
<1>5. ASSUME IsInjective(s) PROVE IsInjective(r)
  <2> SUFFICES ASSUME NEW i \in 1..Len(r), NEW j \in 1..Len(r), r[i] = r[j], i # j PROVE FALSE
    BY <1>3 DEF IsInjective
  <2>1. e[i] = e[j]
    BY <1>2, <1>3, <1>5 DEF IsInjective
  <2>2. i < j \/ j < i
    OBVIOUS
  <2> QED
    BY <1>2, <1>3, <2>1, <2>2
<1>6. ASSUME NEW i \in 1..Len(r), NEW j \in 1..Len(r), i < j
      PROVE  \E k, l \in 1..Len(s) : k < l /\ s[k] = r[i] /\ s[l] = r[j]
  BY <1>2, <1>3, <1>6
<1> QED
  BY <1>1, <1>4, <1>5, <1>6 DEF r

-----------------------------------------------------------------------------
(***************************************************************************)
(* Sequences of different entries.                                         *)
(***************************************************************************)

LEMMA AppendOf ==
  ASSUME NEW A, NEW s \in Seq(A), NEW x \in A
  PROVE  /\ Append(s, x) \in Seq(A) /\ Range(Append(s, x)) = Range(s) \cup {x}
         /\ IsInjective(s) /\ x \notin Range(s) => IsInjective(Append(s, x))
<1> DEFINE r == Append(s, x)
           n == Len(s)
<1>1. /\ r \in Seq(A) /\ Len(r) = n + 1 /\ n \in Nat /\ r[n + 1] = x
      /\ \A i \in 1..n : r[i] = s[i]
      /\ DOMAIN r = 1..n + 1 /\ DOMAIN s = 1..n
  <2>1. /\ r \in Seq(A) /\ Len(r) = n + 1 /\ r[n + 1] = x /\ \A i \in 1..n : r[i] = s[i]
    BY AppendProperties
  <2> HIDE DEF r
  <2> QED
    BY <2>1
<1> HIDE DEF r, n
<1>2. \A i \in 1..n + 1 : i = n + 1 \/ i \in 1..n
  BY <1>1
<1>3. n + 1 \in 1..n + 1 /\ \A i \in 1..n : i \in 1..n + 1
  BY <1>1
<1>4. Range(r) = Range(s) \cup {x}
  <2>1. \A y \in Range(r) : y \in Range(s) \cup {x}
    BY <1>1, <1>2 DEF Range
  <2>2. \A y \in Range(s) \cup {x} : y \in Range(r)
    BY <1>1, <1>3 DEF Range
  <2> QED
    BY <2>1, <2>2
<1>5. ASSUME IsInjective(s), x \notin Range(s) PROVE IsInjective(r)
  <2> SUFFICES ASSUME NEW i \in 1..n + 1, NEW j \in 1..n + 1, r[i] = r[j] PROVE i = j
    BY <1>1 DEF IsInjective
  <2>1. \A k \in 1..n : r[k] # x
    BY <1>1, <1>5 DEF Range
  <2>2. CASE i \in 1..n /\ j \in 1..n
    BY <1>1, <1>5, <2>2 DEF IsInjective
  <2> QED
    BY <1>1, <1>2, <2>1, <2>2
<1> QED
  BY <1>1, <1>4, <1>5 DEF r

LEMMA TailOf ==
  ASSUME NEW A, NEW s \in Seq(A), s # <<>>
  PROVE  /\ Head(s) \in A /\ Tail(s) \in Seq(A)
         /\ Range(s) = {Head(s)} \cup Range(Tail(s))
         /\ IsInjective(s) => IsInjective(Tail(s)) /\ Head(s) \notin Range(Tail(s))
<1> DEFINE r == Tail(s)
           n == Len(s)
<1>1. /\ Head(s) \in A /\ Head(s) = s[1] /\ r \in Seq(A) /\ n \in Nat /\ n > 0 /\ Len(r) = n - 1
      /\ \A i \in 1..n - 1 : r[i] = s[i + 1]
      /\ DOMAIN r = 1..n - 1 /\ DOMAIN s = 1..n
  <2>1. /\ Head(s) \in A /\ Head(s) = s[1] /\ r \in Seq(A) /\ Len(r) = n - 1
        /\ \A i \in 1..Len(r) : r[i] = s[i + 1]
    BY HeadTailProperties
  <2>2. n \in Nat /\ n > 0 /\ DOMAIN s = 1..n
    BY EmptySeq
  <2> HIDE DEF r
  <2> QED
    BY <2>1, <2>2
<1> HIDE DEF r, n
<1>2. 1 \in 1..n /\ \A i \in 1..n - 1 : i + 1 \in 1..n /\ i + 1 # 1
  BY <1>1
<1>3. \A i \in 1..n : i = 1 \/ (i - 1 \in 1..n - 1 /\ (i - 1) + 1 = i)
  BY <1>1
<1>4. Range(s) = {s[1]} \cup Range(r)
  <2>1. \A y \in Range(r) : y \in Range(s)
    BY <1>1, <1>2 DEF Range
  <2>2. s[1] \in Range(s)
    BY <1>1, <1>2 DEF Range
  <2>3. \A y \in Range(s) : y = s[1] \/ y \in Range(r)
    <3> SUFFICES ASSUME NEW i \in 1..n, i # 1 PROVE s[i] \in Range(r)
      BY <1>1 DEF Range
    <3>1. i - 1 \in 1..n - 1 /\ r[i - 1] = s[i]
      BY <1>1, <1>3
    <3> QED
      BY <1>1, <3>1 DEF Range
  <2> QED
    BY <2>1, <2>2, <2>3
<1>5. ASSUME IsInjective(s) PROVE IsInjective(r) /\ s[1] \notin Range(r)
  <2>1. ASSUME NEW i \in 1..n - 1, NEW j \in 1..n - 1, r[i] = r[j] PROVE i = j
    <3>1. i + 1 \in DOMAIN s /\ j + 1 \in DOMAIN s /\ s[i + 1] = s[j + 1]
      BY <1>1, <1>2, <2>1
    <3>2. i + 1 = j + 1
      BY <1>5, <3>1 DEF IsInjective
    <3> QED
      BY <3>2
  <2>2. ASSUME NEW i \in 1..n - 1 PROVE r[i] # s[1]
    BY <1>1, <1>2, <1>5 DEF IsInjective
  <2> QED
    BY <1>1, <2>1, <2>2 DEF IsInjective, Range
<1> QED
  BY <1>1, <1>4, <1>5 DEF r

LEMMA ConcatOf ==
  ASSUME NEW A, NEW s \in Seq(A), NEW t \in Seq(A)
  PROVE  /\ s \o t \in Seq(A) /\ Range(s \o t) = Range(s) \cup Range(t)
         /\ IsInjective(s) /\ IsInjective(t) /\ Range(s) \cap Range(t) = {} => IsInjective(s \o t)
<1> DEFINE r == s \o t
           n == Len(s)
           m == Len(t)
<1>1. /\ r \in Seq(A) /\ Len(r) = n + m /\ n \in Nat /\ m \in Nat
      /\ \A i \in 1..n + m : r[i] = IF i <= n THEN s[i] ELSE t[i - n]
      /\ DOMAIN r = 1..n + m /\ DOMAIN s = 1..n /\ DOMAIN t = 1..m
  <2>1. /\ r \in Seq(A) /\ Len(r) = n + m
        /\ \A i \in 1..n + m : r[i] = IF i <= n THEN s[i] ELSE t[i - n]
    BY ConcatProperties
  <2>2. n \in Nat /\ m \in Nat /\ DOMAIN s = 1..n /\ DOMAIN t = 1..m
    OBVIOUS
  <2> HIDE DEF r
  <2> QED
    BY <2>1, <2>2
<1> HIDE DEF r, n, m
<1>2. \A i \in 1..n + m : \/ i \in 1..n /\ r[i] = s[i]
                          \/ i - n \in 1..m /\ i \notin 1..n /\ r[i] = t[i - n]
  BY <1>1
<1>3. /\ \A i \in 1..n : i \in 1..n + m /\ r[i] = s[i]
      /\ \A i \in 1..m : i + n \in 1..n + m /\ r[i + n] = t[i]
  <2>1. \A i \in 1..m : i + n \in 1..n + m /\ ~(i + n <= n) /\ (i + n) - n = i
    BY <1>1
  <2>2. \A i \in 1..n : i \in 1..n + m /\ i <= n
    BY <1>1
  <2> QED
    BY <1>1, <2>1, <2>2
<1>4. Range(r) = Range(s) \cup Range(t)
  <2>1. \A y \in Range(r) : y \in Range(s) \cup Range(t)
    BY <1>1, <1>2 DEF Range
  <2>2. \A y \in Range(s) : y \in Range(r)
    BY <1>1, <1>3 DEF Range
  <2>3. \A y \in Range(t) : y \in Range(r)
    <3> SUFFICES ASSUME NEW i \in 1..m PROVE t[i] \in Range(r)
      BY <1>1 DEF Range
    <3>1. i + n \in DOMAIN r /\ r[i + n] = t[i]
      BY <1>1, <1>3
    <3> QED
      BY <3>1 DEF Range
  <2> QED
    BY <2>1, <2>2, <2>3
<1>5. ASSUME IsInjective(s), IsInjective(t), Range(s) \cap Range(t) = {} PROVE IsInjective(r)
  <2> SUFFICES ASSUME NEW i \in 1..n + m, NEW j \in 1..n + m, r[i] = r[j] PROVE i = j
    BY <1>1 DEF IsInjective
  <2>1. CASE i \in 1..n /\ j \in 1..n
    BY <1>1, <1>3, <1>5, <2>1 DEF IsInjective
  <2>2. CASE i \notin 1..n /\ j \notin 1..n
    <3>1. i - n \in DOMAIN t /\ j - n \in DOMAIN t /\ t[i - n] = t[j - n]
      BY <1>1, <1>2, <2>2
    <3>2. i - n = j - n
      BY <1>5, <3>1 DEF IsInjective
    <3> QED
      BY <1>1, <3>2
  <2>3. ASSUME NEW k \in 1..n + m
        PROVE  /\ k \in 1..n => r[k] \in Range(s)
               /\ k \notin 1..n => r[k] \in Range(t)
    <3>1. CASE k \in 1..n
      BY <1>1, <1>3, <3>1 DEF Range
    <3>2. CASE k \notin 1..n
      <4>1. k - n \in DOMAIN t /\ r[k] = t[k - n]
        BY <1>1, <1>2, <3>2
      <4> QED
        BY <3>2, <4>1 DEF Range
    <3> QED
      BY <3>1, <3>2
  <2>4. CASE (i \in 1..n) # (j \in 1..n)
    BY <1>5, <2>3, <2>4
  <2> QED
    BY <2>1, <2>2, <2>4
<1> QED
  BY <1>1, <1>4, <1>5 DEF r

-----------------------------------------------------------------------------
(***************************************************************************)
(* The order of the tables.                                                *)
(***************************************************************************)
LoopStates == [done : Seq(Table), queue : Seq(Table)]
Begun(tables) == [done |-> <<>>, queue |-> Seeds(tables)]

\* The queue has the tables that could be imported after those of done and are
\* not among them; i turns took i tables off it, unless it was empty before.
LoopInv(s, tables, i) ==
  /\ s \in LoopStates
  /\ Range(s.done) \cup Range(s.queue) =
       {t \in Range(tables) : Parents(t, Range(tables)) \subseteq Range(s.done)}
  /\ IsInjective(s.done) /\ IsInjective(s.queue) /\ Range(s.done) \cap Range(s.queue) = {}
  /\ \A k, l \in 1..Len(s.done) : k < l => s.done[l] \notin Parents(s.done[k], Range(tables))
  /\ s.queue = <<>> \/ Len(s.done) = i

\* What Freed adds to the queue.
LEMMA FreedOf ==
  ASSUME NEW n, NEW done, NEW tables \in Seq(Table), IsInjective(tables)
  PROVE  /\ Freed(n, done, tables) \in Seq(Table) /\ IsInjective(Freed(n, done, tables))
         /\ Range(Freed(n, done, tables)) =
              {c \in Range(tables) \ Range(done) :
                 /\ n \in Parents(c, Range(tables))
                 /\ Parents(c, Range(tables)) \subseteq Range(done)}
<1> DEFINE C == {c \in Range(tables) \ Range(done) :
                   /\ n \in Parents(c, Range(tables))
                   /\ Parents(c, Range(tables)) \subseteq Range(done)}
<1>1. Freed(n, done, tables) = Those(tables, C)
  BY DEF Freed
<1>2. C \subseteq Range(tables)
  OBVIOUS
<1> HIDE DEF C
<1>3. /\ Those(tables, C) \in Seq(Table) /\ Range(Those(tables, C)) = Range(tables) \cap C
      /\ IsInjective(Those(tables, C))
  BY ThoseOf
<1> QED
  BY <1>1, <1>2, <1>3 DEF C

LEMMA TurnType ==
  ASSUME NEW tables \in Seq(Table), IsInjective(tables), NEW s \in LoopStates
  PROVE  Turn(s, tables) \in LoopStates
<1>1. s.done \in Seq(Table) /\ s.queue \in Seq(Table)
  BY DEF LoopStates
<1>2. CASE s.queue = <<>>
  BY <1>2 DEF Turn
<1>3. CASE s.queue # <<>>
  <2> DEFINE n    == Head(s.queue)
             done == Append(s.done, n)
             f    == Freed(n, done, tables)
  <2>1. n \in Table /\ Tail(s.queue) \in Seq(Table) /\ f \in Seq(Table)
    BY <1>1, <1>3, TailOf, FreedOf
  <2>2. done \in Seq(Table) /\ Tail(s.queue) \o f \in Seq(Table)
    <3> HIDE DEF n, f
    <3> QED
      BY <1>1, <2>1, AppendOf, ConcatOf
  <2>3. Turn(s, tables) = [done |-> done, queue |-> Tail(s.queue) \o f]
    BY <1>3 DEF Turn
  <2> HIDE DEF n, done, f
  <2> QED
    BY <2>2, <2>3 DEF LoopStates
<1> QED
  BY <1>2, <1>3

LEMMA LoopBegins ==
  ASSUME NEW tables \in Seq(Table), IsInjective(tables)
  PROVE  LoopInv(Begun(tables), tables, 0)
<1> DEFINE S == {t \in Range(tables) : Parents(t, Range(tables)) = {}}
           q == Seeds(tables)
<1>1. S \subseteq Range(tables)
  OBVIOUS
<1>2. q \in Seq(Table) /\ Range(q) = S /\ IsInjective(q)
  <2>1. q = Those(tables, S)
    BY DEF Seeds
  <2> HIDE DEF S, q
  <2>2. /\ Those(tables, S) \in Seq(Table) /\ Range(Those(tables, S)) = Range(tables) \cap S
        /\ IsInjective(Those(tables, S))
    BY ThoseOf
  <2> QED
    BY <1>1, <2>1, <2>2
<1> DEFINE e == <<>>
           b == Begun(tables)
<1>3. e \in Seq(Table) /\ Len(e) = 0 /\ DOMAIN e = {} /\ Range(e) = {} /\ IsInjective(e)
  BY DEF Range, IsInjective
<1>4. b.done = e /\ b.queue = q /\ b \in LoopStates
  BY <1>2 DEF Begun, LoopStates
<1>5. S = {t \in Range(tables) : Parents(t, Range(tables)) \subseteq {}}
  OBVIOUS
<1> HIDE DEF S, q, e, b
<1>6. LoopInv(b, tables, 0)
  BY <1>2, <1>3, <1>4, <1>5 DEF LoopInv
<1> QED
  BY <1>6 DEF b

LEMMA LoopGoesOn ==
  ASSUME NEW tables \in Seq(Table), IsInjective(tables), NEW i \in Nat,
         NEW s, LoopInv(s, tables, i)
  PROVE  LoopInv(Turn(s, tables), tables, i + 1)
<1> DEFINE R    == Range(tables)
           D    == Range(s.done)
           Q    == Range(s.queue)
           P(t) == Parents(t, R)
<1>1. /\ s \in LoopStates /\ s.done \in Seq(Table) /\ s.queue \in Seq(Table)
      /\ D \cup Q = {t \in R : P(t) \subseteq D}
      /\ IsInjective(s.done) /\ IsInjective(s.queue) /\ D \cap Q = {}
      /\ \A k, l \in 1..Len(s.done) : k < l => s.done[l] \notin P(s.done[k])
      /\ s.queue = <<>> \/ Len(s.done) = i
  BY DEF LoopInv, LoopStates
<1>2. CASE s.queue = <<>>
  <2>1. Turn(s, tables) = s
    BY <1>2 DEF Turn
  <2> QED
    BY <1>1, <1>2, <2>1 DEF LoopInv
<1>3. CASE s.queue # <<>>
  <2> DEFINE n    == Head(s.queue)
             rest == Tail(s.queue)
             done == Append(s.done, n)
             f    == Freed(n, done, tables)
             q    == rest \o f
             t1   == Turn(s, tables)
  <2>1. /\ n \in Table /\ rest \in Seq(Table) /\ Q = {n} \cup Range(rest)
        /\ IsInjective(rest) /\ n \notin Range(rest)
    BY <1>1, <1>3, TailOf
  <2>2. /\ f \in Seq(Table) /\ IsInjective(f)
        /\ Range(f) = {c \in R \ Range(done) : n \in P(c) /\ P(c) \subseteq Range(done)}
    BY FreedOf
  <2>3. t1 = [done |-> done, queue |-> q]
    BY <1>3 DEF Turn
  <2>4. n \notin D /\ n \in R /\ P(n) \subseteq D /\ Range(rest) \subseteq Q
    BY <1>1, <2>1
  <2>5. done \in Seq(Table) /\ Range(done) = D \cup {n} /\ IsInjective(done)
    <3> HIDE DEF n
    <3> QED
      BY <1>1, <2>1, <2>4, AppendOf
  <2>6. /\ Len(s.done) \in Nat /\ Len(done) = Len(s.done) + 1 /\ done[Len(s.done) + 1] = n
        /\ \A k \in 1..Len(s.done) : done[k] = s.done[k] /\ s.done[k] \in D
    <3>1. \A k \in 1..Len(s.done) : s.done[k] \in D
      BY <1>1 DEF Range
    <3> HIDE DEF n, D
    <3> QED
      BY <1>1, <2>1, <3>1, AppendProperties
  <2> HIDE DEF n, rest, done, f
  <2>7. Range(rest) \cap Range(f) = {}
    <3> SUFFICES ASSUME NEW c \in Range(rest), c \in Range(f) PROVE FALSE
      OBVIOUS
    <3>1. c \in R /\ P(c) \subseteq D
      BY <1>1, <2>4
    <3>2. n \in P(c)
      BY <2>2
    <3> QED
      BY <2>4, <3>1, <3>2
  <2>8. q \in Seq(Table) /\ Range(q) = Range(rest) \cup Range(f) /\ IsInjective(q)
    BY <2>1, <2>2, <2>7, ConcatOf
  <2> HIDE DEF q
  <2>9. Range(done) \cap Range(q) = {}
    <3>1. \A c \in Range(rest) : c \notin D /\ c # n
      BY <1>1, <2>1, <2>4
    <3> QED
      BY <2>2, <2>5, <2>8, <3>1
  <2>10. Range(done) \cup Range(q) = {t \in R : P(t) \subseteq Range(done)}
    <3>1. ASSUME NEW t \in Range(done) \cup Range(q) PROVE t \in R /\ P(t) \subseteq Range(done)
      <4>1. CASE t \in D \cup Q
        BY <1>1, <2>5, <4>1
      <4>2. CASE t \in Range(f)
        BY <2>2, <4>2
      <4> QED
        BY <2>1, <2>5, <2>8, <4>1, <4>2
    <3>2. ASSUME NEW t \in R, P(t) \subseteq Range(done) PROVE t \in Range(done) \cup Range(q)
      <4>1. CASE P(t) \subseteq D
        <5>1. t \in D \cup Q
          BY <1>1, <4>1
        <5> QED
          BY <2>1, <2>5, <2>8, <5>1
      <4>2. CASE ~(P(t) \subseteq D)
        <5>1. n \in P(t)
          BY <2>5, <3>2, <4>2
        <5> QED
          BY <2>2, <2>8, <3>2, <5>1
      <4> QED
        BY <4>1, <4>2
    <3> QED
      BY <3>1, <3>2
  <2>11. ASSUME NEW k \in 1..Len(done), NEW l \in 1..Len(done), k < l
         PROVE  done[l] \notin P(done[k])
    <3>1. k \in 1..Len(s.done) /\ done[k] = s.done[k] /\ s.done[k] \in D
      BY <2>6, <2>11
    <3>2. CASE l \in 1..Len(s.done)
      BY <1>1, <2>6, <2>11, <3>1, <3>2
    <3>3. CASE l = Len(s.done) + 1
      <4>1. P(done[k]) \subseteq D
        BY <1>1, <3>1
      <4> QED
        BY <2>4, <2>6, <3>3, <4>1
    <3> QED
      BY <2>6, <3>2, <3>3
  <2>12. Len(done) = i + 1
    BY <1>1, <1>3, <2>6
  <2>13. t1 \in LoopStates /\ t1.done = done /\ t1.queue = q
    BY <2>3, <2>5, <2>8 DEF LoopStates
  <2> HIDE DEF t1
  <2>14. LoopInv(t1, tables, i + 1)
    BY <2>5, <2>8, <2>9, <2>10, <2>11, <2>12, <2>13 DEF LoopInv
  <2> QED
    BY <2>14 DEF t1
<1> QED
  BY <1>2, <1>3

\* The loop of TopoOrder is over when its turns are, with the queue empty.
LEMMA LoopEnds ==
  ASSUME NEW tables \in Seq(Table), IsInjective(tables)
  PROVE  \E s : /\ LoopInv(s, tables, Len(tables)) /\ s.queue = <<>>
                /\ TopoOrder(tables) =
                     s.done \o Those(tables, Range(tables) \ Range(s.done))
<1> DEFINE n    == Len(tables)
           LS   == LoopStates
           b    == Begun(tables)
           step == [i \in 1..n |-> [s \in LS |-> Turn(s, tables)]]
           Rec(g) == [i \in 0..n |-> IF i = 0 THEN Begun(tables) ELSE Turn(g[i - 1], tables)]
           F == CHOOSE g : g = Rec(g)
<1>1. n \in Nat
  OBVIOUS
<1>2. LoopInv(b, tables, 0) /\ b \in LS
  BY LoopBegins DEF LoopInv
<1>3. \A s \in LS : Turn(s, tables) \in LS
  BY TurnType
<1>4. n \in Nat /\ step \in [1..n -> [LS -> LS]] /\ b \in LS
  <2> HIDE DEF LS, b, n
  <2> QED
    BY <1>1, <1>2, <1>3
<1>5. PICK f \in [0..n -> LS] : f[0] = b /\ \A i \in 1..n : f[i] = step[i][f[i - 1]]
  <2> HIDE DEF LS, b, n, step
  <2> QED
    BY <1>4, Recursion
<1>6. \A i \in 1..n : i - 1 \in 0..n /\ i \in 0..n /\ f[i - 1] \in LS /\ f[i] = Turn(f[i - 1], tables)
  <2> SUFFICES ASSUME NEW i \in 1..n
               PROVE  /\ i - 1 \in 0..n /\ i \in 0..n
                      /\ f[i - 1] \in LS /\ f[i] = Turn(f[i - 1], tables)
    OBVIOUS
  <2> HIDE DEF LS, b, n
  <2>1. i - 1 \in 0..n /\ i \in 0..n
    BY <1>1
  <2>2. f[i - 1] \in LS
    BY <2>1
  <2>3. step[i][f[i - 1]] = Turn(f[i - 1], tables)
    BY <2>2
  <2> QED
    BY <1>5, <2>1, <2>2, <2>3
<1>7. f = Rec(f)
  <2> HIDE DEF LS, n
  <2>1. ASSUME NEW i \in 0..n PROVE f[i] = Rec(f)[i]
    <3>1. i = 0 \/ (i \in 1..n /\ i # 0)
      BY <1>1
    <3> QED
      BY <1>5, <1>6, <3>1
  <2> QED
    BY <1>5, <2>1
<1>8. F = Rec(F)
  <2> HIDE DEF Rec
  <2> QED
    BY <1>7
<1>9. 0..n \subseteq {i \in 0..n : F[i] = f[i] /\ LoopInv(f[i], tables, i)}
  <2> DEFINE T == {i \in 0..n : F[i] = f[i] /\ LoopInv(f[i], tables, i)}
  <2> HIDE DEF F, n, LS
  <2>1. 0 \in T
    BY <1>1, <1>2, <1>5, <1>8
  <2>2. ASSUME NEW i \in 1..n, i - 1 \in T PROVE i \in T
    <3>1. /\ i \in 0..n /\ i # 0 /\ i - 1 \in Nat /\ (i - 1) + 1 = i
          /\ F[i - 1] = f[i - 1] /\ LoopInv(f[i - 1], tables, i - 1)
      BY <1>1, <2>2
    <3>2. F[i] = Turn(F[i - 1], tables)
      BY <1>8, <3>1
    <3>3. LoopInv(Turn(f[i - 1], tables), tables, (i - 1) + 1)
      BY <3>1, LoopGoesOn
    <3> QED
      BY <1>6, <3>1, <3>2, <3>3
  <2> HIDE DEF T
  <2>3. 0..n \subseteq T
    BY <1>1, <2>1, <2>2, SetInduction
  <2> QED
    BY <2>3 DEF T
<1>10. F[n] = f[n] /\ LoopInv(f[n], tables, n)
  <2> HIDE DEF F, n
  <2> QED
    BY <1>1, <1>9
<1>11. TopoOrder(tables) = F[n].done \o Those(tables, Range(tables) \ Range(F[n].done))
  BY DEF TopoOrder, Begun
<1>12. f[n].queue = <<>>
  <2> SUFFICES ASSUME f[n].queue # <<>> PROVE FALSE
    OBVIOUS
  <2> DEFINE d == f[n].done
             q == f[n].queue
  <2>1. /\ d \in Seq(Table) /\ IsInjective(d) /\ Len(d) = n /\ q \in Seq(Table)
        /\ Range(d) \cup Range(q) \subseteq Range(tables) /\ Range(d) \cap Range(q) = {}
    BY <1>10 DEF LoopInv, LoopStates
  <2>2. Head(q) \in Range(q)
    <3> HIDE DEF d
    <3> QED
      BY <2>1, TailOf
  <2> HIDE DEF d, q, n
  <2>3. d \in [1..n -> Range(d)] /\ tables \in [1..n -> Range(tables)]
    BY <2>1 DEF Range, n
  <2>4. d \in Bijection(1..n, Range(d)) /\ tables \in Bijection(1..n, Range(tables))
    BY <2>1, <2>3 DEF Bijection, Injection, Surjection, IsInjective, Range
  <2>5. IsFiniteSet(1..n)
    BY <1>1, FS_Interval
  <2>6. /\ IsFiniteSet(Range(tables)) /\ Cardinality(Range(tables)) = Cardinality(1..n)
        /\ Cardinality(Range(d)) = Cardinality(1..n)
    BY <2>4, <2>5, FS_Bijection DEF ExistsBijection
  <2>7. Range(tables) = Range(d)
    BY <2>1, <2>6, FS_Subset
  <2> QED
    BY <2>1, <2>2, <2>7
<1> QED
  BY <1>10, <1>11, <1>12

\* What topoOrder promises, for every list of tables and all foreign keys: it
\* lists each table once, no matter the cycles, and when there are none, no
\* table comes before one of its parents.
THEOREM TopoOrderOf ==
  ASSUME NEW tables \in Seq(Table), IsInjective(tables)
  PROVE  /\ TopoOrder(tables) \in Seq(Table) /\ IsInjective(TopoOrder(tables))
         /\ Range(TopoOrder(tables)) = Range(tables)
         /\ Acyclic => \A i, j \in 1..Len(TopoOrder(tables)) :
              i < j => TopoOrder(tables)[j] \notin Parents(TopoOrder(tables)[i], Range(tables))
<1> DEFINE R == Range(tables)
           o == TopoOrder(tables)
<1>1. PICK s : /\ LoopInv(s, tables, Len(tables)) /\ s.queue = <<>>
               /\ o = s.done \o Those(tables, R \ Range(s.done))
  BY LoopEnds
<1> DEFINE D    == Range(s.done)
           rest == Those(tables, R \ D)
<1>2. /\ s.done \in Seq(Table) /\ IsInjective(s.done)
      /\ \A k, l \in 1..Len(s.done) : k < l => s.done[l] \notin Parents(s.done[k], R)
  BY <1>1 DEF LoopInv, LoopStates
<1>3. D = {t \in R : Parents(t, R) \subseteq D}
  <2>1. Range(s.queue) = {}
    BY <1>1 DEF Range
  <2> QED
    BY <1>1, <2>1 DEF LoopInv
<1>4. D \subseteq R
  BY <1>3
<1>5. rest \in Seq(Table) /\ Range(rest) = R \ D /\ IsInjective(rest)
  <2> DEFINE S == R \ D
  <2>1. R \cap S = S
    OBVIOUS
  <2> HIDE DEF S
  <2>2. /\ Those(tables, S) \in Seq(Table) /\ Range(Those(tables, S)) = R \cap S
        /\ IsInjective(Those(tables, S))
    BY ThoseOf
  <2> QED
    BY <2>1, <2>2 DEF S
<1>6. o = s.done \o rest
  BY <1>1
<1> HIDE DEF o, rest, D
<1>7. o \in Seq(Table) /\ IsInjective(o) /\ Range(o) = R
  <2>1. Range(s.done) = D
    BY DEF D
  <2>2. Range(s.done) \cap Range(rest) = {} /\ Range(s.done) \cup Range(rest) = R
    BY <1>4, <1>5, <2>1
  <2>3. /\ s.done \o rest \in Seq(Table) /\ Range(s.done \o rest) = Range(s.done) \cup Range(rest)
        /\ Range(s.done) \cap Range(rest) = {} => IsInjective(s.done \o rest)
    <3>1. s.done \in Seq(Table) /\ rest \in Seq(Table)
      BY <1>2, <1>5
    <3> QED
      BY <1>2, <1>5, <3>1, ConcatOf
  <2> QED
    BY <1>6, <2>2, <2>3
<1>8. ASSUME Acyclic, NEW i \in 1..Len(o), NEW j \in 1..Len(o), i < j
      PROVE  o[j] \notin Parents(o[i], R)
  <2>1. R \subseteq Table
    BY RangeOfSeq, <1>5, <1>7 DEF Range
  <2>2. R \ D = {}
    <3> SUFFICES ASSUME R \ D # {} PROVE FALSE
      OBVIOUS
    <3>1. R \ D \in (SUBSET Table) \ {{}}
      BY <2>1
    <3>2. PICK t \in R \ D : Parents(t, R \ D) = {}
      BY <1>8, <3>1 DEF Acyclic
    <3>3. Parents(t, R) \subseteq D
      BY <3>2 DEF Parents
    <3> QED
      BY <1>3, <3>3
  <2>3. rest = <<>>
    <3> SUFFICES ASSUME rest # <<>> PROVE FALSE
      OBVIOUS
    <3>1. Head(rest) \in Range(rest)
      BY <1>5, TailOf
    <3> QED
      BY <1>5, <2>2, <3>1
  <2>4. o = s.done
    BY <1>2, <1>6, <2>3, ConcatEmptySeq
  <2> QED
    BY <1>2, <1>8, <2>4
<1> QED
  BY <1>7, <1>8 DEF o

-----------------------------------------------------------------------------
(***************************************************************************)
(* The import.                                                             *)
(***************************************************************************)
Rows == [key : Key \cup {"mine"}, value : Values \cup {"base64"}]
Loading == At("create") \/ At("import") \/ At("counter") \/ At("decode")
Working == Loading \/ At("commit")
Complete(t) == /\ local[t].rows = Decoded(Taken(t))
               /\ call.continues \/ Taken(t) = CsvRows(t)
               /\ t \in AutoIncrement => local[t].counter

\* The working set, and the import.
Tables == [Table -> [made : BOOLEAN, rows : SUBSET Rows, counter : BOOLEAN]]
Calls  == [pc : {"idle", "create", "import", "counter", "decode", "commit"}, schemaOnly : BOOLEAN,
           noCommit : BOOLEAN, continues : BOOLEAN, loads : SUBSET Table, todo : Seq(Table)]

TypeOK == edges \in EdgeSets /\ local \in Tables /\ call \in Calls

TodoOK ==
  /\ Loading => call.todo # <<>> /\ Range(call.todo) \subseteq call.loads
  /\ At("commit") => call.todo = <<>>

\* What the import is through with exists, and so does the table it fills.
Made ==
  /\ Working => \A t \in call.loads \ Range(call.todo) : Has(t)
  /\ Loading /\ ~At("create") => Has(Current)

\* None of the tables still to do comes before one of its parents.
NoParentLater ==
  Loading /\ Acyclic =>
    \A i, j \in 1..Len(call.todo) : i < j => call.todo[j] \notin Parents(call.todo[i], call.loads)

\* What the import is through with is complete, and the table it fills is as
\* far as the step it is at.
Filled ==
  /\ At("import") => HasCsv
  /\ At("decode") => HasBytes
  /\ (At("counter") /\ HasCsv) \/ At("decode") =>
       /\ local[Current].rows = Taken(Current)
       /\ call.continues \/ Taken(Current) = CsvRows(Current)
  /\ At("decode") => (Current \in AutoIncrement => local[Current].counter)
  /\ Working /\ ~call.schemaOnly /\ "emptyOverRows" \notin Uses =>
       /\ \A t \in call.loads : Source[t] = {} => local[t].rows = {}
       /\ \A t \in call.loads \ Range(call.todo) : Complete(t)

IInv == TypeOK /\ TodoOK /\ Made /\ NoParentLater /\ Filled

LEMMA RequestOf ==
  ASSUME NEW tables \in Requests
  PROVE  tables \in Seq(Table) /\ IsInjective(tables)
<1>1. PICK S \in (SUBSET Table) \ {{}} : tables \in SetToSeqs(S)
  BY DEF Requests
<1>2. /\ tables \in [1..Cardinality(S) -> S]
      /\ \A i, j \in 1..Cardinality(S) : i # j => tables[i] # tables[j]
  BY <1>1 DEF SetToSeqs
<1>3. Cardinality(S) \in Nat
  <2>1. IsFiniteSet(S)
    BY ConstantsAssumption, FS_Subset
  <2> QED
    BY <2>1, FS_CardinalityType
<1>4. tables \in Seq(S)
  BY <1>2, <1>3, SeqDef
<1> QED
  BY <1>2, <1>4, SeqMonotonic DEF IsInjective

\* What an import loads is in an order in which no table comes before one of
\* its parents among them, when the foreign keys have no cycle.
LEMMA KeptOf ==
  ASSUME NEW tables \in Requests, NEW blobs, NEW todo, todo = Kept(TopoOrder(tables), blobs)
  PROVE  /\ todo \in Seq(Table) /\ Range(todo) \subseteq Table
         /\ Acyclic => \A i, j \in 1..Len(todo) :
              i < j => todo[j] \notin Parents(todo[i], Range(todo))
<1> DEFINE o == TopoOrder(tables)
           R == Range(tables)
<1>1. /\ o \in Seq(Table) /\ Range(o) = R /\ IsInjective(o)
      /\ Acyclic => \A i, j \in 1..Len(o) : i < j => o[j] \notin Parents(o[i], R)
  BY RequestOf, TopoOrderOf
<1>2. todo = o \/ todo = Those(o, Table \ Binary)
  BY DEF Kept
<1> HIDE DEF o, R
<1>3. CASE todo = o
  <2>1. Range(todo) \subseteq Table
    BY <1>1, <1>3, RangeOfSeq
  <2> QED
    BY <1>1, <1>3, <2>1
<1>4. CASE todo = Those(o, Table \ Binary)
  <2> DEFINE S == Table \ Binary
  <2>0. todo = Those(o, S)
    BY <1>4
  <2> HIDE DEF S
  <2>1. /\ Those(o, S) \in Seq(Table) /\ Range(Those(o, S)) = Range(o) \cap S
        /\ \A i, j \in 1..Len(Those(o, S)) : i < j =>
             \E k, l \in 1..Len(o) : k < l /\ o[k] = Those(o, S)[i] /\ o[l] = Those(o, S)[j]
    BY <1>1, ThoseOf
  <2>2. /\ todo \in Seq(Table) /\ Range(todo) \subseteq R
        /\ \A i, j \in 1..Len(todo) : i < j =>
             \E k, l \in 1..Len(o) : k < l /\ o[k] = todo[i] /\ o[l] = todo[j]
    BY <1>1, <2>0, <2>1
  <2>3. Range(todo) \subseteq Table
    BY <2>2 DEF Range
  <2>4. ASSUME Acyclic, NEW i \in 1..Len(todo), NEW j \in 1..Len(todo), i < j
        PROVE  todo[j] \notin Parents(todo[i], Range(todo))
    <3>1. PICK k \in 1..Len(o), l \in 1..Len(o) : k < l /\ o[k] = todo[i] /\ o[l] = todo[j]
      BY <2>2, <2>4
    <3>2. todo[j] \notin Parents(todo[i], R)
      BY <1>1, <2>4, <3>1
    <3>3. Parents(todo[i], Range(todo)) \subseteq Parents(todo[i], R)
      BY <2>2 DEF Parents
    <3> QED
      BY <3>2, <3>3
  <2> QED
    BY <2>2, <2>3, <2>4
<1> QED
  BY <1>2, <1>3, <1>4

LEMMA SameParents ==
  ASSUME UNCHANGED edges
  PROVE  (Acyclic <=> Acyclic') /\ \A t, S : Parents(t, S)' = Parents(t, S)
<1>1. \A t, S : Parents(t, S)' = Parents(t, S)
  BY DEF Parents
<1>2. \A S, t : (Parents(t, S) = {})' <=> Parents(t, S) = {}
  BY <1>1
<1>3. Acyclic' <=> \A group \in (SUBSET Table) \ {{}} : \E t \in group : Parents(t, group)' = {}
  BY DEF Acyclic
<1>4. Acyclic <=> \A group \in (SUBSET Table) \ {{}} : \E t \in group : Parents(t, group) = {}
  BY DEF Acyclic
<1> QED
  BY <1>1, <1>3, <1>4

\* What the csv conversion and FROM_BASE64 do to a value of the source.
LEMMA ValuesOf ==
  ASSUME NEW v \in Values
  PROVE  /\ CsvOf(v) \in Values \cup {"base64"}
         /\ CsvOf(v) = "base64" <=> v = "bytes"
         /\ v # "bytes" => CsvOf(v) = IF v \in {"empty", "bits"} THEN "null" ELSE v
  BY DEF Values, CsvOf

\* The rows that Dolt takes are rows.
LEMMA TakenOf ==
  ASSUME NEW t \in Table
  PROVE  /\ Taken(t) \subseteq CsvRows(t) /\ Taken(t) \subseteq Rows
         /\ Source[t] = {} => Taken(t) = {} /\ CsvRows(t) = {}
         /\ (\A r \in Source[t] : r.value # "bytes") => Decoded(Taken(t)) = Taken(t)
<1>1. Source[t] \subseteq [key : Key, value : Values]
  BY ConstantsAssumption
<1>2. ASSUME NEW r \in Source[t]
      PROVE  /\ [r EXCEPT !.value = CsvOf(@)] \in Rows
             /\ [r EXCEPT !.value = CsvOf(@)].value = CsvOf(r.value)
  <2>1. r \in [key : Key, value : Values] /\ r.value \in Values
    BY <1>1
  <2>2. [r EXCEPT !.value = CsvOf(@)] = [key |-> r.key, value |-> CsvOf(r.value)]
    BY <2>1
  <2>3. r.key \in Key \cup {"mine"}
    BY <2>1
  <2>4. CsvOf(r.value) \in Values \cup {"base64"}
    <3> DEFINE v == r.value
    <3>1. v \in Values
      BY <2>1
    <3> HIDE DEF v
    <3>2. CsvOf(v) \in Values \cup {"base64"}
      BY <3>1, ValuesOf
    <3> QED
      BY <3>2 DEF v
  <2> QED
    BY <2>2, <2>3, <2>4 DEF Rows
<1>3. CsvRows(t) \subseteq Rows
  BY <1>2 DEF CsvRows
<1>4. Taken(t) \subseteq CsvRows(t)
  BY DEF Taken
<1>5. Source[t] = {} => CsvRows(t) = {}
  BY DEF CsvRows
<1>6. ASSUME \A r \in Source[t] : r.value # "bytes" PROVE Decoded(Taken(t)) = Taken(t)
  <2>1. \A r \in CsvRows(t) : r.value # "base64"
    <3> SUFFICES ASSUME NEW r \in Source[t]
                 PROVE  [r EXCEPT !.value = CsvOf(@)].value # "base64"
      BY DEF CsvRows
    <3> QED
      BY <1>1, <1>2, <1>6, ValuesOf
  <2>2. \A r \in Taken(t) : [r EXCEPT !.value = IF @ = "base64" THEN "bytes" ELSE @] = r
    BY <1>3, <1>4, <2>1 DEF Rows
  <2> QED
    BY <2>2 DEF Decoded
<1> QED
  BY <1>3, <1>4, <1>5, <1>6

LEMMA DecodedOf ==
  ASSUME NEW rows \in SUBSET Rows
  PROVE  Decoded(rows) \in SUBSET Rows /\ (rows = {} => Decoded(rows) = {})
<1>1. \A r \in rows : [r EXCEPT !.value = IF @ = "base64" THEN "bytes" ELSE @] \in Rows
  BY DEF Rows, Values
<1> QED
  BY <1>1 DEF Decoded

LEMMA UserTables == {NoTable, UserTable} \subseteq [made : BOOLEAN, rows : SUBSET Rows, counter : BOOLEAN]
<1>1. [key |-> "mine", value |-> "text"] \in Rows
  BY DEF Rows, Values
<1> QED
  BY <1>1 DEF NoTable, UserTable

LEMMA InitIInv == Init => IInv
<1> SUFFICES ASSUME Init PROVE IInv
  OBVIOUS
<1>1. edges \in EdgeSets /\ local \in [Table -> {NoTable, UserTable}] /\ call = Idle
  BY DEF Init
<1>2. ~Working /\ ~Loading
  BY <1>1 DEF Working, Loading, At, Idle
<1>3. TypeOK
  <2>1. local \in Tables
    BY <1>1, UserTables DEF Tables
  <2>2. <<>> \in Seq(Table)
    OBVIOUS
  <2> QED
    BY <1>1, <2>1, <2>2 DEF TypeOK, Idle, Calls
<1>4. ~At("import") /\ ~At("decode") /\ ~At("counter") /\ ~At("commit")
  BY <1>1 DEF At, Idle
<1>5. TodoOK /\ Made /\ NoParentLater /\ Filled
  BY <1>2, <1>4 DEF TodoOK, Made, NoParentLater, Filled
<1> QED
  BY <1>3, <1>5 DEF IInv

\* The command is over: what it left in the working set is all there is to say.
LEMMA EndsIInv ==
  ASSUME IInv, Ends, UNCHANGED edges, local' \in Tables
  PROVE  IInv'
<1>1. call' = Idle /\ <<>> \in Seq(Table)
  BY DEF Ends
<1>2. TypeOK'
  <2>1. edges' \in EdgeSets
    BY DEF IInv, TypeOK
  <2>2. call' \in Calls
    BY <1>1 DEF Idle, Calls
  <2> QED
    BY <2>1, <2>2 DEF TypeOK, Tables, Calls, Rows
<1>3. (~Working /\ ~Loading /\ ~At("import") /\ ~At("decode") /\ ~At("counter") /\ ~At("commit"))'
  BY <1>1 DEF Working, Loading, At, Idle
<1>4. (TodoOK /\ Made /\ NoParentLater /\ Filled)'
  BY <1>3 DEF TodoOK, Made, NoParentLater, Filled
<1> QED
  BY <1>2, <1>4 DEF IInv

LEMMA BeginsIInv ==
  ASSUME IInv, NEW tables \in Requests, Begins(tables)
  PROVE  IInv'
<1>0. PICK blobs \in {"error", "base64", "skip"}, schemaOnly \in BOOLEAN, noCommit \in BOOLEAN,
           continues \in BOOLEAN :
        LET todo == Kept(TopoOrder(tables), blobs)
        IN  /\ blobs = "error" => Range(tables) \cap Binary = {}
            /\ todo # <<>>
            /\ \/ "emptyOverRows" \in Uses \/ schemaOnly
               \/ \A t \in Range(todo) : Source[t] = {} => local[t].rows = {}
            /\ call' = [pc |-> "create", schemaOnly |-> schemaOnly, noCommit |-> noCommit,
                        continues |-> continues, loads |-> Range(todo), todo |-> todo]
  BY Zenon DEF Begins
<1> DEFINE todo == Kept(TopoOrder(tables), blobs)
<1>1. /\ todo # <<>> /\ UNCHANGED <<edges, local>>
      /\ call' = [pc |-> "create", schemaOnly |-> schemaOnly, noCommit |-> noCommit,
                  continues |-> continues, loads |-> Range(todo), todo |-> todo]
      /\ schemaOnly \/ "emptyOverRows" \in Uses
           \/ \A t \in Range(todo) : Source[t] = {} => local[t].rows = {}
  BY <1>0 DEF Begins
<1>2. /\ todo \in Seq(Table) /\ Range(todo) \subseteq Table
      /\ Acyclic => \A i, j \in 1..Len(todo) : i < j => todo[j] \notin Parents(todo[i], Range(todo))
  BY KeptOf
<1> HIDE DEF todo
<1>3. /\ call'.pc = "create" /\ call'.schemaOnly = schemaOnly
      /\ call'.loads = Range(todo) /\ call'.todo = todo
  BY <1>1
<1>4. At("create")' /\ Loading' /\ Working' /\ ~(At("import") \/ At("counter") \/ At("decode") \/ At("commit"))'
  BY <1>3 DEF At, Loading, Working
<1>5. TypeOK'
  <2>1. call' \in Calls
    BY <1>1, <1>2 DEF Calls
  <2> QED
    BY <1>1, <2>1 DEF IInv, TypeOK, Calls, Tables, Rows
<1>7. TodoOK' /\ Made'
  BY <1>1, <1>3, <1>4 DEF TodoOK, Made
<1>8. NoParentLater'
  BY <1>1, <1>2, <1>3, SameParents DEF NoParentLater
<1>9. Filled'
  BY <1>1, <1>3, <1>4 DEF Filled
<1> QED
  BY <1>5, <1>7, <1>8, <1>9 DEF IInv

\* The table of the step, and the fields of the call that a step keeps.
LEMMA CurrentOf ==
  ASSUME IInv, Loading
  PROVE  /\ call.todo \in Seq(Table) /\ call.todo # <<>> /\ Current \in Table /\ Current \in call.loads
         /\ Tail(call.todo) \in Seq(Table) /\ Range(call.todo) = {Current} \cup Range(Tail(call.todo))
         /\ Len(call.todo) \in Nat /\ Len(Tail(call.todo)) = Len(call.todo) - 1
         /\ Current = call.todo[1]
         /\ \A i \in 1..Len(Tail(call.todo)) : Tail(call.todo)[i] = call.todo[i + 1]
<1>1. call.todo \in Seq(Table) /\ call.todo # <<>> /\ Range(call.todo) \subseteq call.loads
  BY DEF IInv, TypeOK, TodoOK, Calls
<1>2. /\ Current \in Table /\ Tail(call.todo) \in Seq(Table)
      /\ Range(call.todo) = {Current} \cup Range(Tail(call.todo))
  BY <1>1, TailOf DEF Current
<1>3. /\ Len(call.todo) \in Nat /\ Len(Tail(call.todo)) = Len(call.todo) - 1
      /\ Current = call.todo[1]
      /\ \A i \in 1..Len(Tail(call.todo)) : Tail(call.todo)[i] = call.todo[i + 1]
  BY <1>1, HeadTailProperties DEF Current
<1> QED
  BY <1>1, <1>2, <1>3

LEMMA StepOf ==
  ASSUME IInv, NEW p \in {"create", "import", "counter", "decode", "commit"}, Step(p)
  PROVE  /\ call'.pc = p /\ call'.schemaOnly = call.schemaOnly /\ call'.loads = call.loads
         /\ call'.continues = call.continues /\ call'.todo = call.todo /\ call' \in Calls
         /\ Current' = Current /\ (HasCsv <=> HasCsv') /\ (HasBytes <=> HasBytes')
<1>1. /\ call'.pc = p /\ call'.schemaOnly = call.schemaOnly /\ call'.loads = call.loads
      /\ call'.continues = call.continues /\ call'.todo = call.todo /\ call' \in Calls
  BY DEF IInv, TypeOK, Step, Calls
<1>2. Current' = Current /\ (HasCsv <=> HasCsv')
  BY <1>1 DEF Current, HasCsv
<1>3. HasBytes <=> HasBytes'
  BY <1>2 DEF HasBytes
<1> QED
  BY <1>1, <1>2, <1>3

\* A step on one table, and what it keeps: the rest of the working set, and
\* that a table without rows at the source has none.
StepOn(t) ==
  /\ local' \in Tables /\ UNCHANGED edges
  /\ \A u \in Table \ {t} : local'[u] = local[u]
  /\ local'[t].made
  /\ Source[t] = {} /\ local[t].rows = {} => local'[t].rows = {}

\* The import goes on with the same table.
LEMMA StepKeeps ==
  ASSUME IInv, Loading, NEW p \in {"import", "counter", "decode"}, Step(p), StepOn(Current)
  PROVE  /\ TypeOK' /\ TodoOK' /\ Made' /\ NoParentLater'
         /\ (Working /\ ~call.schemaOnly /\ "emptyOverRows" \notin Uses =>
               /\ \A t \in call.loads : Source[t] = {} => local[t].rows = {}
               /\ \A t \in call.loads \ Range(call.todo) : Complete(t))'
<1>1. /\ call.todo # <<>> /\ Current \in Table /\ Current \in call.loads /\ Current \in Range(call.todo)
      /\ Range(call.todo) \subseteq call.loads /\ call.loads \subseteq Table
  BY CurrentOf DEF IInv, TypeOK, TodoOK, Calls
<1>2. /\ call'.pc = p /\ call'.schemaOnly = call.schemaOnly /\ call'.loads = call.loads
      /\ call'.continues = call.continues /\ call'.todo = call.todo /\ Current' = Current
      /\ call' \in Calls
  BY StepOf
<1>3. Working /\ Loading' /\ Working' /\ ~At("commit")'
  BY <1>2 DEF Working, Loading, At
<1>4. /\ UNCHANGED edges /\ local' \in Tables /\ local'[Current].made
      /\ \A t \in Table \ {Current} : local'[t] = local[t]
      /\ Source[Current] = {} /\ local[Current].rows = {} => local'[Current].rows = {}
  BY DEF StepOn
<1>5. TypeOK'
  BY <1>2, <1>4 DEF IInv, TypeOK, Tables, Calls, Rows
<1>6. TodoOK'
  BY <1>1, <1>2, <1>3 DEF TodoOK
<1>7. \A t \in call.loads \ Range(call.todo) : t \in Table /\ t # Current /\ local'[t] = local[t]
  BY <1>1, <1>4
<1>8. Made'
  <2>1. \A t \in call.loads \ Range(call.todo) : Has(t)'
    BY <1>3, <1>7 DEF IInv, Made, Has
  <2>2. (\A t \in call.loads \ Range(call.todo) : Has(t))'
    BY <1>2, <2>1
  <2>3. Has(Current)'
    BY <1>2, <1>4 DEF Has
  <2> QED
    BY <2>2, <2>3 DEF Made
<1>9. NoParentLater'
  BY <1>2, <1>4, SameParents DEF IInv, NoParentLater
<1>10. ASSUME ~call.schemaOnly, "emptyOverRows" \notin Uses
       PROVE  /\ \A t \in call.loads : Source[t] = {} => local'[t].rows = {}
              /\ \A t \in call.loads \ Range(call.todo) : Complete(t)'
  <2>1. /\ \A t \in call.loads : Source[t] = {} => local[t].rows = {}
        /\ \A t \in call.loads \ Range(call.todo) : Complete(t)
    BY <1>3, <1>10 DEF IInv, Filled
  <2>2. \A t \in call.loads : Source[t] = {} => local'[t].rows = {}
    BY <1>1, <1>4, <2>1
  <2>3. \A t \in call.loads \ Range(call.todo) : Complete(t)'
    BY <1>2, <1>7, <2>1 DEF Complete
  <2> QED
    BY <2>2, <2>3
<1>11. (Working /\ ~call.schemaOnly /\ "emptyOverRows" \notin Uses =>
          /\ \A t \in call.loads : Source[t] = {} => local[t].rows = {}
          /\ \A t \in call.loads \ Range(call.todo) : Complete(t))'
  BY <1>2, <1>10
<1> QED
  BY <1>5, <1>6, <1>8, <1>9, <1>11

\* The import is through with a table, and goes on with the next or commits.
LEMMA NextTableIInv ==
  ASSUME IInv, Loading, NextTable, StepOn(Current),
         call.schemaOnly \/ "emptyOverRows" \in Uses
           \/ /\ local'[Current].rows = Decoded(Taken(Current))
              /\ call.continues \/ Taken(Current) = CsvRows(Current)
              /\ Current \in AutoIncrement => local'[Current].counter
  PROVE  IInv'
<1> DEFINE rest == Tail(call.todo)
<1>1. /\ call.todo \in Seq(Table) /\ call.todo # <<>> /\ Current \in Table /\ Current \in call.loads
      /\ rest \in Seq(Table) /\ Range(call.todo) = {Current} \cup Range(rest)
      /\ Len(call.todo) \in Nat /\ Len(rest) = Len(call.todo) - 1 /\ Len(call.todo) > 0
      /\ \A i \in 1..Len(rest) : rest[i] = call.todo[i + 1]
  <2>1. call.todo \in Seq(Table) /\ call.todo # <<>>
    BY CurrentOf
  <2>2. Len(call.todo) > 0
    BY <2>1, EmptySeq
  <2> QED
    BY <2>2, CurrentOf
<1>2. Range(call.todo) \subseteq call.loads /\ call.loads \subseteq Table /\ Working
  BY DEF IInv, TypeOK, TodoOK, Working, Calls
<1>3. /\ UNCHANGED edges /\ local' \in Tables /\ local'[Current].made
      /\ \A t \in Table \ {Current} : local'[t] = local[t]
      /\ Source[Current] = {} /\ local[Current].rows = {} => local'[Current].rows = {}
  BY DEF StepOn
<1> HIDE DEF rest
<1>4. \A t \in call.loads \ Range(rest) : t = Current \/ (t \in call.loads \ Range(call.todo) /\ local'[t] = local[t])
  BY <1>1, <1>2, <1>3
<1>5. \A t \in call.loads \ Range(rest) : Has(t)'
  BY <1>2, <1>3, <1>4 DEF IInv, Made, Has
<1>6. ASSUME ~call.schemaOnly, "emptyOverRows" \notin Uses
      PROVE  /\ \A t \in call.loads : Source[t] = {} => local'[t].rows = {}
             /\ call'.continues = call.continues =>
                  \A t \in call.loads \ Range(rest) : Complete(t)'
  <2>1. /\ \A t \in call.loads : Source[t] = {} => local[t].rows = {}
        /\ \A t \in call.loads \ Range(call.todo) : Complete(t)
    BY <1>2, <1>6 DEF IInv, Filled
  <2>2. \A t \in call.loads : Source[t] = {} => local'[t].rows = {}
    BY <1>2, <1>3, <2>1
  <2>3. ASSUME NEW t \in call.loads \ Range(rest), call'.continues = call.continues PROVE Complete(t)'
    <3>1. CASE t = Current
      BY <1>6, <2>3, <3>1 DEF Complete
    <3>2. CASE t \in call.loads \ Range(call.todo) /\ local'[t] = local[t]
      BY <2>1, <2>3, <3>2 DEF Complete
    <3> QED
      BY <1>4, <3>1, <3>2
  <2> QED
    BY <2>2, <2>3
<1>7. CASE Len(call.todo) > 1
  <2>1. call' = [call EXCEPT !.todo = rest, !.pc = "create"]
    BY <1>7 DEF NextTable, rest
  <2>2. /\ call'.pc = "create" /\ call'.schemaOnly = call.schemaOnly
        /\ call'.loads = call.loads /\ call'.todo = rest
        /\ call'.continues = call.continues /\ call' \in Calls
    BY <1>1, <2>1 DEF IInv, TypeOK, Calls
  <2>3. /\ At("create")' /\ Loading' /\ Working'
        /\ ~(At("import") \/ At("counter") \/ At("decode") \/ At("commit"))'
    BY <2>2 DEF At, Loading, Working
  <2>4. TypeOK'
    BY <1>3, <2>2 DEF IInv, TypeOK, Tables, Calls, Rows
  <2>5. TodoOK'
    <3>1. rest # <<>>
      BY <1>1, <1>7
    <3> QED
      BY <1>1, <1>2, <2>2, <2>3, <3>1 DEF TodoOK
  <2>6. Made'
    BY <1>5, <2>2, <2>3 DEF Made
  <2>7. NoParentLater'
    <3> SUFFICES ASSUME Acyclic, NEW i \in 1..Len(rest), NEW j \in 1..Len(rest), i < j
                 PROVE  rest[j] \notin Parents(rest[i], call.loads)
      BY <1>3, <2>2, SameParents DEF NoParentLater
    <3>1. i + 1 \in 1..Len(call.todo) /\ j + 1 \in 1..Len(call.todo) /\ i + 1 < j + 1
      <4> DEFINE n == Len(call.todo)
                 m == Len(rest)
      <4>1. n \in Nat /\ m = n - 1 /\ i \in 1..m /\ j \in 1..m /\ i < j
        BY <1>1
      <4> HIDE DEF n, m
      <4>2. i + 1 \in 1..n /\ j + 1 \in 1..n /\ i + 1 < j + 1
        BY <4>1
      <4> QED
        BY <4>2 DEF n
    <3>2. rest[i] = call.todo[i + 1] /\ rest[j] = call.todo[j + 1]
      BY <1>1
    <3> QED
      BY <3>1, <3>2 DEF IInv, NoParentLater
  <2>8. Filled'
    BY <1>6, <2>2, <2>3 DEF Filled
  <2> QED
    BY <1>3, <2>4, <2>5, <2>6, <2>7, <2>8 DEF IInv
<1>8. CASE ~(Len(call.todo) > 1) /\ call.noCommit
  <2>1. Ends
    BY <1>8 DEF NextTable, Ends
  <2> QED
    BY <1>3, <2>1, EndsIInv
<1>9. CASE ~(Len(call.todo) > 1) /\ ~call.noCommit
  <2>1. call' = [call EXCEPT !.todo = <<>>, !.pc = "commit"]
    BY <1>9 DEF NextTable
  <2>2. Range(rest) = {}
    <3>1. Len(rest) = 0
      <4> DEFINE n == Len(call.todo)
      <4>1. n \in Nat /\ n > 0 /\ ~(n > 1) /\ Len(rest) = n - 1
        BY <1>1, <1>9
      <4> HIDE DEF n
      <4> QED
        BY <4>1
    <3>2. DOMAIN rest = 1..0
      BY <1>1, <3>1
    <3> QED
      BY <3>2 DEF Range
  <2>3. Range(<<>>) = {} /\ <<>> \in Seq(Table)
    BY DEF Range
  <2>4. /\ call'.pc = "commit" /\ call'.schemaOnly = call.schemaOnly
        /\ call'.loads = call.loads /\ call'.todo = <<>>
        /\ call'.continues = call.continues /\ call' \in Calls
    BY <2>1, <2>3 DEF IInv, TypeOK, Calls
  <2>5. /\ ~Loading' /\ Working' /\ ~(At("import") \/ At("counter") \/ At("decode"))'
    BY <2>4 DEF At, Loading, Working
  <2>6. TypeOK'
    BY <1>3, <2>4 DEF IInv, TypeOK, Tables, Calls, Rows
  <2>7. TodoOK' /\ NoParentLater'
    BY <2>4, <2>5 DEF TodoOK, NoParentLater
  <2>8. Range(call'.todo) = Range(rest)
    BY <2>2, <2>3, <2>4
  <2>9. Made'
    BY <1>5, <2>4, <2>5, <2>8 DEF Made
  <2>10. Filled'
    BY <1>6, <2>4, <2>5, <2>8 DEF Filled
  <2> QED
    BY <1>3, <2>6, <2>7, <2>9, <2>10 DEF IInv
<1> QED
  BY <1>7, <1>8, <1>9

LEMMA CreatesIInv ==
  ASSUME IInv, Creates
  PROVE  IInv'
<1> DEFINE next == IF HasCsv THEN "import" ELSE "counter"
<1>1. At("create") /\ Loading /\ UNCHANGED edges /\ next \in {"import", "counter", "decode"}
  BY DEF Creates, Loading
<1>2. local \in Tables /\ Current \in Table
  BY <1>1, CurrentOf DEF IInv, TypeOK
<1>3. ASSUME Step(next), StepOn(Current) PROVE IInv'
  <2>1. call'.pc = next /\ (HasCsv <=> HasCsv')
    BY <1>1, <1>3, StepOf
  <2>2. ~At("decode")' /\ (At("import")' => HasCsv') /\ (At("counter")' => ~HasCsv')
    BY <2>1 DEF At
  <2> HIDE DEF next
  <2>3. Filled'
    BY <1>1, <1>3, <2>2, StepKeeps DEF Filled
  <2> QED
    BY <1>1, <1>3, <2>3, StepKeeps DEF IInv
<1>4. CASE Has(Current)
  BY <1>1, <1>2, <1>3, <1>4 DEF Creates, StepOn, Has
<1>5. CASE ~Has(Current) /\ \A p \in Parents(Current, Table) : Has(p)
  <2> DEFINE new == [made |-> TRUE, rows |-> {}, counter |-> TRUE]
  <2>1. local' = [local EXCEPT ![Current] = new] /\ Step(next)
    BY <1>5 DEF Creates
  <2>2. /\ local' \in Tables /\ local'[Current] = new
        /\ \A u \in Table \ {Current} : local'[u] = local[u]
    BY <1>2, <2>1 DEF Tables
  <2> QED
    BY <1>1, <1>3, <2>1, <2>2 DEF StepOn
<1>6. CASE ~Has(Current) /\ ~\A p \in Parents(Current, Table) : Has(p)
  <2>1. UNCHANGED local /\ Ends
    BY <1>6 DEF Creates
  <2> QED
    BY <1>1, <1>2, <2>1, EndsIInv
<1> QED
  BY <1>4, <1>5, <1>6

LEMMA ImportsIInv ==
  ASSUME IInv, Imports
  PROVE  IInv'
<1> DEFINE new == [local[Current] EXCEPT !.rows = Taken(Current), !.counter = FALSE]
           all == call.continues \/ Taken(Current) = CsvRows(Current)
<1>1. At("import") /\ Loading /\ UNCHANGED edges
  BY DEF Imports, Loading
<1>2. local \in Tables /\ Current \in Table /\ Has(Current) /\ HasCsv
  BY <1>1, CurrentOf DEF IInv, TypeOK, Made, Filled, At
<1>3. CASE all
  <2>1. local' = [local EXCEPT ![Current] = new] /\ Step("counter")
    BY <1>3 DEF Imports
  <2>2. /\ new \in [made : BOOLEAN, rows : SUBSET Rows, counter : BOOLEAN]
        /\ new.rows = Taken(Current) /\ new.made
    BY <1>2, TakenOf DEF Tables, Has
  <2> HIDE DEF new
  <2>3. /\ local' \in Tables /\ local'[Current] = new
        /\ \A u \in Table \ {Current} : local'[u] = local[u]
    BY <1>2, <2>1, <2>2 DEF Tables
  <2>4. StepOn(Current)
    BY <1>1, <1>2, <2>2, <2>3 DEF StepOn, HasCsv
  <2>5. /\ call'.pc = "counter" /\ Current' = Current /\ call'.continues = call.continues
    BY <1>1, <2>1, StepOf
  <2>6. Taken(Current)' = Taken(Current) /\ CsvRows(Current)' = CsvRows(Current)
    BY <2>5 DEF Taken, CsvRows
  <2>7. Filled'
    BY <1>1, <1>3, <2>1, <2>2, <2>3, <2>4, <2>5, <2>6, StepKeeps DEF Filled, At
  <2> QED
    BY <1>1, <2>1, <2>4, <2>7, StepKeeps DEF IInv
<1>4. CASE ~all
  <2>1. UNCHANGED local /\ Ends
    BY <1>4 DEF Imports
  <2> QED
    BY <1>1, <1>2, <2>1, EndsIInv
<1> QED
  BY <1>3, <1>4

LEMMA SetsCounterIInv ==
  ASSUME IInv, SetsCounter
  PROVE  IInv'
<1>1. /\ At("counter") /\ Loading /\ UNCHANGED edges /\ ~At("create")
      /\ local' = IF Current \in AutoIncrement THEN [local EXCEPT ![Current].counter = TRUE] ELSE local
  BY DEF SetsCounter, Loading, At
<1>2. local \in Tables /\ Current \in Table /\ Current \in call.loads /\ local[Current].made
  BY <1>1, CurrentOf DEF IInv, TypeOK, Made, Has
<1>3. local[Current] \in [made : BOOLEAN, rows : SUBSET Rows, counter : BOOLEAN]
  BY <1>2 DEF Tables
<1>4. /\ local' \in Tables /\ local'[Current].rows = local[Current].rows /\ local'[Current].made
      /\ Current \in AutoIncrement => local'[Current].counter
      /\ \A u \in Table \ {Current} : local'[u] = local[u]
  <2>1. CASE Current \in AutoIncrement
    <3> DEFINE new == [local[Current] EXCEPT !.counter = TRUE]
    <3>1. local' = [local EXCEPT ![Current] = new]
      BY <1>1, <2>1
    <3>2. /\ new.rows = local[Current].rows /\ new.counter /\ new.made
          /\ new \in [made : BOOLEAN, rows : SUBSET Rows, counter : BOOLEAN]
      BY <1>2, <1>3
    <3> HIDE DEF new
    <3> QED
      BY <1>2, <3>1, <3>2 DEF Tables
  <2>2. CASE Current \notin AutoIncrement
    BY <1>1, <1>2, <2>2
  <2> QED
    BY <2>1, <2>2
<1>5. StepOn(Current)
  BY <1>1, <1>4 DEF StepOn
<1>6. HasCsv => /\ local'[Current].rows = Taken(Current)
                /\ call.continues \/ Taken(Current) = CsvRows(Current)
  BY <1>1, <1>4 DEF IInv, Filled
<1>7. CASE HasBytes
  <2>1. Step("decode") /\ HasCsv
    BY <1>7 DEF SetsCounter, HasBytes
  <2>2. call'.pc = "decode" /\ Current' = Current /\ HasBytes' /\ call'.continues = call.continues
    BY <1>1, <1>7, <2>1, StepOf
  <2>3. Taken(Current)' = Taken(Current) /\ CsvRows(Current)' = CsvRows(Current)
    BY <2>2 DEF Taken, CsvRows
  <2>4. Filled'
    BY <1>1, <1>4, <1>5, <1>6, <2>1, <2>2, <2>3, StepKeeps DEF Filled, At
  <2> QED
    BY <1>1, <1>5, <2>1, <2>4, StepKeeps DEF IInv
<1>8. CASE ~HasBytes
  <2>1. NextTable
    BY <1>8 DEF SetsCounter
  <2>2. ASSUME ~call.schemaOnly, "emptyOverRows" \notin Uses
        PROVE  /\ local'[Current].rows = Decoded(Taken(Current))
               /\ call.continues \/ Taken(Current) = CsvRows(Current)
    <3>1. CASE Source[Current] # {}
      <4>1. HasCsv /\ \A r \in Source[Current] : r.value # "bytes"
        BY <1>8, <2>2, <3>1 DEF HasCsv, HasBytes
      <4>2. Decoded(Taken(Current)) = Taken(Current)
        BY <1>2, <4>1, TakenOf
      <4> QED
        BY <1>6, <4>1, <4>2
    <3>2. CASE Source[Current] = {}
      <4>1. local[Current].rows = {}
        BY <1>1, <1>2, <2>2, <3>2 DEF IInv, Filled, Working
      <4>2. Taken(Current) = {} /\ CsvRows(Current) = {}
        BY <1>2, <3>2, TakenOf
      <4>3. Decoded({}) = {}
        BY DecodedOf
      <4> QED
        BY <1>4, <4>1, <4>2, <4>3
    <3> QED
      BY <3>1, <3>2
  <2> QED
    BY <1>1, <1>4, <1>5, <2>1, <2>2, NextTableIInv
<1> QED
  BY <1>7, <1>8

LEMMA DecodesIInv ==
  ASSUME IInv, Decodes
  PROVE  IInv'
<1> DEFINE new == [local[Current] EXCEPT !.rows = Decoded(@)]
<1>1. /\ At("decode") /\ Loading /\ UNCHANGED edges /\ NextTable /\ ~At("create")
      /\ local' = [local EXCEPT ![Current] = new]
  BY DEF Decodes, Loading, At
<1>2. /\ local \in Tables /\ Current \in Table /\ local[Current].made
      /\ Source[Current] # {} /\ local[Current].rows = Taken(Current)
      /\ call.continues \/ Taken(Current) = CsvRows(Current)
      /\ Current \in AutoIncrement => local[Current].counter
  BY <1>1, CurrentOf DEF IInv, TypeOK, Made, Has, Filled, HasCsv, HasBytes
<1>3. /\ new.rows = Decoded(Taken(Current)) /\ new.counter = local[Current].counter /\ new.made
      /\ new \in [made : BOOLEAN, rows : SUBSET Rows, counter : BOOLEAN]
  BY <1>2, TakenOf, DecodedOf DEF Tables
<1> HIDE DEF new
<1>4. /\ local' \in Tables /\ local'[Current] = new
      /\ \A u \in Table \ {Current} : local'[u] = local[u]
  BY <1>1, <1>2, <1>3 DEF Tables
<1>5. StepOn(Current)
  BY <1>1, <1>2, <1>3, <1>4 DEF StepOn
<1> QED
  BY <1>1, <1>2, <1>3, <1>4, <1>5, NextTableIInv

LEMMA OthersIInv ==
  ASSUME IInv, Commits \/ StepFails \/ (\E t \in Table : UserWrites(t)) \/ UNCHANGED vars
  PROVE  IInv'
<1>1. local \in Tables
  BY DEF IInv, TypeOK
<1>2. CASE Commits \/ StepFails
  BY <1>1, <1>2, EndsIInv DEF Commits, StepFails
<1>3. ASSUME NEW t \in Table, UserWrites(t) PROVE IInv'
  <2>1. PICK new \in {NoTable, UserTable} : local' = [local EXCEPT ![t] = new]
    BY <1>3 DEF UserWrites
  <2>2. At("idle") /\ UNCHANGED edges /\ UNCHANGED call
    BY <1>3 DEF UserWrites
  <2>3. new \in [made : BOOLEAN, rows : SUBSET Rows, counter : BOOLEAN]
    BY UserTables
  <2>4. local' \in Tables
    BY <1>1, <2>1, <2>3 DEF Tables
  <2>5. TypeOK'
    BY <2>2, <2>4 DEF IInv, TypeOK, Tables, Calls, Rows
  <2>6. (~Working /\ ~Loading /\ ~At("import") /\ ~At("decode") /\ ~At("counter") /\ ~At("commit"))'
    BY <2>2 DEF Working, Loading, At
  <2>7. (TodoOK /\ Made /\ NoParentLater /\ Filled)'
    BY <2>6 DEF TodoOK, Made, NoParentLater, Filled
  <2> QED
    BY <2>5, <2>7 DEF IInv
<1>4. CASE UNCHANGED vars
  <2>1. UNCHANGED <<edges, local, call>> /\ Current' = Current
    BY <1>4 DEF vars, Current
  <2>2. \A t : Taken(t)' = Taken(t) /\ CsvRows(t)' = CsvRows(t)
    BY DEF Taken, CsvRows
  <2>3. TypeOK' /\ TodoOK' /\ Made'
    BY <2>1 DEF IInv, TypeOK, TodoOK, Made, Working, Loading, At, Has, Tables, Calls, Rows
  <2>4. NoParentLater'
    BY <2>1, SameParents DEF IInv, NoParentLater, Loading, At
  <2>5. \A t : Complete(t)' <=> Complete(t)
    BY <2>1 DEF Complete
  <2>6. Filled'
    BY <2>1, <2>2, <2>5 DEF IInv, Filled, Working, Loading, At, HasCsv, HasBytes
  <2> QED
    BY <2>3, <2>4, <2>6 DEF IInv
<1> QED
  BY <1>2, <1>3, <1>4

\* IInv is inductive.
LEMMA NextIInv == IInv /\ [Next]_vars => IInv'
<1> SUFFICES ASSUME IInv, [Next]_vars PROVE IInv'
  OBVIOUS
<1>1. CASE \E tables \in Requests : Begins(tables)
  BY <1>1, BeginsIInv
<1>2. CASE Creates
  BY <1>2, CreatesIInv
<1>3. CASE Imports
  BY <1>3, ImportsIInv
<1>4. CASE SetsCounter
  BY <1>4, SetsCounterIInv
<1>5. CASE Decodes
  BY <1>5, DecodesIInv
<1>6. CASE Commits \/ StepFails \/ (\E t \in Table : UserWrites(t)) \/ UNCHANGED vars
  BY <1>6, OthersIInv
<1> QED
  BY <1>1, <1>2, <1>3, <1>4, <1>5, <1>6 DEF Next

LEMMA Inductive == Spec => []IInv
<1> QED
  BY InitIInv, NextIInv, PTL DEF Spec

-----------------------------------------------------------------------------
(***************************************************************************)
(* Theorems.                                                               *)
(***************************************************************************)

\* "A parent is imported before any child that references it" (table-order.ts):
\* the CREATE TABLE of an import finds the parents that it loads, whatever was
\* imported, dropped or left by a failed import before.
THEOREM ParentsAreThere == Spec => []ParentsComeFirst
<1>1. IInv => ParentsComeFirst
  <2> SUFFICES ASSUME IInv, At("create"), Acyclic, NEW p \in Parents(Current, call.loads)
               PROVE  Has(p)
    BY DEF ParentsComeFirst
  <2>1. Loading /\ Working
    BY DEF Loading, Working
  <2>2. p \in call.loads /\ p # Current
    BY DEF Parents
  <2>3. p \notin Range(call.todo)
    <3> SUFFICES ASSUME NEW j \in 1..Len(call.todo), call.todo[j] = p PROVE FALSE
      BY <2>1, CurrentOf DEF Range
    <3>1. Current = call.todo[1] /\ Len(call.todo) \in Nat
      BY <2>1, CurrentOf
    <3>2. 1 \in 1..Len(call.todo) /\ 1 < j
      BY <2>2, <3>1
    <3> QED
      BY <2>1, <3>1, <3>2 DEF IInv, NoParentLater
  <2> QED
    BY <2>1, <2>2, <2>3 DEF IInv, Made
<1> QED
  BY <1>1, Inductive, PTL

\* What the csv, Dolt and FROM_BASE64 make of a row of the source.
LEMMA AdoptedOf ==
  ASSUME NEW t \in Table, NEW r \in Source[t]
  PROVE  LET c == [r EXCEPT !.value = CsvOf(@)]
         IN  /\ [c EXCEPT !.value = IF @ = "base64" THEN "bytes" ELSE @] = Adopted(r)
             /\ Rejects(t, c.value) => Rejects(t, Adopted(r).value)
<1> DEFINE v == r.value
           c == [r EXCEPT !.value = CsvOf(@)]
<1>1. r \in [key : Key, value : Values] /\ v \in Values
  BY ConstantsAssumption
<1>2. c = [key |-> r.key, value |-> CsvOf(v)]
  BY <1>1
<1>3. Adopted(r) = [key |-> r.key, value |-> IF v \in {"empty", "bits"} THEN "null" ELSE v]
  BY <1>1 DEF Adopted
<1>4. [c EXCEPT !.value = IF @ = "base64" THEN "bytes" ELSE @]
        = [key |-> r.key, value |-> IF CsvOf(v) = "base64" THEN "bytes" ELSE CsvOf(v)]
  <2> DEFINE k == r.key
             w == CsvOf(v)
  <2>1. c = [key |-> k, value |-> w]
    BY <1>2
  <2> HIDE DEF c, k, w
  <2>2. [c EXCEPT !.value = IF @ = "base64" THEN "bytes" ELSE @]
          = [key |-> k, value |-> IF w = "base64" THEN "bytes" ELSE w]
    BY <2>1
  <2> QED
    BY <2>2 DEF k, w
<1>5. (IF CsvOf(v) = "base64" THEN "bytes" ELSE CsvOf(v)) = IF v \in {"empty", "bits"} THEN "null" ELSE v
  <2> HIDE DEF v
  <2> QED
    BY <1>1, ValuesOf
<1>6. Rejects(t, c.value) => Rejects(t, Adopted(r).value)
  <2>1. c.value = CsvOf(v) /\ Adopted(r).value = IF v \in {"empty", "bits"} THEN "null" ELSE v
    BY <1>2, <1>3
  <2> HIDE DEF v
  <2> QED
    BY <1>1, <2>1, ValuesOf DEF Rejects
<1> QED
  BY <1>3, <1>4, <1>5, <1>6

\* The rows of a complete table are those of the source, as adopted, and all
\* of them but the rejected ones under --continue.
LEMMA CompleteOf ==
  ASSUME NEW t \in Table, Complete(t)
  PROVE  /\ local[t].rows \subseteq {Adopted(r) : r \in Source[t]}
         /\ \A r \in Source[t] :
              Adopted(r) \in local[t].rows \/ (call.continues /\ Rejects(t, Adopted(r).value))
<1> DEFINE Csv(r) == [r EXCEPT !.value = CsvOf(@)]
           Decode(r) == [r EXCEPT !.value = IF @ = "base64" THEN "bytes" ELSE @]
<1>1. \A r \in Source[t] : Decode(Csv(r)) = Adopted(r)
                         /\ (Rejects(t, Csv(r).value) => Rejects(t, Adopted(r).value))
  BY AdoptedOf
<1>2. /\ local[t].rows = {Decode(r) : r \in Taken(t)}
      /\ call.continues \/ Taken(t) = CsvRows(t)
  BY DEF Complete, Decoded
<1>3. CsvRows(t) = {Csv(r) : r \in Source[t]}
  BY DEF CsvRows
<1>4. Taken(t) = {r \in CsvRows(t) : ~Rejects(t, r.value)}
  BY DEF Taken
<1> HIDE DEF Csv, Decode
<1>5. local[t].rows \subseteq {Adopted(r) : r \in Source[t]}
  BY <1>1, <1>2, <1>3, <1>4
<1>6. ASSUME NEW r \in Source[t]
      PROVE  Adopted(r) \in local[t].rows \/ (call.continues /\ Rejects(t, Adopted(r).value))
  <2>1. CASE Csv(r) \in Taken(t)
    BY <1>1, <1>2, <2>1
  <2>2. CASE Csv(r) \notin Taken(t)
    BY <1>1, <1>2, <1>3, <1>4, <2>2
  <2> QED
    BY <2>1, <2>2
<1> QED
  BY <1>5, <1>6

\* Whatever earlier imports and the user left, what `deltix import` commits are
\* the next keys and the rows of the source, decoded, with '' and unlisted bytes
\* as NULL and under --continue without the rejected ones, for users who do not
\* import an empty table over rows of their own.
THEOREM SourceIsCommitted ==
  ASSUME "emptyOverRows" \notin Uses
  PROVE  Spec => []CommitsTheSource
<1>1. IInv => CommitsTheSource
  <2> SUFFICES ASSUME IInv, At("commit"), ~call.schemaOnly, NEW t \in call.loads
               PROVE  /\ local[t].rows \subseteq {Adopted(r) : r \in Source[t]}
                      /\ \A r \in Source[t] :
                           Adopted(r) \in local[t].rows \/ (call.continues /\ Rejects(t, Adopted(r).value))
                      /\ t \in AutoIncrement => local[t].counter
    BY DEF CommitsTheSource
  <2>1. Working /\ Range(call.todo) = {} /\ t \in Table
    BY DEF Working, IInv, TodoOK, Range, TypeOK, Calls
  <2>2. Complete(t)
    BY <2>1 DEF IInv, Filled
  <2>3. t \in AutoIncrement => local[t].counter
    BY <2>2 DEF Complete
  <2> QED
    BY <2>1, <2>2, <2>3, CompleteOf
<1> QED
  BY <1>1, Inductive, PTL
=============================================================================
