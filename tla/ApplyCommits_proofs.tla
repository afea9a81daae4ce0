------------------------ MODULE ApplyCommits_proofs -------------------------
(***************************************************************************)
(* Theorems about ApplyCommits, for every value of its constants.          *)
(***************************************************************************)
EXTENDS ApplyCommits, TLAPS

\* The steps at which the throwaway branch exists, at which it is checked
\* out, at which the target is checked out again.
OnTemp       == {"switch", "apply", "commit", "record", "resolve", "advance"}
BackOnTarget == {"finishDrop", "rollbackReset", "rollbackDrop"}

\* Where the running call is decides which branches exist and which of them
\* is checked out: what TypeOK needs to be inductive.
Shape ==
  /\ pc # "idle" => attempt \in 1..MaxAttempts
  /\ pc \in OnTemp => Temp(attempt) \in DOMAIN branches
  /\ pc \in OnTemp \ {"switch"} => active = Temp(attempt)
  /\ pc \in BackOnTarget => active = Target
  /\ pc \in {"finish", "trackingRef"} \cup BackOnTarget => Target \in DOMAIN branches

TypeInv == TypeOK /\ Shape

\* The names of branches differ.
LEMMA Names ==
  /\ Local # Tracking
  /\ Target \in {Local, Tracking}
  /\ \A n : Temp(n) \notin {Local, Tracking, Target}
  /\ \A n \in 1..MaxAttempts : Temp(n) \in BranchNames
  /\ {Local, Tracking} \subseteq BranchNames
BY DEF Local, Tracking, Target, Temp, BranchNames

LEMMA EmptyHistory == << >> \in History
BY DEF History

LEMMA InitType == Init => TypeInv
<1> SUFFICES ASSUME Init PROVE TypeInv
  OBVIOUS
<1>1. branches \in [DOMAIN branches -> History] /\ DOMAIN branches \subseteq BranchNames
  BY Names DEF Init, History
<1>2. TypeOK
  BY <1>1, EmptyHistory, ConstantsAssumption, Names DEF Init, NoRows, TypeOK, RefsOK, Owners, PCs
<1> QED
  BY <1>2 DEF TypeInv, Shape, Init, OnTemp, BackOnTarget

\* Writing and deleting a ref keeps the set of branches well-formed and leaves
\* the other branches alone.
LEMMA WriteRef ==
  ASSUME RefsOK, NEW b \in BranchNames, NEW h \in History, branches' = WithRef(b, h)
  PROVE  /\ RefsOK'
         /\ DOMAIN branches' = DOMAIN branches \cup {b}
         /\ branches'[b] = h
         /\ \A x \in DOMAIN branches : x # b => branches'[x] = branches[x]
BY DEF RefsOK, WithRef

LEMMA DeleteRef ==
  ASSUME RefsOK, NEW b, branches' = WithoutRef(b)
  PROVE  /\ RefsOK'
         /\ DOMAIN branches' = DOMAIN branches \ {b}
         /\ \A x \in DOMAIN branches : x # b => branches'[x] = branches[x]
BY DEF RefsOK, WithoutRef

LEMMA Histories ==
  ASSUME RefsOK, NEW b \in DOMAIN branches
  PROVE  /\ branches[b] \in History /\ b \in BranchNames
         /\ \A c \in ServerCommits \cup {LocalCommit} : Append(branches[b], c) \in History
<1>1. branches[b] \in History /\ b \in BranchNames
  BY DEF RefsOK
<1> QED
  BY <1>1 DEF History

LEMMA StagingType ==
  ASSUME TypeOK, NEW ts, StagesTables(ts)
  PROVE  dirty' \in [Tables -> SUBSET Owners] /\ staged' \in [Tables -> SUBSET Owners]
BY DEF TypeOK, StagesTables, Uncommitted

LEMMA EnvironmentType == TypeInv /\ Environment => TypeInv'
<1> SUFFICES ASSUME TypeInv, Environment PROVE TypeInv'
  OBVIOUS
<1> USE DEF TypeInv, TypeOK, Shape, repo, memory
<1>0. UNCHANGED branches => RefsOK'
  BY DEF RefsOK
<1>1. CASE ServerGrows
  BY <1>0, <1>1, ConstantsAssumption DEF ServerGrows, Target
<1>2. CASE \E t \in Tables : AppWrites(t)
  BY <1>0, <1>2 DEF AppWrites, Target, Owners
<1>6. ASSUME NEW ts \in SUBSET Tables, UserStages(ts) PROVE TypeInv'
  <2>1. dirty' \in [Tables -> SUBSET Owners] /\ staged' \in [Tables -> SUBSET Owners]
    BY <1>6, StagingType DEF UserStages
  <2> QED
    BY <1>0, <1>6, <2>1 DEF UserStages, Target
<1>7. CASE UserUnstages
  <2>1. dirty' \in [Tables -> SUBSET Owners] /\ staged' \in [Tables -> SUBSET Owners]
    BY <1>7 DEF UserUnstages, NoRows, Uncommitted
  <2> QED
    BY <1>0, <1>7, <2>1 DEF UserUnstages, Target
<1>3. CASE UserCommits
  <2>1. Append(branches[active], LocalCommit) \in History /\ active \in BranchNames
    BY Histories
  <2>2. RefsOK' /\ DOMAIN branches' = DOMAIN branches \cup {active}
    BY <1>3, <2>1, WriteRef DEF UserCommits
  <2> QED
    BY <1>0, <1>3, <2>2 DEF UserCommits, NoRows, OnTemp, BackOnTarget
<1>4. CASE UserDiscards
  BY <1>0, <1>4 DEF UserDiscards, NoRows, Target
<1>5. CASE UserChecksOut
  BY <1>0, <1>5 DEF UserChecksOut, OnTemp, BackOnTarget
<1> QED
  BY <1>1, <1>2, <1>3, <1>4, <1>5, <1>6, <1>7 DEF Environment

LEMMA CallType == TypeInv /\ Call => TypeInv'
<1> SUFFICES ASSUME TypeInv, Call PROVE TypeInv'
  OBVIOUS
<1> USE DEF TypeInv, TypeOK, Shape, repo, memory, Goto, OnTemp, BackOnTarget, PCs
<1>0. UNCHANGED branches => RefsOK'
  BY DEF RefsOK
<1>1. ASSUME NEW from \in {0, synced}, Start(from) PROVE TypeInv'
  <2>1. attempt' \in 1..MaxAttempts
    BY <1>1, ConstantsAssumption DEF Start
  <2>2. pending' \in SUBSET ServerCommits
    BY <1>1, ConstantsAssumption DEF Start, ServerCommits
  <2> QED
    BY <1>0, <1>1, <2>1, <2>2, EmptyHistory, ConstantsAssumption DEF Start
<1>2. CASE CheckWorkingSet
  BY <1>0, <1>2 DEF CheckWorkingSet
<1>3. CASE ReadBase
  <2>1. base' \in History
    BY <1>3, EmptyHistory, Histories DEF ReadBase
  <2> QED
    BY <1>0, <1>3, <2>1 DEF ReadBase
<1>4. CASE CreateTemp
  <2>1. CASE branches' = WithRef(Temp(attempt), base) /\ pc' = "switch"
    <3>1. RefsOK' /\ DOMAIN branches' = DOMAIN branches \cup {Temp(attempt)}
      BY <1>4, <2>1, Names, WriteRef DEF CreateTemp
    <3> QED
      BY <1>4, <2>1, <3>1, Names DEF CreateTemp
  <2>2. CASE pc' = "idle" /\ UNCHANGED branches
    BY <1>0, <1>4, <2>2 DEF CreateTemp
  <2> QED
    BY <1>4, <2>1, <2>2 DEF CreateTemp
<1>5. CASE SwitchToTemp
  BY <1>0, <1>5 DEF SwitchToTemp
<1>6. ASSUME NEW c \in todo, NEW t \in Tables, ImportTable(c, t) PROVE TypeInv'
  BY <1>0, <1>6 DEF ImportTable, Owners
<1>7. ASSUME NEW c \in todo, SkipEmptyCommit(c) PROVE TypeInv'
  BY <1>0, <1>7 DEF SkipEmptyCommit
<1>8. ASSUME NEW c \in todo, AddTables(c) PROVE TypeInv'
  <2>1. dirty' \in [Tables -> SUBSET Owners] /\ staged' \in [Tables -> SUBSET Owners]
    BY <1>8, StagingType DEF AddTables
  <2> QED
    BY <1>0, <1>8, <2>1 DEF AddTables
<1>9. ASSUME NEW c \in todo, CommitTables(c) PROVE TypeInv'
  <2>1. CASE branches' = WithRef(active, Append(branches[active], c)) /\ pc' = "apply"
    <3>1. Append(branches[active], c) \in History /\ active \in BranchNames
      BY Histories
    <3>2. RefsOK' /\ DOMAIN branches' = DOMAIN branches \cup {active}
      BY <2>1, <3>1, WriteRef
    <3> QED
      BY <1>9, <2>1, <3>2 DEF CommitTables, NoRows
  <2>2. CASE pc' = "rollback" /\ UNCHANGED <<branches, staged, applied, todo, imported>>
    BY <1>0, <1>9, <2>2 DEF CommitTables
  <2> QED
    BY <1>9, <2>1, <2>2 DEF CommitTables
<1>10. CASE LoopDone
  BY <1>0, <1>10 DEF LoopDone
<1>11. CASE RecordApplied
  BY <1>0, <1>11 DEF RecordApplied
<1>12. CASE ResolveTempHead
  BY <1>0, <1>12 DEF ResolveTempHead
<1>13. CASE AdvanceBranch
  <2>1. CASE branches' = WithRef(Target, branches[Temp(attempt)]) /\ pc' = "finish"
    <3>1. RefsOK' /\ DOMAIN branches' = DOMAIN branches \cup {Target}
      BY <1>13, <2>1, Names, Histories, WriteRef DEF AdvanceBranch
    <3> QED
      BY <1>13, <2>1, <3>1, Names DEF AdvanceBranch
  <2>2. CASE pc' = "rollback" /\ UNCHANGED branches
    BY <1>0, <1>13, <2>2 DEF AdvanceBranch
  <2> QED
    BY <1>13, <2>1, <2>2 DEF AdvanceBranch
<1>14. CASE FinishCheckout
  BY <1>0, <1>14 DEF FinishCheckout
<1>15. CASE FinishDrop
  <2>1. CASE branches' = WithoutRef(Temp(attempt))
    <3>1. RefsOK' /\ DOMAIN branches' = DOMAIN branches \ {Temp(attempt)}
      BY <2>1, DeleteRef
    <3> QED
      BY <1>15, <2>1, <3>1, Names DEF FinishDrop
  <2>2. CASE UNCHANGED branches
    BY <1>0, <1>15, <2>2 DEF FinishDrop
  <2> QED
    BY <1>15, <2>1, <2>2 DEF FinishDrop
<1>16. CASE RollbackCheckout
  BY <1>0, <1>16 DEF RollbackCheckout
<1>17. CASE RollbackReset
  BY <1>0, <1>17 DEF RollbackReset, Owners
<1>18. CASE RollbackDrop
  <2>1. CASE branches' = WithoutRef(Temp(attempt))
    <3>1. RefsOK' /\ DOMAIN branches' = DOMAIN branches \ {Temp(attempt)}
      BY <2>1, DeleteRef
    <3> QED
      BY <1>18, <2>1, <3>1, Names DEF RollbackDrop
  <2>2. CASE UNCHANGED branches
    BY <1>0, <1>18, <2>2 DEF RollbackDrop
  <2> QED
    BY <1>18, <2>1, <2>2 DEF RollbackDrop
<1>19. CASE AdvanceTrackingRef
  <2>1. CASE branches' = WithRef(Tracking, branches[Target]) /\ pc' = "save"
    <3>1. RefsOK' /\ DOMAIN branches' = DOMAIN branches \cup {Tracking}
      BY <1>19, <2>1, Names, Histories, WriteRef DEF AdvanceTrackingRef
    <3> QED
      BY <1>19, <2>1, <3>1, Names DEF AdvanceTrackingRef
  <2>2. CASE pc' = "idle" /\ UNCHANGED branches
    BY <1>0, <1>19, <2>2 DEF AdvanceTrackingRef
  <2> QED
    BY <1>19, <2>1, <2>2 DEF AdvanceTrackingRef
<1>20. CASE SaveSyncState
  BY <1>0, <1>20 DEF SaveSyncState
<1>21. CASE CheckoutHome
  BY <1>0, <1>21 DEF CheckoutHome
<1>22. CASE Crash
  BY <1>0, <1>22 DEF Crash
<1> QED
  BY <1>1, <1>2, <1>3, <1>4, <1>5, <1>6, <1>7, <1>8, <1>9, <1>10, <1>11, <1>12, <1>13,
     <1>14, <1>15, <1>16, <1>17, <1>18, <1>19, <1>20, <1>21, <1>22 DEF Call

\* Every state the CLI leaves the repository in is well-formed; in particular
\* the branch that is checked out always exists, whatever fails.
THEOREM TypeCorrect == Spec => []TypeInv
<1>1. TypeInv /\ [Next]_vars => TypeInv'
  <2>1. TypeInv /\ UNCHANGED vars => TypeInv'
    BY DEF TypeInv, TypeOK, RefsOK, Shape, vars, repo, memory, Target
  <2> QED
    BY <2>1, CallType, EnvironmentType DEF Next
<1> QED
  BY <1>1, InitType, PTL DEF Spec

THEOREM TypeSafe == Spec => []TypeOK
<1>1. TypeInv => TypeOK
  BY DEF TypeInv
<1> QED
  BY <1>1, TypeCorrect, PTL

-----------------------------------------------------------------------------
(***************************************************************************)
(* Server order.  That no commit is applied twice cannot be seen from the  *)
(* branch alone: it rests on the sidecar listing an initial part of the    *)
(* server's history that covers the branch, and, while a call runs, on the *)
(* pending commits following all of it.  The two faults the theorems       *)
(* exclude break exactly these two facts.                                  *)
(***************************************************************************)
Sound == {"tornWrite", "headFails"} \cap Faults = {}

Before   == {"check", "base", "create", "switch", "apply", "commit", "record"}
Recorded == {"resolve", "advance", "finish", "finishDrop", "trackingRef", "save"}

SidecarInv ==
  /\ PL!InitialPart(sidecar)
  /\ SyncedIsRecorded
  /\ pc \in Recorded => 1..upto \subseteq sidecar
  /\ pc \in {"resolve", "advance"} => pending \subseteq sidecar

TargetInv ==
  /\ InServerOrder
  /\ PL!Entries(TargetHistory) \subseteq sidecar \cup {LocalCommit}

\* While the sidecar is not written: pending is what it lacks, and follows it;
\* what is left to do follows what is done.
BatchInv ==
  pc \in Before =>
    /\ pending \subseteq 1..upto
    /\ 1..upto \subseteq sidecar \cup pending
    /\ \A n \in sidecar : \A c \in pending : n < c
    /\ todo \subseteq pending
    /\ \A c \in pending \ todo : \A d \in todo : c < d
    /\ applied = sidecar \cup (pending \ todo)

LoopInv ==
  /\ pc \in {"check", "base", "create", "switch"} => todo = pending
  /\ pc \in {"record", "resolve", "advance"} => todo = {}
  /\ pc = "commit" => \E c \in todo : IsCurrent(c) /\ Changes[c] # {}

\* The throwaway branch is the target with the commits done so far on top.
TempInv ==
  /\ pc = "create" => base = TargetHistory
  /\ pc \in OnTemp =>
       /\ PL!Extends(TargetHistory, branches[Temp(attempt)])
       /\ PL!Ascending(branches[Temp(attempt)])
       /\ PL!Appended(TargetHistory, branches[Temp(attempt)]) = (pending \ todo) \cap Carrying

OrderInv == TypeInv /\ SidecarInv /\ TargetInv /\ BatchInv /\ LoopInv /\ TempInv

\* Facts about histories.
LEMMA AppendFacts ==
  ASSUME NEW s \in History, NEW h \in History, PL!Extends(s, h), PL!Ascending(h),
         NEW c \in ServerCommits \cup {LocalCommit}
  PROVE  /\ PL!Extends(s, Append(h, c))
         /\ PL!Appended(s, Append(h, c)) = PL!Appended(s, h) \cup {c}
         /\ PL!Entries(Append(h, c)) = PL!Entries(h) \cup {c}
         /\ c = LocalCommit => PL!Ascending(Append(h, c))
         /\ (\A e \in PL!Entries(h) : e # LocalCommit => e < c) => PL!Ascending(Append(h, c))
<1> DEFINE a == Append(h, c)
<1>1. /\ a \in History /\ Len(a) = Len(h) + 1 /\ a[Len(a)] = c
      /\ \A i \in 1..Len(h) : a[i] = h[i]
      /\ DOMAIN a = 1..(Len(h) + 1) /\ DOMAIN h = 1..Len(h) /\ Len(h) \in Nat /\ Len(s) \in Nat
  BY DEF History
<1> HIDE DEF a
<1>2. PL!Extends(s, a)
  BY <1>1 DEF PL!Extends
<1>3. PL!Appended(s, a) = PL!Appended(s, h) \cup {c}
  BY <1>1 DEF PL!Appended, PL!Extends
<1>4. PL!Entries(a) = PL!Entries(h) \cup {c}
  BY <1>1 DEF PL!Entries
<1>5. c = LocalCommit => PL!Ascending(a)
  BY <1>1 DEF PL!Ascending, LocalCommit
<1>6. (\A e \in PL!Entries(h) : e # LocalCommit => e < c) => PL!Ascending(a)
  BY <1>1 DEF PL!Ascending, PL!Entries, LocalCommit
<1> QED
  BY <1>2, <1>3, <1>4, <1>5, <1>6 DEF a

LEMMA ExtendsEntries ==
  ASSUME NEW s \in History, NEW h \in History, PL!Extends(s, h)
  PROVE  PL!Entries(h) = PL!Entries(s) \cup PL!Appended(s, h)
<1>1. /\ DOMAIN h = 1..Len(h) /\ DOMAIN s = 1..Len(s) /\ Len(h) \in Nat /\ Len(s) \in Nat
  BY DEF History
<1> QED
  BY <1>1 DEF PL!Entries, PL!Extends, PL!Appended

LEMMA ExtendsSelf ==
  ASSUME NEW s \in History
  PROVE  PL!Extends(s, s) /\ PL!Appended(s, s) = {}
<1>1. Len(s) \in Nat
  BY DEF History
<1> QED
  BY <1>1 DEF PL!Extends, PL!Appended

LEMMA TargetHistoryType == RefsOK => TargetHistory \in History
BY EmptyHistory DEF RefsOK, TargetHistory

\* A step on another branch leaves the target alone.
LEMMA OtherRef ==
  ASSUME RefsOK, NEW b, b # Target,
         branches' = WithoutRef(b) \/ \E h : branches' = WithRef(b, h)
  PROVE  TargetHistory' = TargetHistory
BY DEF RefsOK, WithRef, WithoutRef, TargetHistory, Target

LEMMA SameRefs == UNCHANGED branches => TargetHistory' = TargetHistory
BY DEF TargetHistory, Target

LEMMA OrderInit == Init => OrderInv
<1> SUFFICES ASSUME Init PROVE OrderInv
  OBVIOUS
<1>1. TargetHistory = << >>
  BY DEF Init, TargetHistory
<1>2. InServerOrder /\ PL!Entries(TargetHistory) = {}
  BY <1>1 DEF InServerOrder, PL!Ascending, PL!Entries
<1>3. PL!InitialPart(sidecar) /\ SyncedIsRecorded
  BY DEF Init, PL!InitialPart, SyncedIsRecorded
<1> QED
  BY <1>2, <1>3, InitType
     DEF Init, OrderInv, SidecarInv, TargetInv, BatchInv, LoopInv, TempInv, Before, Recorded, OnTemp

LEMMA OrderEnvironment == OrderInv /\ Environment => OrderInv'
<1> SUFFICES ASSUME OrderInv, Environment PROVE OrderInv'
  OBVIOUS
<1> USE DEF OrderInv
<1>1. TypeInv'
  BY EnvironmentType
<1>2. CASE UserCommits
  <2>1. TargetHistory \in History /\ RefsOK
    BY TargetHistoryType DEF TypeInv, TypeOK
  <2>2. \/ TargetHistory' = TargetHistory
        \/ TargetHistory' = Append(TargetHistory, LocalCommit)
    <3>1. CASE active = Target
      BY <1>2, <3>1, <2>1 DEF UserCommits, WithRef, TargetHistory, Target, TypeInv, TypeOK
    <3>2. CASE active # Target
      BY <1>2, <3>2, <2>1, OtherRef DEF UserCommits
    <3> QED
      BY <3>1, <3>2
  <2>3. InServerOrder' /\ PL!Entries(TargetHistory)' \subseteq PL!Entries(TargetHistory) \cup {LocalCommit}
    <3>1. /\ PL!Ascending(Append(TargetHistory, LocalCommit))
          /\ PL!Entries(Append(TargetHistory, LocalCommit)) = PL!Entries(TargetHistory) \cup {LocalCommit}
      <4>1. PL!Extends(TargetHistory, TargetHistory) /\ PL!Ascending(TargetHistory)
        BY <2>1, ExtendsSelf DEF TargetInv, InServerOrder
      <4> QED
        BY <2>1, <4>1, AppendFacts
    <3> QED
      BY <2>2, <3>1 DEF TargetInv, InServerOrder
  <2> QED
    BY <1>1, <1>2, <2>3 DEF UserCommits, SidecarInv, TargetInv, BatchInv, LoopInv, TempInv, Before,
       Recorded, OnTemp, SyncedIsRecorded, memory
<1>3. CASE ~UserCommits
  <2>1. UNCHANGED <<branches, sidecar, synced, pc, attempt, memory>>
    BY <1>3 DEF Environment, ServerGrows, AppWrites, UserStages, UserUnstages, UserDiscards, UserChecksOut, repo
  <2>2. TargetHistory' = TargetHistory
    BY <2>1, SameRefs
  <2> QED
    BY <1>1, <2>1, <2>2 DEF SidecarInv, TargetInv, InServerOrder, BatchInv, LoopInv, TempInv,
       SyncedIsRecorded, memory, IsCurrent
<1> QED
  BY <1>2, <1>3

LEMMA OneCurrent ==
  ASSUME TypeOK, NEW c, NEW d, IsCurrent(c), IsCurrent(d)
  PROVE  c = d
BY DEF TypeOK, IsCurrent, ServerCommits

LEMMA OrderCall == Sound /\ OrderInv /\ Call => OrderInv'
<1> SUFFICES ASSUME Sound, OrderInv, Call PROVE OrderInv'
  OBVIOUS
<1>1. TypeInv /\ TypeInv' /\ RefsOK /\ TargetHistory \in History
  BY CallType, TargetHistoryType DEF OrderInv, TypeInv, TypeOK
<1>2. SidecarInv /\ TargetInv /\ BatchInv /\ LoopInv /\ TempInv
  BY DEF OrderInv
<1>3. UNCHANGED branches => TargetHistory' = TargetHistory
  BY SameRefs
<1>4. ASSUME TargetHistory' = TargetHistory, sidecar' = sidecar
      PROVE  TargetInv'
  BY <1>2, <1>4 DEF TargetInv, InServerOrder
<1>5. SUFFICES SidecarInv' /\ TargetInv' /\ BatchInv' /\ LoopInv' /\ TempInv'
  BY <1>1 DEF OrderInv
<1> USE DEF Goto, repo, memory, Before, Recorded, OnTemp, SidecarInv, SyncedIsRecorded, LoopInv, BatchInv
<1>6. CASE \E from \in {0, synced} : Start(from)
  <2>1. PICK from \in {0, synced} : Start(from)
    BY <1>6
  <2>2. TargetHistory' = TargetHistory
    BY <1>3, <2>1 DEF Start
  <2>3. BatchInv'
    BY <1>1, <1>2, <2>1 DEF Start, PL!InitialPart, TypeInv, TypeOK, ServerCommits
  <2> QED
    BY <1>2, <1>4, <2>1, <2>2, <2>3 DEF Start, TempInv
<1>7. CASE CheckWorkingSet
  BY <1>2, <1>3, <1>4, <1>7 DEF CheckWorkingSet, TempInv
<1>8. CASE ReadBase
  <2>1. base' = TargetHistory
    BY <1>8 DEF ReadBase, TargetHistory, Sound, Fails
  <2> QED
    BY <1>2, <1>3, <1>4, <1>8, <2>1 DEF ReadBase, TempInv
<1>9. CASE CreateTemp
  <2>1. CASE branches' = WithRef(Temp(attempt), base) /\ pc' = "switch"
    <3>1. base = TargetHistory /\ pending \ todo = {}
      BY <1>2, <1>9 DEF CreateTemp, TempInv
    <3>2. TargetHistory' = TargetHistory
      BY <1>1, <2>1, OtherRef, Names
    <3>3. branches'[Temp(attempt)] = TargetHistory
      BY <2>1, <3>1 DEF WithRef
    <3>4. PL!Extends(TargetHistory, TargetHistory) /\ PL!Appended(TargetHistory, TargetHistory) = {}
      BY <1>1, ExtendsSelf
    <3>5. TempInv'
      BY <1>2, <1>9, <2>1, <3>1, <3>2, <3>3, <3>4 DEF CreateTemp, TempInv, TargetInv, InServerOrder
    <3> QED
      BY <1>2, <1>4, <1>9, <2>1, <3>2, <3>5 DEF CreateTemp
  <2>2. CASE pc' = "idle" /\ UNCHANGED branches
    BY <1>2, <1>3, <1>4, <1>9, <2>2 DEF CreateTemp, TempInv
  <2> QED
    BY <1>9, <2>1, <2>2 DEF CreateTemp
<1>10. CASE SwitchToTemp
  BY <1>2, <1>3, <1>4, <1>10 DEF SwitchToTemp, TempInv
<1>11. CASE \E c \in todo, t \in Tables : ImportTable(c, t)
  BY <1>2, <1>3, <1>4, <1>11 DEF ImportTable, TempInv
<1>12. ASSUME NEW c \in todo, SkipEmptyCommit(c) PROVE OrderInv'
  <2>1. TargetHistory' = TargetHistory
    BY <1>3, <1>12 DEF SkipEmptyCommit
  <2>2. c \notin Carrying
    BY <1>12 DEF SkipEmptyCommit, Carrying
  <2>3. BatchInv'
    BY <1>1, <1>2, <1>12 DEF SkipEmptyCommit, IsCurrent, TypeInv, TypeOK, ServerCommits
  <2>4. TempInv'
    BY <1>2, <1>12, <2>1, <2>2 DEF SkipEmptyCommit, TempInv
  <2> QED
    BY <1>1, <1>2, <1>4, <1>12, <2>1, <2>3, <2>4 DEF SkipEmptyCommit, OrderInv
<1>13. CASE \E c \in todo : AddTables(c)
  BY <1>2, <1>3, <1>4, <1>13 DEF AddTables, TempInv, IsCurrent
<1>14. ASSUME NEW c \in todo, CommitTables(c) PROVE OrderInv'
  <2> DEFINE h == branches[Temp(attempt)]
  <2>1. CASE /\ branches' = WithRef(active, Append(branches[active], c))
             /\ applied' = applied \cup {c} /\ todo' = todo \ {c} /\ pc' = "apply"
    <3>1. active = Temp(attempt) /\ Temp(attempt) \in DOMAIN branches /\ pc = "commit"
      BY <1>1, <1>14 DEF CommitTables, TypeInv, Shape
    <3>2. TargetHistory' = TargetHistory
      BY <1>1, <2>1, <3>1, OtherRef, Names
    <3>3. branches'[Temp(attempt)] = Append(h, c)
      BY <2>1, <3>1 DEF WithRef
    <3>4. h \in History
      BY <1>1, <3>1, Histories
    <3>5. /\ PL!Extends(TargetHistory, h) /\ PL!Ascending(h)
          /\ PL!Appended(TargetHistory, h) = (pending \ todo) \cap Carrying
      BY <1>2, <3>1 DEF TempInv
    <3>6. c \in Carrying
      <4>1. PICK d \in todo : IsCurrent(d) /\ Changes[d] # {}
        BY <1>2, <3>1
      <4>2. c = d
        BY <1>1, <1>14, <4>1, OneCurrent DEF CommitTables, TypeInv
      <4>3. d \in ServerCommits
        BY <1>1, <4>1 DEF IsCurrent, TypeInv, TypeOK
      <4> QED
        BY <4>1, <4>2, <4>3 DEF Carrying
    <3>7. \A e \in PL!Entries(h) : e # LocalCommit => e < c
      <4>1. PL!Entries(h) \subseteq sidecar \cup {LocalCommit} \cup (pending \ todo)
        BY <1>1, <1>2, <3>4, <3>5, ExtendsEntries DEF TargetInv
      <4> QED
        BY <1>2, <3>1, <4>1
    <3>8. /\ PL!Extends(TargetHistory, Append(h, c)) /\ PL!Ascending(Append(h, c))
          /\ PL!Appended(TargetHistory, Append(h, c)) = PL!Appended(TargetHistory, h) \cup {c}
      <4>1. c \in ServerCommits \cup {LocalCommit}
        BY <1>1 DEF TypeInv, TypeOK
      <4> QED
        BY <1>1, <3>4, <3>5, <3>7, <4>1, AppendFacts
    <3>9. pending' \ todo' = (pending \ todo) \cup {c} /\ attempt' = attempt
      BY <1>2, <1>14, <2>1, <3>1 DEF CommitTables
    <3>10. TempInv'
      BY <2>1, <3>2, <3>3, <3>5, <3>6, <3>8, <3>9 DEF TempInv
    <3>11. BatchInv'
      BY <1>1, <1>2, <1>14, <2>1, <3>1 DEF CommitTables, IsCurrent, TypeInv, TypeOK, ServerCommits
    <3> QED
      BY <1>1, <1>2, <1>4, <1>14, <2>1, <3>2, <3>10, <3>11 DEF CommitTables, OrderInv
  <2>2. CASE pc' = "rollback" /\ UNCHANGED <<branches, staged, applied, todo, imported>>
    BY <1>1, <1>2, <1>3, <1>4, <1>14, <2>2 DEF CommitTables, TempInv, OrderInv
  <2> QED
    BY <1>14, <2>1, <2>2 DEF CommitTables
<1>15. CASE LoopDone
  BY <1>2, <1>3, <1>4, <1>15 DEF LoopDone, TempInv
<1>16. CASE RecordApplied
  <2>1. TargetHistory' = TargetHistory
    BY <1>3, <1>16 DEF RecordApplied
  <2>2. CASE sidecar' = applied /\ pc' = "resolve"
    <3>1. sidecar' = sidecar \cup pending
      BY <1>2, <1>16, <2>2 DEF RecordApplied
    <3>2. PL!InitialPart(sidecar')
      BY <1>1, <1>2, <1>16, <3>1 DEF RecordApplied, PL!InitialPart, TypeInv, TypeOK
    <3>3. TargetInv'
      BY <1>2, <2>1, <3>1 DEF TargetInv, InServerOrder
    <3> QED
      BY <1>2, <1>16, <2>1, <2>2, <3>1, <3>2, <3>3 DEF RecordApplied, TempInv
  <2>3. CASE pc' = "rollback" /\ UNCHANGED sidecar
    BY <1>2, <1>4, <1>16, <2>1, <2>3 DEF RecordApplied, TempInv
  <2> QED
    BY <1>16, <2>2, <2>3 DEF RecordApplied, Sound, Fails
<1>17. CASE ResolveTempHead
  BY <1>2, <1>3, <1>4, <1>17 DEF ResolveTempHead, TempInv
<1>18. CASE AdvanceBranch
  <2>1. CASE branches' = WithRef(Target, branches[Temp(attempt)]) /\ pc' = "finish"
    <3> DEFINE h == branches[Temp(attempt)]
    <3>1. TargetHistory' = h
      BY <2>1 DEF WithRef, TargetHistory, Target
    <3>2. h \in History /\ pc = "advance"
      BY <1>1, <1>18, Histories DEF AdvanceBranch, TypeInv, Shape
    <3>3. /\ PL!Extends(TargetHistory, h) /\ PL!Ascending(h)
          /\ PL!Appended(TargetHistory, h) \subseteq pending
      BY <1>2, <3>2 DEF TempInv
    <3>4. PL!Entries(h) \subseteq sidecar \cup {LocalCommit}
      BY <1>1, <1>2, <3>2, <3>3, ExtendsEntries DEF TargetInv
    <3>5. TargetInv'
      BY <1>18, <3>1, <3>3, <3>4 DEF AdvanceBranch, TargetInv, InServerOrder
    <3> QED
      BY <1>2, <1>18, <2>1, <3>5 DEF AdvanceBranch, TempInv
  <2>2. CASE pc' = "rollback" /\ UNCHANGED branches
    BY <1>2, <1>3, <1>4, <1>18, <2>2 DEF AdvanceBranch, TempInv
  <2> QED
    BY <1>18, <2>1, <2>2 DEF AdvanceBranch
<1>19. CASE FinishCheckout
  BY <1>2, <1>3, <1>4, <1>19 DEF FinishCheckout, TempInv
<1>20. CASE FinishDrop \/ RollbackDrop
  <2>1. TargetHistory' = TargetHistory
    BY <1>1, <1>3, <1>20, OtherRef, Names DEF FinishDrop, RollbackDrop
  <2> QED
    BY <1>2, <1>4, <1>20, <2>1 DEF FinishDrop, RollbackDrop, TempInv
<1>21. CASE RollbackCheckout
  BY <1>2, <1>3, <1>4, <1>21 DEF RollbackCheckout, TempInv
<1>22. CASE RollbackReset
  BY <1>2, <1>3, <1>4, <1>22 DEF RollbackReset, TempInv
<1>23. CASE AdvanceTrackingRef
  <2>1. TargetHistory' = TargetHistory
    <3>1. CASE Target # Tracking
      BY <1>1, <1>3, <1>23, <3>1, OtherRef DEF AdvanceTrackingRef
    <3>2. CASE Target = Tracking
      BY <1>1, <1>23, <3>2 DEF AdvanceTrackingRef, WithRef, TargetHistory, Target, TypeInv, Shape
    <3> QED
      BY <3>1, <3>2
  <2> QED
    BY <1>2, <1>4, <1>23, <2>1 DEF AdvanceTrackingRef, TempInv
<1>24. CASE SaveSyncState
  BY <1>2, <1>3, <1>4, <1>24 DEF SaveSyncState, TempInv
<1>25. CASE CheckoutHome
  BY <1>2, <1>3, <1>4, <1>25 DEF CheckoutHome, TempInv
<1>26. CASE Crash
  BY <1>2, <1>3, <1>4, <1>26 DEF Crash, TempInv
<1> QED
  BY <1>6, <1>7, <1>8, <1>9, <1>10, <1>11, <1>12, <1>13, <1>14, <1>15, <1>16, <1>17, <1>18,
     <1>19, <1>20, <1>21, <1>22, <1>23, <1>24, <1>25, <1>26 DEF Call, OrderInv

LEMMA OrderStep == Sound /\ OrderInv /\ [Next]_vars => OrderInv'
<1>1. ASSUME OrderInv, UNCHANGED vars PROVE OrderInv'
  <2>1. TypeInv'
    BY <1>1 DEF OrderInv, TypeInv, TypeOK, RefsOK, Shape, vars, repo, memory, Target
  <2>2. TargetHistory' = TargetHistory
    BY <1>1, SameRefs DEF vars, repo
  <2> QED
    BY <1>1, <2>1, <2>2 DEF OrderInv, SidecarInv, SyncedIsRecorded, TargetInv, InServerOrder,
       BatchInv, LoopInv, TempInv, IsCurrent, vars, repo, memory
<1> QED
  BY <1>1, OrderCall, OrderEnvironment DEF Next

LEMMA OrderInvariant == ASSUME Sound PROVE Spec => []OrderInv
BY OrderInit, OrderStep, PTL DEF Spec

\* The target branch holds each server commit at most once and in server
\* order, for any number of calls, any batches the server answers with, any
\* failing commands and any deaths of the process, as long as the two
\* fail-open reads of the Sound assumption do not happen.
THEOREM ServerOrder == ASSUME Sound PROVE Spec => []InServerOrder
<1>1. OrderInv => InServerOrder
  BY DEF OrderInv, TargetInv
<1> QED
  BY <1>1, OrderInvariant, PTL

\* Under the same assumption, the server head saved for the next negotiation
\* never runs ahead of the sidecar.
THEOREM SyncedRecorded == ASSUME Sound PROVE Spec => []SyncedIsRecorded
<1>1. OrderInv => SyncedIsRecorded
  BY DEF OrderInv, SidecarInv
<1> QED
  BY <1>1, OrderInvariant, PTL

\* Within a call only the final `branch -f` moves the target, and it moves it
\* by the whole batch, which the sidecar lists by then.
LEMMA TargetMoves ==
  ASSUME OrderInv, [Next]_vars, pc # "idle", TargetHistory' # TargetHistory
  PROVE  /\ PL!Extends(TargetHistory, TargetHistory')
         /\ PL!Appended(TargetHistory, TargetHistory') = pending \cap Carrying
         /\ pending \subseteq sidecar /\ sidecar' = sidecar
<1>1. TypeInv /\ RefsOK /\ LoopInv /\ TempInv
  BY DEF OrderInv, TypeInv, TypeOK
<1>2. CASE AdvanceBranch
  <2>1. branches' = WithRef(Target, branches[Temp(attempt)])
    BY <1>2, SameRefs DEF AdvanceBranch
  <2>2. TargetHistory' = branches[Temp(attempt)]
    BY <2>1 DEF WithRef, TargetHistory, Target
  <2> QED
    BY <1>1, <1>2, <2>2 DEF AdvanceBranch, OrderInv, SidecarInv, LoopInv, TempInv, OnTemp
<1>3. CASE ~AdvanceBranch
  <2>1. branches' # branches
    BY SameRefs
  <2>2. CASE CreateTemp \/ FinishDrop \/ RollbackDrop
    BY <1>1, <2>1, <2>2, OtherRef, Names DEF CreateTemp, FinishDrop, RollbackDrop
  <2>3. CASE \E c \in todo : CommitTables(c)
    BY <1>1, <2>1, <2>3, OtherRef, Names DEF CommitTables, TypeInv, Shape, OnTemp
  <2>4. CASE AdvanceTrackingRef
    <3>1. branches' = WithRef(Tracking, branches[Target]) /\ Target \in DOMAIN branches
      BY <1>1, <2>1, <2>4 DEF AdvanceTrackingRef, TypeInv, Shape
    <3>2. Target = Tracking => TargetHistory' = TargetHistory
      BY <3>1 DEF WithRef, TargetHistory, Target
    <3> QED
      BY <1>1, <3>1, <3>2, OtherRef
  <2> QED
    BY <1>3, <2>1, <2>2, <2>3, <2>4
       DEF Next, Call, Environment, Start, CheckWorkingSet, ReadBase, SwitchToTemp, ImportTable,
           SkipEmptyCommit, AddTables, LoopDone, RecordApplied, ResolveTempHead, FinishCheckout,
           RollbackCheckout, RollbackReset, SaveSyncState, CheckoutHome, Crash, ServerGrows,
           AppWrites, UserCommits, UserStages, UserUnstages, UserDiscards, UserChecksOut, repo, vars
<1> QED
  BY <1>2, <1>3

\* Under the same assumption, a call moves the target branch by its whole
\* pending batch or not at all.
THEOREM PullIsAtomic == ASSUME Sound PROVE Spec => WholeBatchOrNothing
<1>1. OrderInv /\ [Next]_vars =>
        [pc # "idle" /\ TargetHistory' # TargetHistory
           => /\ PL!Extends(TargetHistory, TargetHistory')
              /\ PL!Appended(TargetHistory, TargetHistory') = pending \cap Carrying]_vars
  BY TargetMoves
<1> QED
  BY <1>1, OrderInvariant, PTL DEF Spec, WholeBatchOrNothing

\* Under the same assumption, the steps of applyCommits, of its callers and of
\* the user implement PullLog.
THEOREM Implements == ASSUME Sound PROVE Spec => ImplementsPullLog
<1>1. Init => PL!Init
  <2>1. Init => TargetHistory = << >>
    BY DEF Init, TargetHistory
  <2> QED
    BY <2>1 DEF Init, PL!Init
<1>2. ASSUME OrderInv, OrderInv', [Next]_vars
      PROVE  [PL!Next]_<<TargetHistory, sidecar>>
  <2>1. TypeInv /\ RefsOK /\ TargetHistory \in History /\ PL!Ascending(TargetHistory')
    BY <1>2, TargetHistoryType DEF OrderInv, TypeInv, TypeOK, TargetInv, InServerOrder
  <2>2. CASE pc # "idle" /\ TargetHistory' # TargetHistory
    BY <1>2, <2>1, <2>2, TargetMoves DEF PL!Next, PL!Advance
  <2>3. CASE pc = "idle" /\ TargetHistory' # TargetHistory
    <3>1. UserCommits
      BY <1>2, <2>3, SameRefs
         DEF Next, Call, Environment, Start, CheckWorkingSet, ReadBase, CreateTemp, SwitchToTemp,
             ImportTable, SkipEmptyCommit, AddTables, CommitTables, LoopDone, RecordApplied,
             ResolveTempHead, AdvanceBranch, FinishCheckout, FinishDrop, RollbackCheckout,
             RollbackReset, RollbackDrop, AdvanceTrackingRef, SaveSyncState, CheckoutHome, Crash,
             ServerGrows, AppWrites, UserStages, UserUnstages, UserDiscards, UserChecksOut, repo, vars
    <3>2. active = Target
      BY <2>1, <2>3, <3>1, OtherRef DEF UserCommits
    <3>3. TargetHistory' = Append(TargetHistory, LocalCommit) /\ sidecar' = sidecar
      BY <2>1, <3>1, <3>2 DEF UserCommits, WithRef, TargetHistory, Target, TypeInv, TypeOK
    <3> QED
      BY <3>3 DEF PL!Next, PL!Commit, LocalCommit
  <2>4. CASE TargetHistory' = TargetHistory /\ sidecar' # sidecar
    <3>1. RecordApplied
      BY <1>2, <2>4
         DEF Next, Call, Environment, Start, CheckWorkingSet, ReadBase, CreateTemp, SwitchToTemp,
             ImportTable, SkipEmptyCommit, AddTables, CommitTables, LoopDone,
             ResolveTempHead, AdvanceBranch, FinishCheckout, FinishDrop, RollbackCheckout,
             RollbackReset, RollbackDrop, AdvanceTrackingRef, SaveSyncState, CheckoutHome, Crash,
             ServerGrows, AppWrites, UserCommits, UserStages, UserUnstages, UserDiscards, UserChecksOut, repo, vars
    <3>2. sidecar \subseteq sidecar'
      BY <1>2, <2>4, <3>1 DEF RecordApplied, Sound, Fails, OrderInv, BatchInv, Before
    <3> QED
      BY <1>2, <2>4, <3>2 DEF PL!Next, PL!Record, OrderInv, SidecarInv
  <2> QED
    BY <2>2, <2>3, <2>4
<1> QED
  BY <1>1, <1>2, OrderInvariant, PTL DEF Spec, ImplementsPullLog, PL!Spec

-----------------------------------------------------------------------------
(***************************************************************************)
(* The working set.  The tables a call touches are clean when it starts,   *)
(* and a staged table that an earlier call left behind is one of them: it  *)
(* belongs to a commit the sidecar lacks, which the server sends again.    *)
(* Two more faults break this: a failing status query lets a call start on *)
(* uncommitted rows, and an application that writes while a call runs puts *)
(* its rows into a table between the import and the commit.                *)
(***************************************************************************)
Undisturbed == Sound /\ {"statusFails", "appWrites"} \cap Faults = {}

\* Where rows of an import can be: in the tables of the commits the sidecar
\* lacks, and while a call runs in those of its current commit only.
PulledInv ==
  /\ \A t \in Tables : "pull" \in dirty[t] \cup staged[t] => t \in TouchedBy((1..upto) \ sidecar)
  /\ pc = "apply" => \A t \in Tables : "pull" \in dirty[t] => t \in imported
  /\ pc \notin {"idle", "check", "apply", "rollback", "rollbackReset", "rollbackDrop"} =>
       \A t \in Tables : "pull" \notin dirty[t]
  /\ pc \notin {"idle", "check", "commit", "rollback", "rollbackReset", "rollbackDrop"} =>
       \A t \in Tables : "pull" \notin staged[t]

ImportInv ==
  /\ upto <= serverLen
  /\ pc \in {"check", "base", "create", "switch"} => imported = {}
  /\ imported # {} => \E c \in todo : IsCurrent(c) /\ imported \subseteq Changes[c]
  /\ pc = "apply" => \A t \in imported : dirty[t] = {"pull"}
  /\ PulledCommitIsExact

CleanInv ==
  pc \notin {"idle", "check"} => \A t \in TouchedBy(pending) : "user" \notin dirty[t] \cup staged[t]

RowsInv == OrderInv /\ PulledInv /\ ImportInv /\ CleanInv

LEMMA Touched ==
  ASSUME NEW cs \in SUBSET ServerCommits
  PROVE  TouchedBy(cs) \subseteq Tables /\ \A c \in cs : Changes[c] \subseteq TouchedBy(cs)
BY ConstantsAssumption DEF TouchedBy, ServerCommits

\* While the batch is worked on, what is left of it is not in the sidecar.
LEMMA PendingIsNew ==
  ASSUME TypeOK, BatchInv, pc \in {"apply", "commit"}, NEW c \in todo
  PROVE  c \in (1..upto) \ sidecar /\ c \in pending
<1>1. pending \subseteq 1..upto /\ todo \subseteq pending /\ \A n \in sidecar : \A d \in pending : n < d
  BY DEF BatchInv, Before
<1>2. c \notin sidecar
  BY <1>1 DEF TypeOK, ServerCommits
<1> QED
  BY <1>1, <1>2

LEMMA RowsInit == Init => RowsInv
<1> SUFFICES ASSUME Init PROVE RowsInv
  OBVIOUS
<1> QED
  BY OrderInit DEF Init, NoRows, RowsInv, PulledInv, ImportInv, CleanInv, PulledCommitIsExact

\* Between two calls: rows only move between the working set and the staged
\* set, or leave them, unless the application writes.
LEMMA RowsBetween ==
  ASSUME RowsInv, pc = "idle", UNCHANGED <<serverLen, sidecar, pc, upto, pending, todo, imported>>,
         \A t \in Tables : dirty'[t] \cup staged'[t] \subseteq dirty[t] \cup staged[t] \cup {"user"}
  PROVE  PulledInv' /\ ImportInv' /\ CleanInv'
<1>1. PulledInv'
  BY DEF RowsInv, PulledInv
<1>2. \A c : IsCurrent(c)' <=> IsCurrent(c)
  BY DEF IsCurrent
<1>3. ImportInv'
  BY <1>2 DEF RowsInv, ImportInv, PulledCommitIsExact
<1>4. CleanInv'
  BY DEF CleanInv
<1> QED
  BY <1>1, <1>3, <1>4

LEMMA RowsEnvironment == Undisturbed /\ RowsInv /\ Environment => PulledInv' /\ ImportInv' /\ CleanInv'
<1> SUFFICES ASSUME Undisturbed, RowsInv, Environment PROVE PulledInv' /\ ImportInv' /\ CleanInv'
  OBVIOUS
<1>0. TypeOK
  BY DEF RowsInv, OrderInv, TypeInv
<1>1. CASE ServerGrows
  <2>1. UNCHANGED <<dirty, staged, sidecar, pc, pending, todo, imported, upto>> /\ serverLen' \in Nat /\ serverLen <= serverLen'
    BY <1>0, <1>1 DEF ServerGrows, repo, memory, TypeOK
  <2>2. \A c : IsCurrent(c)' <=> IsCurrent(c)
    BY <2>1 DEF IsCurrent
  <2>3. PulledInv'
    BY <2>1 DEF RowsInv, PulledInv
  <2>4. ImportInv'
    <3>1. upto <= serverLen'
      BY <1>0, <2>1 DEF RowsInv, ImportInv, TypeOK
    <3> QED
      BY <2>1, <2>2, <3>1 DEF RowsInv, ImportInv, PulledCommitIsExact
  <2>5. CleanInv'
    BY <2>1 DEF RowsInv, CleanInv
  <2> QED
    BY <2>3, <2>4, <2>5
<1>2. ASSUME NEW t \in Tables, AppWrites(t) PROVE PulledInv' /\ ImportInv' /\ CleanInv'
  <2>1. pc = "idle" /\ UNCHANGED <<serverLen, sidecar, pc, upto, pending, todo, imported>>
    BY <1>2 DEF AppWrites, memory, Undisturbed, Fails
  <2>2. \A x \in Tables : dirty'[x] \cup staged'[x] \subseteq dirty[x] \cup staged[x] \cup {"user"}
    BY <1>0, <1>2 DEF AppWrites, TypeOK
  <2> QED
    BY <2>1, <2>2, RowsBetween
<1>3. CASE (\E ts \in SUBSET Tables : UserStages(ts)) \/ UserCommits \/ UserUnstages \/ UserDiscards \/ UserChecksOut
  <2>1. pc = "idle" /\ UNCHANGED <<serverLen, sidecar, pc, upto, pending, todo, imported>>
    BY <1>3 DEF UserStages, UserCommits, UserUnstages, UserDiscards, UserChecksOut, memory
  <2>2. \A x \in Tables : dirty'[x] \cup staged'[x] \subseteq dirty[x] \cup staged[x] \cup {"user"}
    <3>1. CASE \E ts \in SUBSET Tables : UserStages(ts)
      BY <1>0, <3>1 DEF UserStages, StagesTables, Uncommitted, TypeOK
    <3>2. CASE UserUnstages
      BY <1>0, <3>2 DEF UserUnstages, NoRows, Uncommitted, TypeOK
    <3>3. CASE UserCommits \/ UserDiscards \/ UserChecksOut
      BY <1>0, <3>3 DEF UserCommits, UserDiscards, UserChecksOut, NoRows, TypeOK
    <3> QED
      BY <1>3, <3>1, <3>2, <3>3
  <2> QED
    BY <2>1, <2>2, RowsBetween
<1> QED
  BY <1>1, <1>2, <1>3 DEF Environment

\* The steps that leave the working set alone and are not the record: they
\* keep the three invariants unless they let a call start on the tables.
LEMMA RowsAside ==
  ASSUME RowsInv, UNCHANGED <<serverLen, dirty, staged, sidecar, upto, pending, todo, imported>>,
         pc \notin {"idle", "check", "commit"}, pc' \notin {"check", "base", "commit"},
         pc' \in {"create", "switch"} => pc \in {"base", "create"},
         pc' = "apply" => pc = "switch",
         pc = "apply" => imported = {} \/ pc' = "rollback",
         pc \in {"rollback", "rollbackReset", "rollbackDrop"} => pc' \in {"idle", "rollbackReset", "rollbackDrop"}
  PROVE  PulledInv' /\ ImportInv' /\ CleanInv'
<1>1. PulledInv'
  <2>1. \A t \in Tables : "pull" \in dirty'[t] \cup staged'[t] => t \in TouchedBy((1..upto') \ sidecar')
    BY DEF RowsInv, PulledInv
  <2>2. pc' \notin {"idle", "rollback", "rollbackReset", "rollbackDrop"} =>
          \A t \in Tables : "pull" \notin dirty[t] /\ "pull" \notin staged[t]
    BY DEF RowsInv, PulledInv
  <2> QED
    BY <2>1, <2>2 DEF PulledInv
<1>2. ImportInv'
  BY DEF RowsInv, ImportInv, PulledCommitIsExact, IsCurrent
<1>3. CleanInv'
  BY DEF RowsInv, CleanInv
<1> QED
  BY <1>1, <1>2, <1>3

LEMMA RowsCall == Undisturbed /\ RowsInv /\ Call => PulledInv' /\ ImportInv' /\ CleanInv'
<1> SUFFICES ASSUME Undisturbed, RowsInv, Call PROVE PulledInv' /\ ImportInv' /\ CleanInv'
  OBVIOUS
<1> USE DEF repo, memory, Goto
<1>1. TypeOK /\ PulledInv /\ ImportInv /\ CleanInv /\ BatchInv /\ LoopInv
  BY DEF RowsInv, OrderInv, TypeInv
<1>2. ASSUME NEW from \in {0, synced}, Start(from) PROVE PulledInv' /\ ImportInv' /\ CleanInv'
  <2>1. /\ upto <= upto' /\ upto' = serverLen /\ UNCHANGED <<serverLen, dirty, staged, sidecar>>
        /\ pc' = "check" /\ imported' = {}
    BY <1>1, <1>2 DEF Start, ImportInv
  <2>2. TouchedBy((1..upto) \ sidecar) \subseteq TouchedBy((1..upto') \ sidecar)
    <3>1. (1..upto) \ sidecar \subseteq (1..upto') \ sidecar
      BY <1>1, <2>1, ConstantsAssumption DEF TypeOK
    <3> QED
      BY <3>1 DEF TouchedBy
  <2>3. PulledInv'
    BY <1>1, <2>1, <2>2 DEF PulledInv
  <2>4. ImportInv' /\ CleanInv'
    BY <1>1, <2>1, ConstantsAssumption DEF TypeOK, ImportInv, CleanInv, PulledCommitIsExact
  <2> QED
    BY <2>3, <2>4
<1>3. CASE CheckWorkingSet
  <2>0. UNCHANGED <<serverLen, dirty, staged, sidecar, upto, pending, todo, imported>>
    BY <1>3 DEF CheckWorkingSet
  <2>1. CASE pc' = "idle"
    BY <1>1, <2>0, <2>1 DEF PulledInv, ImportInv, CleanInv, PulledCommitIsExact, IsCurrent
  <2>2. CASE pc' = "base"
    <3>1. \A t \in TouchedBy(pending) : t \in Tables /\ dirty[t] \cup staged[t] = {}
      BY <1>1, <1>3, <2>2, Touched DEF CheckWorkingSet, Pending, Undisturbed, Fails, TypeOK
    <3>2. (1..upto) \ sidecar \subseteq pending
      BY <1>1, <1>3 DEF CheckWorkingSet, BatchInv, Before
    <3>3. \A t \in Tables : "pull" \notin dirty[t] \cup staged[t]
      <4>1. TouchedBy((1..upto) \ sidecar) \subseteq TouchedBy(pending)
        BY <3>2 DEF TouchedBy
      <4> QED
        BY <1>1, <3>1, <4>1 DEF PulledInv
    <3>4. pc = "check" /\ imported = {}
      BY <1>1, <1>3 DEF CheckWorkingSet, ImportInv
    <3> QED
      BY <1>1, <2>0, <2>2, <3>1, <3>3, <3>4 DEF PulledInv, ImportInv, CleanInv, PulledCommitIsExact
  <2> QED
    BY <1>3, <2>1, <2>2 DEF CheckWorkingSet
<1>4. ASSUME NEW c \in todo, NEW t \in Tables, ImportTable(c, t) PROVE PulledInv' /\ ImportInv' /\ CleanInv'
  <2>1. /\ pc = "apply" /\ IsCurrent(c) /\ t \in Changes[c]
        /\ UNCHANGED <<serverLen, staged, sidecar, upto, pending, todo>>
    BY <1>4 DEF ImportTable
  <2>2. \A x \in Tables : dirty'[x] = dirty[x] \/ (x = t /\ dirty'[x] = {"pull"})
    BY <1>1, <1>4 DEF ImportTable, TypeOK
  <2>3. c \in (1..upto) \ sidecar /\ c \in pending
    BY <1>1, <2>1, PendingIsNew
  <2>4. t \in TouchedBy((1..upto) \ sidecar)
    BY <2>1, <2>3 DEF TouchedBy
  <2>5. CleanInv'
    <3>1. TouchedBy(pending) \subseteq Tables
      BY <1>1, Touched DEF TypeOK
    <3> QED
      BY <1>1, <2>1, <2>2, <3>1 DEF CleanInv
  <2>6. CASE pc' = "rollback" /\ UNCHANGED imported
    <3>1. PulledInv'
      BY <1>1, <2>1, <2>2, <2>4, <2>6 DEF PulledInv
    <3>2. ImportInv'
      BY <1>1, <2>1, <2>6 DEF ImportInv, PulledCommitIsExact, IsCurrent
    <3> QED
      BY <2>5, <3>1, <3>2
  <2>7. CASE pc' = "apply" /\ imported' = imported \cup {t} /\ dirty' = [dirty EXCEPT ![t] = {"pull"}]
    <3>1. PulledInv'
      BY <1>1, <2>1, <2>2, <2>4, <2>7 DEF PulledInv
    <3>2. \A x \in imported' : dirty'[x] = {"pull"}
      BY <1>1, <2>1, <2>7 DEF ImportInv, TypeOK
    <3>3. imported' \subseteq Changes[c]
      BY <1>1, <2>1, <2>7, OneCurrent DEF ImportInv
    <3>4. ImportInv'
      BY <1>1, <2>1, <2>7, <3>2, <3>3 DEF ImportInv, PulledCommitIsExact, IsCurrent
    <3> QED
      BY <2>5, <3>1, <3>4
  <2> QED
    BY <1>4, <2>1, <2>6, <2>7 DEF ImportTable
<1>5. ASSUME NEW c \in todo, SkipEmptyCommit(c) PROVE PulledInv' /\ ImportInv' /\ CleanInv'
  <2>1. /\ pc = "apply" /\ pc' = "apply" /\ IsCurrent(c) /\ Changes[c] = {}
        /\ UNCHANGED <<serverLen, dirty, staged, sidecar, upto, pending, imported>>
    BY <1>5 DEF SkipEmptyCommit
  <2>2. imported = {}
    BY <1>1, <2>1, OneCurrent DEF ImportInv
  <2> QED
    BY <1>1, <2>1, <2>2 DEF PulledInv, ImportInv, CleanInv, PulledCommitIsExact
<1>6. ASSUME NEW c \in todo, AddTables(c) PROVE PulledInv' /\ ImportInv' /\ CleanInv'
  <2>0. /\ pc = "apply" /\ IsCurrent(c) /\ imported = Changes[c]
        /\ UNCHANGED <<serverLen, sidecar, upto, pending, todo, imported>>
    BY <1>6 DEF AddTables
  <2>1. CASE pc' = "rollback" /\ UNCHANGED <<dirty, staged>>
    BY <2>0, <2>1, RowsAside
  <2>2. CASE pc' = "commit" /\ StagesTables(Changes[c])
    <3>1. \A x \in Changes[c] : x \in Tables /\ dirty[x] = {"pull"}
      BY <1>1, <2>0 DEF ImportInv, TypeOK
    <3>2. \A x \in Tables : IF x \in Changes[c] THEN dirty'[x] = {} /\ staged'[x] = {"pull"}
                             ELSE dirty'[x] = dirty[x] /\ staged'[x] = staged[x]
      BY <2>2, <3>1 DEF StagesTables, Uncommitted
    <3>3. c \in (1..upto) \ sidecar
      BY <1>1, <2>0, PendingIsNew
    <3>4. Changes[c] \subseteq TouchedBy((1..upto) \ sidecar)
      BY <3>3 DEF TouchedBy
    <3>5. \A x \in Tables : "pull" \notin dirty'[x]
      BY <1>1, <2>0, <3>2 DEF PulledInv
    <3>6. PulledInv'
      BY <1>1, <2>0, <2>2, <3>2, <3>4, <3>5 DEF PulledInv
    <3>7. ImportInv'
      <4>1. \A x \in Tables \ Changes[c] : "pull" \notin staged'[x]
        BY <1>1, <2>0, <3>2 DEF PulledInv
      <4>2. PulledCommitIsExact'
        BY <2>0, <3>1, <3>2, <4>1 DEF PulledCommitIsExact, IsCurrent
      <4> QED
        BY <1>1, <2>0, <2>2, <4>2 DEF ImportInv, IsCurrent
    <3>8. CleanInv'
      <4>1. TouchedBy(pending) \subseteq Tables
        BY <1>1, Touched DEF TypeOK
      <4> QED
        BY <1>1, <2>0, <3>2, <4>1 DEF CleanInv
    <3> QED
      BY <3>6, <3>7, <3>8
  <2> QED
    BY <1>6, <2>1, <2>2 DEF AddTables
<1>7. ASSUME NEW c \in todo, CommitTables(c) PROVE PulledInv' /\ ImportInv' /\ CleanInv'
  <2>0. pc = "commit" /\ UNCHANGED <<serverLen, dirty, sidecar, upto, pending>>
    BY <1>7 DEF CommitTables
  <2>1. CASE pc' = "rollback"
    <3>1. UNCHANGED <<staged, todo, imported>>
      BY <1>7, <2>1 DEF CommitTables
    <3> QED
      BY <1>1, <2>0, <2>1, <3>1 DEF PulledInv, ImportInv, CleanInv, PulledCommitIsExact, IsCurrent
  <2>2. CASE pc' = "apply"
    <3>1. staged' = NoRows /\ imported' = {}
      BY <1>7, <2>2 DEF CommitTables
    <3>2. TouchedBy(pending) \subseteq Tables
      BY <1>1, Touched DEF TypeOK
    <3>3. PulledInv'
      BY <1>1, <2>0, <2>2, <3>1 DEF PulledInv, NoRows
    <3>4. ImportInv' /\ CleanInv'
      BY <1>1, <2>0, <2>2, <3>1, <3>2 DEF ImportInv, CleanInv, PulledCommitIsExact, NoRows
    <3> QED
      BY <3>3, <3>4
  <2> QED
    BY <1>7, <2>1, <2>2 DEF CommitTables
<1>8. CASE RecordApplied
  <2>1. \A t \in Tables : "pull" \notin dirty[t] \cup staged[t]
    BY <1>1, <1>8 DEF RecordApplied, PulledInv
  <2>2. UNCHANGED <<serverLen, dirty, staged, upto, pending, todo, imported>> /\ pc = "record"
        /\ pc' \in {"idle", "resolve", "rollback"}
    BY <1>8 DEF RecordApplied
  <2> QED
    BY <1>1, <2>1, <2>2 DEF PulledInv, ImportInv, CleanInv, PulledCommitIsExact, IsCurrent
<1>9. CASE RollbackReset
  <2>1. UNCHANGED <<serverLen, sidecar, upto, pending, todo, imported>> /\ pc = "rollbackReset"
    BY <1>9 DEF RollbackReset
  <2>2. CASE pc' = "idle" /\ UNCHANGED <<dirty, staged>>
    BY <2>1, <2>2, RowsAside
  <2>3. CASE /\ pc' = "rollbackDrop"
             /\ dirty' = [t \in Tables |-> IF t \in TouchedBy(pending) THEN {} ELSE dirty[t]]
             /\ staged' = [t \in Tables |-> IF t \in TouchedBy(pending) THEN {} ELSE staged[t]]
    <3>1. TouchedBy(pending) \subseteq Tables
      BY <1>1, Touched DEF TypeOK
    <3>2. \A t \in Tables : dirty'[t] \subseteq dirty[t] /\ staged'[t] \subseteq staged[t]
      BY <2>3
    <3>3. PulledInv'
      BY <1>1, <2>1, <2>3, <3>2 DEF PulledInv
    <3>4. ImportInv'
      BY <1>1, <2>1, <2>3 DEF ImportInv, PulledCommitIsExact, IsCurrent
    <3>5. CleanInv'
      BY <1>1, <2>1, <2>3, <3>1, <3>2 DEF CleanInv
    <3> QED
      BY <3>3, <3>4, <3>5
  <2> QED
    BY <1>9, <2>2, <2>3 DEF RollbackReset
<1>10. CASE ReadBase \/ CreateTemp \/ SwitchToTemp
  BY <1>1, <1>10, RowsAside DEF ReadBase, CreateTemp, SwitchToTemp
<1>11. CASE LoopDone
  <2>1. /\ pc = "apply" /\ todo = {} /\ pc' \in {"resolve", "record"}
        /\ UNCHANGED <<serverLen, dirty, staged, sidecar, upto, pending, todo, imported>>
    BY <1>11 DEF LoopDone
  <2>2. imported = {}
    BY <1>1, <2>1 DEF ImportInv
  <2> QED
    BY <2>1, <2>2, RowsAside
<1>12. CASE ResolveTempHead \/ AdvanceBranch \/ FinishCheckout
  BY <1>1, <1>12, RowsAside DEF ResolveTempHead, AdvanceBranch, FinishCheckout
<1>13. CASE FinishDrop \/ RollbackCheckout \/ RollbackDrop \/ AdvanceTrackingRef \/ SaveSyncState \/ CheckoutHome
  BY <1>1, <1>13, RowsAside
     DEF FinishDrop, RollbackCheckout, RollbackDrop, AdvanceTrackingRef, SaveSyncState, CheckoutHome
<1>14. CASE Crash
  BY <1>1, <1>14 DEF Crash, PulledInv, ImportInv, CleanInv, PulledCommitIsExact, IsCurrent
<1> QED
  BY <1>2, <1>3, <1>4, <1>5, <1>6, <1>7, <1>8, <1>9, <1>10, <1>11, <1>12, <1>13, <1>14 DEF Call

LEMMA RowsInvariant == ASSUME Undisturbed PROVE Spec => []RowsInv
<1>1. RowsInv /\ [Next]_vars => RowsInv'
  <2> SUFFICES ASSUME RowsInv, [Next]_vars PROVE RowsInv'
    OBVIOUS
  <2>1. OrderInv'
    BY OrderStep DEF RowsInv, Undisturbed
  <2>2. ASSUME UNCHANGED vars PROVE PulledInv' /\ ImportInv' /\ CleanInv'
    BY <2>2 DEF vars, repo, memory, RowsInv, PulledInv, ImportInv, CleanInv, PulledCommitIsExact, IsCurrent
  <2>3. PulledInv' /\ ImportInv' /\ CleanInv'
    BY <2>2, RowsEnvironment, RowsCall DEF Next, RowsInv
  <2> QED
    BY <2>1, <2>3 DEF RowsInv
<1> QED
  BY <1>1, RowsInit, PTL DEF Spec

\* A pulled commit takes all tables of its server commit, with exactly the rows
\* of the import, and rows of an import from no other table: whatever earlier
\* calls left staged when a command failed or the process died, and whatever
\* the user has staged, for any number of calls.
THEOREM ExactCommits == ASSUME Undisturbed PROVE Spec => []PulledCommitIsExact
<1>1. RowsInv => PulledCommitIsExact
  BY DEF RowsInv, ImportInv
<1> QED
  BY <1>1, RowsInvariant, PTL

\* Where the user's rows are, and how a pulled commit takes a staged one.
Taken(t) == pc = "commit" /\ t \notin TouchedBy(pending) /\ branches'[active] # branches[active]
Kept(t) ==
  /\ "user" \in dirty[t] => "user" \in dirty'[t]
  /\ "user" \in staged[t] => "user" \in staged'[t] \/ Taken(t)

LEMMA CommitIsNew ==
  ASSUME TypeInv, NEW c \in todo, CommitTables(c), pc' = "apply"
  PROVE  branches'[active] # branches[active]
<1>1. branches' = WithRef(active, Append(branches[active], c)) /\ active \in DOMAIN branches
  BY DEF TypeInv, TypeOK, CommitTables, Goto
<1>2. branches'[active] = Append(branches[active], c)
  BY <1>1 DEF WithRef
<1>3. branches[active] \in Seq(ServerCommits \cup {LocalCommit}) /\ c \in ServerCommits \cup {LocalCommit}
  BY <1>1, Histories DEF TypeInv, TypeOK, History
<1>4. Len(Append(branches[active], c)) # Len(branches[active])
  BY <1>3
<1> QED
  BY <1>2, <1>4

\* Under the same assumption no step of a call stages rows of the user or takes
\* unstaged ones out of the working set; rows that were staged when it began
\* stay staged or are part of a pulled commit, and those of its own tables stay.
THEOREM UserRowsSurvive == ASSUME Undisturbed PROVE Spec => LocalRowsSurvive
<1>1. ASSUME RowsInv, [Next]_vars, pc # "idle", NEW t \in Tables PROVE Kept(t)
  <2>1. TypeInv /\ TypeOK /\ CleanInv /\ BatchInv
    BY <1>1 DEF RowsInv, OrderInv, TypeInv
  <2>2. CASE \E c \in todo, x \in Tables : ImportTable(c, x)
    <3>1. PICK c \in todo, x \in Tables : ImportTable(c, x)
      BY <2>2
    <3>2. pc = "apply" /\ x \in Changes[c] /\ c \in pending /\ UNCHANGED staged
      BY <2>1, <3>1 DEF ImportTable, BatchInv, Before
    <3>3. "user" \in dirty[t] => x # t
      BY <2>1, <3>2, Touched DEF CleanInv, TypeOK
    <3> QED
      BY <2>1, <3>1, <3>2, <3>3 DEF ImportTable, TypeOK, Kept
  <2>3. CASE \E c \in todo : AddTables(c)
    <3>1. PICK c \in todo : AddTables(c)
      BY <2>3
    <3>2. pc = "apply" /\ c \in pending /\ (StagesTables(Changes[c]) \/ UNCHANGED <<dirty, staged>>)
      BY <2>1, <3>1 DEF AddTables, BatchInv, Before
    <3>3. "user" \in dirty[t] \cup staged[t] => t \notin Changes[c]
      BY <2>1, <3>2, Touched DEF CleanInv, TypeOK
    <3> QED
      BY <3>2, <3>3 DEF StagesTables, Kept
  <2>4. CASE \E c \in todo : CommitTables(c)
    <3>1. PICK c \in todo : CommitTables(c)
      BY <2>4
    <3>2. pc = "commit" /\ UNCHANGED dirty /\ (UNCHANGED staged \/ pc' = "apply")
      BY <3>1 DEF CommitTables, Goto
    <3>3. "user" \in staged[t] => t \notin TouchedBy(pending)
      BY <2>1, <3>2 DEF CleanInv
    <3> QED
      BY <2>1, <3>1, <3>2, <3>3, CommitIsNew DEF Kept, Taken
  <2>5. CASE RollbackReset
    <3>1. "user" \in dirty[t] \cup staged[t] => t \notin TouchedBy(pending)
      BY <2>1, <2>5 DEF RollbackReset, CleanInv
    <3> QED
      BY <2>5, <3>1 DEF RollbackReset, Kept
  <2>6. CASE \E x \in Tables : AppWrites(x)
    BY <2>1, <2>6 DEF AppWrites, TypeOK, Kept
  <2>7. CASE UNCHANGED <<dirty, staged>>
    BY <2>7 DEF Kept
  <2> QED
    BY <1>1, <2>2, <2>3, <2>4, <2>5, <2>6, <2>7
       DEF Next, Call, Environment, Start, CheckWorkingSet, ReadBase, CreateTemp, SwitchToTemp,
           SkipEmptyCommit, LoopDone, RecordApplied, ResolveTempHead, AdvanceBranch,
           FinishCheckout, FinishDrop, RollbackCheckout, RollbackDrop, AdvanceTrackingRef,
           SaveSyncState, CheckoutHome, Crash, ServerGrows, UserCommits, UserStages, UserUnstages,
           UserDiscards, UserChecksOut, repo, memory, vars
<1>2. RowsInv /\ [Next]_vars =>
        [pc # "idle" => \A t \in Tables :
           /\ "user" \in dirty[t] => "user" \in dirty'[t]
           /\ "user" \in staged[t] =>
                \/ "user" \in staged'[t]
                \/ pc = "commit" /\ t \notin TouchedBy(pending) /\ branches'[active] # branches[active]]_vars
  BY <1>1 DEF Kept, Taken
<1> QED
  BY <1>2, RowsInvariant, PTL DEF Spec, LocalRowsSurvive

(***************************************************************************)
(* The rollback.  Nothing but a death of the process or a failure of the   *)
(* rollback itself leaves rows of a call that failed, provided the branch  *)
(* to go back to exists: on the first fetch it does not, and the rollback  *)
(* ends at the checkout, before the reset.                                 *)
(***************************************************************************)
RollsBack == /\ {"crash", "backFails", "resetFails"} \cap Faults = {}
             /\ Materialized \/ ~OntoTracking

PulledRows == {t \in Tables : "pull" \in dirty[t] \cup staged[t]}

RollbackInv ==
  /\ Target \in DOMAIN branches
  /\ todo \subseteq pending
  /\ imported # {} => \E c \in todo : IsCurrent(c) /\ imported \subseteq Changes[c]
  /\ pc = "apply" => PulledRows \subseteq imported
  /\ pc = "commit" => PulledRows \subseteq TouchedBy(pending) /\ \A t \in Tables : "pull" \notin dirty[t]
  /\ pc \in {"rollback", "rollbackReset"} => PulledRows \subseteq TouchedBy(pending)
  /\ pc \notin {"apply", "commit", "rollback", "rollbackReset"} => PulledRows = {}

LEMMA RollbackInit == RollsBack /\ Init => RollbackInv
<1> SUFFICES ASSUME RollsBack, Init PROVE RollbackInv
  OBVIOUS
<1>1. Target \in DOMAIN branches
  BY DEF Init, RollsBack, Target
<1>2. PulledRows = {}
  BY DEF Init, NoRows, PulledRows
<1> QED
  BY <1>1, <1>2 DEF Init, RollbackInv

\* The target is never deleted, and the pulled rows depend on the working set.
LEMMA TargetStays == TypeInv /\ Target \in DOMAIN branches /\ [Next]_vars => Target \in DOMAIN branches'
<1> SUFFICES ASSUME TypeInv, Target \in DOMAIN branches, [Next]_vars PROVE Target \in DOMAIN branches'
  OBVIOUS
<1>1. CASE UNCHANGED branches
  BY <1>1
<1>2. CASE \E b, h : branches' = WithRef(b, h)
  BY <1>2 DEF WithRef
<1>3. CASE branches' = WithoutRef(Temp(attempt))
  BY <1>3, Names DEF WithoutRef
<1> QED
  BY <1>1, <1>2, <1>3
     DEF Next, Call, Environment, Start, CheckWorkingSet, ReadBase, CreateTemp, SwitchToTemp, ImportTable,
         SkipEmptyCommit, AddTables, CommitTables, LoopDone, RecordApplied, ResolveTempHead, AdvanceBranch,
         FinishCheckout, FinishDrop, RollbackCheckout, RollbackReset, RollbackDrop, AdvanceTrackingRef,
         SaveSyncState, CheckoutHome, Crash, ServerGrows, AppWrites, UserCommits, UserStages, UserUnstages, UserDiscards,
         UserChecksOut, repo, vars

\* The steps that leave the batch alone and bring no pulled row.
LEMMA RollbackAside ==
  ASSUME RollbackInv, Target \in DOMAIN branches', UNCHANGED <<pending, todo, imported>>,
         PulledRows' \subseteq PulledRows,
         \/ pc' = pc /\ pc # "commit"
         \/ /\ pc \notin {"apply", "commit", "rollback", "rollbackReset"}
            /\ pc' \notin {"apply", "commit"}
         \/ PulledRows' = {} /\ pc' \notin {"commit"}
  PROVE  RollbackInv'
BY DEF RollbackInv, IsCurrent

LEMMA RollbackEnvironment == TypeInv /\ RollbackInv /\ Environment => RollbackInv'
<1> SUFFICES ASSUME TypeInv, RollbackInv, Environment PROVE RollbackInv'
  OBVIOUS
<1>1. Target \in DOMAIN branches'
  BY TargetStays DEF RollbackInv, Next
<1>2. /\ UNCHANGED <<pending, todo, imported, pc>> /\ PulledRows' \subseteq PulledRows
      /\ pc = "idle" \/ \A t \in Tables : "pull" \in dirty'[t] => "pull" \in dirty[t]
  <2>1. CASE \E ts \in SUBSET Tables : UserStages(ts)
    BY <2>1 DEF UserStages, StagesTables, Uncommitted, memory, PulledRows, TypeInv, TypeOK
  <2>2. CASE UserUnstages
    BY <2>2 DEF UserUnstages, NoRows, Uncommitted, memory, PulledRows, TypeInv, TypeOK
  <2>3. CASE UserCommits \/ UserDiscards \/ UserChecksOut
    BY <2>3 DEF UserCommits, UserDiscards, UserChecksOut, NoRows, memory, PulledRows, TypeInv, TypeOK
  <2>4. CASE ServerGrows \/ \E t \in Tables : AppWrites(t)
    BY <2>4 DEF ServerGrows, AppWrites, repo, memory, PulledRows, TypeInv, TypeOK
  <2> QED
    BY <2>1, <2>2, <2>3, <2>4 DEF Environment
<1> QED
  BY <1>1, <1>2 DEF RollbackInv, IsCurrent

LEMMA RollbackCall == RollsBack /\ TypeInv /\ RollbackInv /\ Call => RollbackInv'
<1> SUFFICES ASSUME RollsBack, TypeInv, RollbackInv, Call PROVE RollbackInv'
  OBVIOUS
<1> USE DEF repo, memory, Goto
<1>1. TypeOK /\ Target \in DOMAIN branches'
  BY TargetStays DEF RollbackInv, Next, TypeInv
<1>2. CASE \E from \in {0, synced} : Start(from)
  <2>1. /\ pc = "idle" /\ pc' = "check" /\ todo' = pending' /\ imported' = {} /\ UNCHANGED <<dirty, staged>>
    BY <1>2 DEF Start
  <2> QED
    BY <1>1, <2>1 DEF RollbackInv, PulledRows
<1>3. ASSUME NEW c \in todo, NEW t \in Tables, ImportTable(c, t) PROVE RollbackInv'
  <2>1. /\ pc = "apply" /\ IsCurrent(c) /\ t \in Changes[c] /\ UNCHANGED <<staged, todo, pending>>
        /\ PulledRows' \subseteq PulledRows \cup {t}
    BY <1>1, <1>3 DEF ImportTable, PulledRows, TypeOK
  <2>2. imported \subseteq Changes[c]
    BY <1>1, <2>1, OneCurrent DEF RollbackInv
  <2>3. Changes[c] \subseteq TouchedBy(pending)
    BY <1>1, Touched DEF RollbackInv, TypeOK
  <2>4. CASE pc' = "apply" /\ imported' = imported \cup {t}
    BY <1>1, <2>1, <2>2, <2>4 DEF RollbackInv, IsCurrent
  <2>5. CASE pc' = "rollback" /\ UNCHANGED imported
    BY <1>1, <2>1, <2>2, <2>3, <2>5 DEF RollbackInv, IsCurrent
  <2> QED
    BY <1>3, <2>4, <2>5 DEF ImportTable
<1>4. ASSUME NEW c \in todo, SkipEmptyCommit(c) PROVE RollbackInv'
  <2>1. pc = "apply" /\ pc' = pc /\ IsCurrent(c) /\ Changes[c] = {} /\ todo' = todo \ {c}
        /\ UNCHANGED <<pending, imported, dirty, staged>>
    BY <1>4 DEF SkipEmptyCommit
  <2>2. imported = {}
    BY <1>1, <2>1, OneCurrent DEF RollbackInv
  <2> QED
    BY <1>1, <2>1, <2>2 DEF RollbackInv, PulledRows
<1>5. ASSUME NEW c \in todo, AddTables(c) PROVE RollbackInv'
  <2>1. /\ pc = "apply" /\ IsCurrent(c) /\ imported = Changes[c] /\ UNCHANGED <<todo, pending, imported>>
        /\ \/ pc' = "commit" /\ StagesTables(Changes[c])
           \/ pc' = "rollback" /\ UNCHANGED <<dirty, staged>>
    BY <1>5 DEF AddTables
  <2>2. Changes[c] \subseteq TouchedBy(pending) /\ PulledRows \subseteq Changes[c]
    BY <1>1, <2>1, Touched DEF RollbackInv, TypeOK
  <2>3. PulledRows' \subseteq PulledRows
    BY <2>1 DEF StagesTables, Uncommitted, PulledRows
  <2>4. pc' = "commit" => \A t \in Tables : "pull" \notin dirty'[t]
    BY <2>1, <2>2 DEF StagesTables, PulledRows
  <2> QED
    BY <1>1, <2>1, <2>2, <2>3, <2>4 DEF RollbackInv, IsCurrent
<1>6. ASSUME NEW c \in todo, CommitTables(c) PROVE RollbackInv'
  <2>1. CASE pc' = "rollback"
    <3>1. pc = "commit" /\ UNCHANGED <<staged, dirty, todo, pending, imported>>
      BY <1>6, <2>1 DEF CommitTables
    <3> QED
      BY <1>1, <2>1, <3>1 DEF RollbackInv, PulledRows, IsCurrent
  <2>2. CASE pc' = "apply"
    <3>1. /\ pc = "commit" /\ imported' = {} /\ todo' \subseteq todo /\ UNCHANGED pending
          /\ UNCHANGED dirty /\ staged' = NoRows
      BY <1>6, <2>2 DEF CommitTables
    <3>2. PulledRows' = {}
      BY <3>1 DEF RollbackInv, PulledRows, NoRows
    <3> QED
      BY <1>1, <2>2, <3>1, <3>2 DEF RollbackInv
  <2> QED
    BY <1>6, <2>1, <2>2 DEF CommitTables
<1>7. CASE LoopDone
  <2>1. pc = "apply" /\ todo = {} /\ pc' \in {"record", "resolve"} /\ UNCHANGED <<staged, dirty, pending, todo, imported>>
    BY <1>7 DEF LoopDone
  <2>2. PulledRows = {} /\ PulledRows' = {}
    BY <2>1 DEF RollbackInv, PulledRows
  <2> QED
    BY <1>1, <2>1, <2>2, RollbackAside
<1>8. CASE RollbackCheckout
  <2>1. pc = "rollback" /\ pc' = "rollbackReset" /\ UNCHANGED <<staged, dirty, pending, todo, imported>>
    BY <1>8 DEF RollbackCheckout, RollsBack, RollbackInv, Fails
  <2> QED
    BY <1>1, <2>1 DEF RollbackInv, PulledRows, IsCurrent
<1>9. CASE RollbackReset
  <2>1. /\ pc = "rollbackReset" /\ pc' = "rollbackDrop" /\ UNCHANGED <<pending, todo, imported>>
        /\ dirty' = [t \in Tables |-> IF t \in TouchedBy(pending) THEN {} ELSE dirty[t]]
        /\ staged' = [t \in Tables |-> IF t \in TouchedBy(pending) THEN {} ELSE staged[t]]
    BY <1>9 DEF RollbackReset, RollsBack, Fails
  <2>2. PulledRows' = {}
    BY <2>1 DEF RollbackInv, PulledRows
  <2> QED
    BY <1>1, <2>1, <2>2 DEF RollbackInv, IsCurrent
<1>10. CASE CheckWorkingSet \/ ReadBase \/ CreateTemp
  <2>1. /\ pc \in {"check", "base", "create"} /\ pc' \in {"idle", "base", "create", "switch"}
        /\ UNCHANGED <<staged, dirty, pending, todo, imported>>
    BY <1>10 DEF CheckWorkingSet, ReadBase, CreateTemp
  <2> QED
    BY <1>1, <2>1, RollbackAside DEF PulledRows
<1>11. CASE SwitchToTemp
  <2>1. pc = "switch" /\ pc' \in {"idle", "apply"} /\ UNCHANGED <<staged, dirty, pending, todo, imported>>
    BY <1>11 DEF SwitchToTemp
  <2> QED
    BY <1>1, <2>1, RollbackAside DEF PulledRows, RollbackInv
<1>12. CASE \/ RecordApplied \/ ResolveTempHead \/ AdvanceBranch \/ FinishCheckout \/ FinishDrop \/ RollbackDrop
            \/ AdvanceTrackingRef \/ SaveSyncState \/ CheckoutHome
  <2>1. /\ pc \notin {"apply", "commit", "rollback", "rollbackReset"} /\ pc' \notin {"apply", "commit"}
        /\ UNCHANGED <<staged, dirty, pending, todo, imported>>
    BY <1>12 DEF RecordApplied, ResolveTempHead, AdvanceBranch, FinishCheckout, FinishDrop, RollbackDrop,
                 AdvanceTrackingRef, SaveSyncState, CheckoutHome
  <2> QED
    BY <1>1, <2>1, RollbackAside DEF PulledRows
<1>13. ~Crash
  BY DEF Crash, RollsBack, Fails
<1> QED
  BY <1>2, <1>3, <1>4, <1>5, <1>6, <1>7, <1>8, <1>9, <1>10, <1>11, <1>12, <1>13 DEF Call

LEMMA RollbackInvariant == ASSUME RollsBack PROVE Spec => []RollbackInv
<1>1. TypeInv /\ RollbackInv /\ [Next]_vars => RollbackInv'
  <2> SUFFICES ASSUME TypeInv, RollbackInv, [Next]_vars PROVE RollbackInv'
    OBVIOUS
  <2>1. CASE UNCHANGED vars
    BY <2>1 DEF vars, repo, memory, RollbackInv, PulledRows, IsCurrent, Target
  <2> QED
    BY <2>1, RollbackCall, RollbackEnvironment DEF Next
<1> QED
  BY <1>1, RollbackInit, TypeCorrect, PTL DEF Spec

\* After a call that failed at any of its commands the working set holds none
\* of its rows: for any batches, any number of calls, an application writing
\* meanwhile, sidecars torn and status queries that fail open, as long as the
\* rollback itself works and the target branch exists.
THEOREM RollbackClears == ASSUME RollsBack PROVE Spec => []FailedApplyLeavesNoRows
<1>1. RollbackInv => FailedApplyLeavesNoRows
  BY DEF RollbackInv, PulledRows, FailedApplyLeavesNoRows
<1> QED
  BY <1>1, RollbackInvariant, PTL
=============================================================================
