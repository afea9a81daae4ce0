------------------------------ MODULE PullLog -------------------------------
(***************************************************************************)
(* What applyCommits promises about one branch and the sidecar that lists  *)
(* the server commits already applied to it: the branch only grows; it     *)
(* takes server commits a whole batch at a time, in server order, each at  *)
(* most once and only after the sidecar lists it; and the sidecar always   *)
(* lists an initial part of the server's history.                          *)
(***************************************************************************)
EXTENDS Naturals, Sequences

CONSTANT Carrying   \* the server commits that change some table

VARIABLES
  log,       \* the branch: server commits (positive) and local commits (0)
  recorded   \* the server commits the sidecar lists

Entries(s)     == {s[i] : i \in DOMAIN s}
InitialPart(S) == \A n \in S : \A m \in 1..n : m \in S
Appended(s, t) == {t[i] : i \in (Len(s) + 1)..Len(t)}

Extends(s, t)  == /\ Len(s) <= Len(t)
                  /\ \A i \in 1..Len(s) : t[i] = s[i]

Ascending(s)   == \A i, j \in DOMAIN s : i < j /\ s[i] # 0 /\ s[j] # 0 => s[i] < s[j]

Init == log = << >> /\ recorded = {}

\* A batch is written down as applied.
Record == /\ recorded \subseteq recorded'
          /\ InitialPart(recorded')
          /\ UNCHANGED log

\* The branch takes carrying commits that are recorded, in server order.
Advance == /\ Extends(log, log')
           /\ Ascending(log')
           /\ Appended(log, log') \subseteq recorded \cap Carrying
           /\ UNCHANGED recorded

\* The user commits on the branch.
Commit == /\ log' = Append(log, 0)
          /\ UNCHANGED recorded

Next == Record \/ Advance \/ Commit

Spec == Init /\ [][Next]_<<log, recorded>>
=============================================================================
