--------------------------- MODULE MCApplyCommits ---------------------------
(* Small instances of ApplyCommits for TLC. *)
EXTENDS ApplyCommits

CONSTANTS t1, t2

\* Commit 1 writes t1, commit 2 both tables, commit 3 has no tables.
MCChanges    == <<{t1}, {t1, t2}, {}>>
MCTwoCommits == <<{t1}, {t1, t2}>>

\* The largest fault model under which applyCommits keeps its promises: every
\* command may fail and the process may die anywhere between two steps.
CrashesAndFailures == CommandFaults \cup {"crash"}

\* Everything but a death of the process and failures of the rollback itself:
\* commands and queries fail, a sidecar is torn, the application writes.
RollbackWorks == (AllFaults \ {"crash", "headFails"}) \ {"backFails", "resetFails"}
=============================================================================
