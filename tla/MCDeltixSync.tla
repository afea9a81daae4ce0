---------------------------- MODULE MCDeltixSync ----------------------------
(* Small instances of DeltixSync for TLC. *)
EXTENDS DeltixSync, TLC

CONSTANTS c1, c2

AnyFault == {"applyFails", "advanceFails", "answerLost", "conflicts", "crash"}

\* Nothing fails between the write of the sidecar and the move of the branch.
AllButLostSidecar == {"applyFails", "answerLost", "conflicts", "crash"}

\* The clients run the same code on the same bounds.
Swaps == Permutations({c1, c2})
=============================================================================
