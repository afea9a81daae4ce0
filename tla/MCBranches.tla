----------------------------- MODULE MCBranches -----------------------------
(* Small instances of Branches for TLC. *)
EXTENDS Branches

CONSTANTS main, dev, temp1, t1
=============================================================================
