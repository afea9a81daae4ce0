----------------------------- MODULE MCSession ------------------------------
(* Small instances of Session for TLC. *)
EXTENDS Session

CONSTANTS alice, bob, t1, t2
=============================================================================
