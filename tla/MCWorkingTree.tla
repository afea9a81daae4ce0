--------------------------- MODULE MCWorkingTree ---------------------------
(* Small instances of WorkingTree for TLC. *)
EXTENDS WorkingTree

CONSTANTS a, b

\* The third schema is the second with foreign keys.
MCKeyless == <<1, 2, 2>>
=============================================================================
