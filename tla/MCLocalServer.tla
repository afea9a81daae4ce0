---------------------------- MODULE MCLocalServer ----------------------------
(* Small instances of LocalServer for TLC: checkouts and bare repositories. *)
EXTENDS LocalServer, TLC

CONSTANTS t1, t2, shopA, shopB, shop, blog, Shop, Blog

\* Two checkouts and the bare name of one repository, and another repository.
RepoNames == [i \in Projects |-> IF i = blog THEN Blog ELSE Shop]
=============================================================================
