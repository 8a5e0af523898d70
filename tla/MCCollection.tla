---------------------------- MODULE MCCollection ----------------------------
(* Small instances of Collection for TLC. *)
EXTENDS Collection, TLC

CONSTANTS w1, w2

\* Requests are interchangeable.
Symmetric == Permutations({w1, w2})
=============================================================================
