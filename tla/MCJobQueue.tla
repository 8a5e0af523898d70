----------------------------- MODULE MCJobQueue -----------------------------
(* Small instances of JobQueue for TLC. *)
EXTENDS JobQueue, TLC

CONSTANTS w1, w2, c1, c2, r1, r2

\* Requests are interchangeable, and so are ranges: no property names one.
Symmetric == Permutations({w1, w2}) \cup Permutations({c1, c2}) \cup Permutations({r1, r2})
=============================================================================
