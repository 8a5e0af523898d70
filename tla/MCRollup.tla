------------------------------ MODULE MCRollup ------------------------------
(* Small instances of Rollup for TLC. *)
EXTENDS Rollup, TLC

CONSTANTS h1, h2

Perms       == Permutations(Writers)

RowsTried   == {[value |-> 1, estimated |-> FALSE], [value |-> 2, estimated |-> TRUE]}
TablesTried == {{"svix", "custom"}}
ArchiveDays == {None, 0}
=============================================================================
