--------------------------- MODULE MCCustomIndex ---------------------------
(* Small instance of CustomIndex for TLC. *)
EXTENDS CustomIndex, TLC

CONSTANTS c1, c2, k1, k2, a, b

Both == [s \in {a, b} |-> IF s = a THEN 75 ELSE 25]
Saves ==
  {[name |-> 1, enabled |-> TRUE, policy |-> "STRICT", weights |-> [s \in {a} |-> 100]],
   [name |-> 1, enabled |-> TRUE, policy |-> "RENORMALIZE", weights |-> Both],
   [name |-> 2, enabled |-> FALSE, policy |-> "STRICT", weights |-> Both]}

Published == {{a}, {a, b}}
Symmetric == Permutations({c1, c2}) \cup Permutations({k1, k2})
=============================================================================
