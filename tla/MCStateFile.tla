---------------------------- MODULE MCStateFile ----------------------------
(* Two invocations at once that create the path networks/<name> below the  *)
(* state root; one directory to spare at each level.                       *)
EXTENDS StateFile, TLC

CONSTANTS p1, p2, r, a1, a2, b1, b2

MCProc == {p1, p2}
MCDir == {r, a1, a2, b1, b2}
MCLevel == [d \in MCDir |-> IF d = r THEN 0 ELSE IF d \in {a1, a2} THEN 1 ELSE 2]

Symmetry ==
  Permutations(MCProc) \cup Permutations({a1, a2}) \cup Permutations({b1, b2})
=============================================================================
