------------------------------ MODULE MCBridge ------------------------------
(* One bridge that others may replace twice during a call, two MTUs, the   *)
(* gateway and another address, a port of each kind.                       *)
EXTENDS Bridge, TLC

CONSTANTS i1, i2, i3

MCId == {i1, i2, i3}

Symmetry == Permutations(MCId)
=============================================================================
