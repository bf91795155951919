------------------------------ MODULE MCStore ------------------------------
(* Two invocations at once on a network with three endpoints. The pools are  *)
(* the usable addresses of two ranges of a three-bit address space, one    *)
(* with the gateway among its addresses.                                   *)
EXTENDS Store, TLC

CONSTANTS p1, p2, k1, k2, k3, c1, c2

R == INSTANCE Range WITH W <- 3, NoAddr <- "none"

Subnet == [addr |-> 0, bits |-> 0]
RangeOf == [c \in {c1, c2} |->
  IF c = c1 THEN [subnet |-> Subnet, gateway |-> 2, start |-> 1, end |-> 4]
            ELSE [subnet |-> Subnet, gateway |-> 1, start |-> 4, end |-> 4]]

MCProc == {p1, p2}
MCKey == {k1, k2, k3}
MCConfig == {c1, c2}
MCAddr == {1, 3, 4}
MCPool == [c \in MCConfig |-> R!Usable(RangeOf[c])]

Symmetry == Permutations(MCProc) \cup Permutations(MCKey)
=============================================================================
