------------------------------- MODULE Range -------------------------------
(***************************************************************************)
(* The allocation range of one network: internal/ipam/range.go.            *)
(*                                                                         *)
(* An address is a W-bit number (W = 32 in the program) or NoAddr, the     *)
(* zero netip.Addr that Next() returns past the highest address.           *)
(***************************************************************************)
EXTENDS Integers, FiniteSetsExt

CONSTANTS W, NoAddr

Address == 0 .. (2^W - 1)

ASSUME RangeAssumption == W \in Nat /\ W >= 2 /\ NoAddr \notin Int

(* A fact of arithmetic, for the provers, which know no exponents.         *)
ASSUME PowersOfTwo ==
  /\ 2^W \in Nat
  /\ \A n \in 0 .. W : 2^n \in Nat \ {0} /\ 2^(W - n) \in Nat \ {0}
                      /\ 2^(W - n) * 2^n = 2^W

(* A CIDR prefix. Its block has 2^(W - bits) addresses. *)
Prefix == [addr : Address, bits : 0 .. W]

Block(p) == 2^(W - p.bits)

Masked(p) == [p EXCEPT !.addr = @ - (@ % Block(p))]

PrefixContains(p, a) == a \in Masked(p).addr .. (Masked(p).addr + Block(p) - 1)

(* network | ^mask: every host bit of the network address set. *)
Broadcast(p) == Masked(p).addr + Block(p) - 1

Range_ == [subnet : Prefix, gateway : Address, start : Address, end : Address]

(* What NewRange accepts. It does not ask where the gateway lies relative  *)
(* to start..end.                                                          *)
NewRangeAccepts(r) ==
  /\ r.subnet = Masked(r.subnet)
  /\ r.subnet.bits <= W - 2
  /\ \A a \in {r.gateway, r.start, r.end} : PrefixContains(r.subnet, a)
  /\ r.start <= r.end
  /\ r.gateway \notin {r.subnet.addr, Broadcast(r.subnet)}

(* A mistake: Contains without the exclusion of the reserved addresses. *)
ContainsReserved(r, a) ==
  /\ a \in Address
  /\ PrefixContains(r.subnet, a)
  /\ r.start <= a /\ a <= r.end

Contains(r, a) ==
  /\ a \in Address
  /\ PrefixContains(r.subnet, a)
  /\ r.start <= a /\ a <= r.end
  /\ a \notin {r.subnet.addr, Broadcast(r.subnet), r.gateway}

Usable(r) == {a \in Address : Contains(r, a)}

(* The address the scan of NextAvailable returns; see RangeScan. *)
LowestFree(r, used) == Min(Usable(r) \ used)

(* netip.Addr.Next: the successor, and the zero Addr past the last one. *)
NextAddr(a) == IF a \in Address /\ a + 1 \in Address THEN a + 1 ELSE NoAddr
=============================================================================
