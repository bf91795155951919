----------------------------- MODULE Validation -----------------------------
(***************************************************************************)
(* The layers that check the addresses of a network on the way from the    *)
(* configuration to the kernel and the state file: each has its own rules  *)
(* and its own computation of the broadcast address.                       *)
(*   config/validate.go   IPAMConfig.validate, lastIPv4                    *)
(*   ipam/range.go        NewRange, ipv4Broadcast (see Range)              *)
(*   network/types.go     validateBridgeSpec, validateEndpointSpec         *)
(*   endpoint/state.go    Record.Validate                                  *)
(*                                                                         *)
(* uint32 is arithmetic modulo 2^W. An or of a network address and a mask  *)
(* of host bits is their sum. The comparison with the constants of V1 that *)
(* ends IPAMConfig.validate is left out: it picks one of these networks.   *)
(***************************************************************************)
EXTENDS Range

Ones == 2^W - 1

ShiftLeft(x, n) == (x * 2^n) % 2^W

(* A mistake: the host bits without the lowest one. *)
lastIPv4Short(p) == p.addr + ((ShiftLeft(1, W - p.bits) - 2) % 2^W)

(* For a prefix of no bits 1 is shifted out, and 0 - 1 is all ones.        *)
lastIPv4(p) == p.addr + ((ShiftLeft(1, W - p.bits) - 1) % 2^W)

ipv4Broadcast(p) ==
  p.addr + (Ones - (IF p.bits > 0 THEN ShiftLeft(Ones, W - p.bits) ELSE 0))

isIPv4Broadcast(a, p) ==
  a = Masked(p).addr + (IF p.bits = 0 THEN Ones ELSE Ones \div 2^p.bits)

(* A mistake: a gateway inside the range is not noticed. *)
ConfigAcceptsGatewayInside(r) ==
  /\ r.subnet = Masked(r.subnet) /\ r.subnet.bits <= W - 2
  /\ \A a \in {r.gateway, r.start, r.end} :
       /\ PrefixContains(r.subnet, a)
       /\ a \notin {r.subnet.addr, lastIPv4(r.subnet)}
  /\ r.start <= r.end

(* IPAMConfig.validate *)
ConfigAccepts(r) ==
  /\ r.subnet = Masked(r.subnet) /\ r.subnet.bits <= W - 2
  /\ \A a \in {r.gateway, r.start, r.end} :
       /\ PrefixContains(r.subnet, a)
       /\ a \notin {r.subnet.addr, lastIPv4(r.subnet)}
  /\ r.start <= r.end
  /\ r.gateway \notin r.start .. r.end

(* validateBridgeSpec *)
BridgeAccepts(r) ==
  /\ r.subnet = Masked(r.subnet)
  /\ PrefixContains(r.subnet, r.gateway)
  /\ r.gateway # r.subnet.addr /\ ~isIPv4Broadcast(r.gateway, r.subnet)

(* validateEndpointSpec of the address with the prefix length of the       *)
(* subnet, as endpointSpecFromRecord builds it.                            *)
EndpointAccepts(r, a) ==
  LET network == Masked([addr |-> a, bits |-> r.subnet.bits]) IN
  /\ PrefixContains(network, r.gateway)
  /\ a \notin {network.addr, r.gateway} /\ ~isIPv4Broadcast(a, network)

(* Record.Validate; the range is what persistedNetworkConfig turns into a  *)
(* Range again on every load.                                              *)
RecordAccepts(r, a) ==
  /\ r.subnet = Masked(r.subnet)
  /\ \A b \in {a, r.gateway, r.start, r.end} : PrefixContains(r.subnet, b)
  /\ r.start <= r.end
=============================================================================
