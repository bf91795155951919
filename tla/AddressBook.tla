---------------------------- MODULE AddressBook ----------------------------
(***************************************************************************)
(* What the plugin promises the containers of one network, without locks,  *)
(* transactions, rollbacks and crashes: an address goes from its           *)
(* assignment to its release through one life cycle, in step with the link *)
(* that carries it. Cloudnet.tla implements this book.                     *)
(*                                                                         *)
(* An entry is recorded (pending) before its link is made, becomes ready   *)
(* only when the link is complete, and is released only when the link is   *)
(* gone; a new one is never ready at once. This is the state diagram of    *)
(* internal/endpoint/state.go together with the order of the ADD and DEL   *)
(* transactions in internal/cni/service.go.                                *)
(***************************************************************************)
CONSTANTS Key, Addr,
  NoAddr      \* not in Addr

VARIABLES
  phase,      \* phase[k]: "none", "pending" or "ready"
  ip,         \* ip[k]: the address recorded for k, or NoAddr
  link        \* link[k]: "none", "partial" or "complete"

bookVars == <<phase, ip, link>>

BookInit ==
  /\ phase = [k \in Key |-> "none"]
  /\ ip = [k \in Key |-> NoAddr]
  /\ link = [k \in Key |-> "none"]

Assign(k, a) ==
  /\ phase[k] = "none" /\ link[k] = "none"
  /\ \A j \in Key : ip[j] # a
  /\ phase' = [phase EXCEPT ![k] = "pending"]
  /\ ip' = [ip EXCEPT ![k] = a]
  /\ UNCHANGED link

Build(k) ==
  /\ phase[k] = "pending" /\ link[k] = "none"
  /\ link' = [link EXCEPT ![k] = "partial"]
  /\ UNCHANGED <<phase, ip>>

Complete(k) ==
  /\ phase[k] = "pending" /\ link[k] = "partial"
  /\ link' = [link EXCEPT ![k] = "complete"]
  /\ UNCHANGED <<phase, ip>>

Activate(k) ==
  /\ phase[k] = "pending" /\ link[k] = "complete"
  /\ phase' = [phase EXCEPT ![k] = "ready"]
  /\ UNCHANGED <<ip, link>>

(* A retry that finds the endpoint broken takes it out of service first.   *)
Quarantine(k) ==
  /\ phase[k] = "ready"
  /\ phase' = [phase EXCEPT ![k] = "pending"]
  /\ UNCHANGED <<ip, link>>

Remove(k) ==
  /\ link[k] # "none"
  /\ link' = [link EXCEPT ![k] = "none"]
  /\ UNCHANGED <<phase, ip>>

Free(k) ==
  /\ phase[k] # "none" /\ link[k] = "none"
  /\ phase' = [phase EXCEPT ![k] = "none"]
  /\ ip' = [ip EXCEPT ![k] = NoAddr]
  /\ UNCHANGED link

BookNext ==
  \E k \in Key :
    \/ \E a \in Addr : Assign(k, a)
    \/ Build(k) \/ Complete(k) \/ Activate(k) \/ Quarantine(k) \/ Remove(k) \/ Free(k)

BookSpec == BookInit /\ [][BookNext]_bookVars
-----------------------------------------------------------------------------
(* No two keys hold the same address, and a link exists only while an      *)
(* address is recorded for its key.                                        *)
BookInvariant ==
  /\ phase \in [Key -> {"none", "pending", "ready"}]
  /\ ip \in [Key -> Addr \cup {NoAddr}]
  /\ link \in [Key -> {"none", "partial", "complete"}]
  /\ \A k \in Key : phase[k] = "none" <=> ip[k] = NoAddr
  /\ \A k \in Key : link[k] # "none" => phase[k] # "none"
  /\ \A j, k \in Key : ip[j] = ip[k] /\ ip[j] # NoAddr => j = k
=============================================================================
