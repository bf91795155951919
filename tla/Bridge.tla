------------------------------- MODULE Bridge -------------------------------
(***************************************************************************)
(* EnsureBridge and CheckBridge (internal/network/bridge.go), one netlink  *)
(* request per step, while administrators and the kernel change the shared *)
(* bridge in between. Invocations of one network hold its lock, so there   *)
(* is one call at a time.                                                  *)
(*                                                                         *)
(* br is the link under the bridge's name. call is the running call:       *)
(*   pc       the request it makes next, then "done" or "failed"           *)
(*   op       "ensure" or "check"                                          *)
(*   snap     the link as EnsureBridge looked it up; later requests use    *)
(*            its index and trust its MTU, master and UP flag              *)
(*   seen     the same for the CheckBridge at the end                      *)
(*   created  LinkAdd has succeeded, and made is the link it made          *)
(* hist is history for the properties: the link when the call began,       *)
(* whether somebody else has changed it since then (disturbed) and since   *)
(* the final check began (late), whether a request has failed by itself    *)
(* (faulted) and whether it was the LinkDel of the rollback (stuck), and   *)
(* the link under the name that somebody else made before the call could   *)
(* have made one (shared).                                                 *)
(***************************************************************************)
EXTENDS Integers

CONSTANTS
  Id,                  \* identities of links, the interface indices
  NoLink,
  Mtu, SpecMtu,        \* the configured MTU is SpecMtu
  Address, Gateway,    \* IPv4 addresses with prefix; Gateway/subnet bits is expected
  OwnPort, ForeignPort,\* veth ports with an alias of this network, and all others
  Faults, MaxFaults

Link == [id : Id, kind : {"bridge", "other"}, mtu : Mtu, master : BOOLEAN, up : BOOLEAN,
         addrs : SUBSET Address, ports : SUBSET (OwnPort \cup ForeignPort)]

ASSUME BridgeAssumption ==
  /\ SpecMtu \in Mtu /\ Gateway \in Address /\ OwnPort \cap ForeignPort = {}
  /\ NoLink \notin Link /\ NoLink \notin Id /\ MaxFaults \in Nat

VARIABLES br, call, hist, budget

vars == <<br, call, hist, budget>>

Idle == [pc |-> "idle", op |-> "none", snap |-> NoLink, seen |-> NoLink,
         created |-> FALSE, made |-> NoLink]

Init ==
  /\ br = NoLink
  /\ call = Idle
  /\ hist = [start |-> NoLink, disturbed |-> FALSE, late |-> FALSE, faulted |-> FALSE,
             stuck |-> FALSE, shared |-> NoLink]
  /\ budget = MaxFaults
-----------------------------------------------------------------------------
(* What is asked of a link.                                                *)

(* validateBridgeTopology of a looked-up link and the ports it has now.    *)
Topology(l, ports) == ~l.master /\ ports \subseteq OwnPort

(* classifyIPv4Addresses *)
Absent(addrs) == addrs = {}
Present(addrs) == addrs = {Gateway}

RightKind(l) == l.kind = "bridge" /\ l.mtu = SpecMtu

Conflict(l) ==
  /\ l # NoLink
  /\ \/ ~RightKind(l) \/ ~Topology(l, l.ports)
     \/ ~Absent(l.addrs) /\ ~Present(l.addrs)

Complete(l) ==
  /\ l # NoLink /\ RightKind(l) /\ Topology(l, l.ports)
  /\ l.up /\ Present(l.addrs)

(* Requests by index reach the link only while it exists.                  *)
Alive(l) == br # NoLink /\ br.id = l.id
PortsOf(l) == IF Alive(l) THEN br.ports ELSE {}
AddrsOf(l) == IF Alive(l) THEN br.addrs ELSE {}
-----------------------------------------------------------------------------
At(pc) == call.pc = pc
Goto(pc) == call' = [call EXCEPT !.pc = pc]

(* A request fails by itself, and the call goes on at pc.                  *)
Failing(pc) ==
  /\ "netlink" \in Faults /\ budget > 0 /\ budget' = budget - 1
  /\ hist' = [hist EXCEPT !.faulted = TRUE, !.stuck = At("undo")]
  /\ Goto(pc)

NoFault == UNCHANGED <<hist, budget>>

(* A step that reads, and goes on at `to` if what it reads is in order.    *)
Reads(ok, to) ==
  /\ UNCHANGED br
  /\ (NoFault /\ Goto(IF ok THEN to ELSE "undo")) \/ Failing("undo")

Begin(op) ==
  /\ At("idle")
  /\ call' = [Idle EXCEPT !.op = op, !.pc = IF op = "ensure" THEN "find" ELSE "verify-link"]
  /\ hist' = [start |-> br, disturbed |-> FALSE, late |-> FALSE, faulted |-> FALSE,
              stuck |-> FALSE, shared |-> IF br = NoLink THEN NoLink ELSE br.id]
  /\ UNCHANGED <<br, budget>>

(* A mistake: a name nobody has is taken for a link. *)
FindBlind ==
  /\ At("find") /\ UNCHANGED br /\ NoFault
  /\ call' = [call EXCEPT !.snap = br, !.pc = "addresses"]

Find ==
  /\ At("find") /\ UNCHANGED br
  /\ \/ /\ NoFault
        /\ call' = [call EXCEPT !.snap = br, !.pc = IF br = NoLink THEN "add" ELSE "topology"]
     \/ Failing("failed")

NewBridge(i) == [id |-> i, kind |-> "bridge", mtu |-> SpecMtu, master |-> FALSE,
                 up |-> FALSE, addrs |-> {}, ports |-> {}]

(* A mistake: a link that somebody has made meanwhile counts as created. *)
AddAdopts ==
  /\ At("add")
  /\ \/ /\ NoFault
        /\ \E i \in Id :
             /\ br' = IF br = NoLink THEN NewBridge(i) ELSE br
             /\ call' = [call EXCEPT !.created = TRUE, !.pc = "reload",
                                     !.made = IF br = NoLink THEN i ELSE NoLink]
     \/ Failing("failed") /\ UNCHANGED br

(* LinkAdd; a link that somebody has made meanwhile is looked at, too.     *)
Add ==
  /\ At("add")
  /\ \/ /\ br = NoLink /\ NoFault
        /\ \E i \in Id : /\ br' = NewBridge(i)
                         /\ call' = [call EXCEPT !.created = TRUE, !.made = i, !.pc = "reload"]
     \/ br # NoLink /\ NoFault /\ Goto("reload") /\ UNCHANGED br
     \/ Failing("failed") /\ UNCHANGED br

(* A mistake: a new bridge that cannot be looked up is left behind. *)
ReloadAbandons ==
  /\ At("reload") /\ UNCHANGED br
  /\ \/ /\ NoFault
        /\ call' = [call EXCEPT !.snap = br, !.pc = IF br = NoLink THEN "failed" ELSE "topology"]
     \/ Failing("failed")

Reload ==
  /\ At("reload") /\ UNCHANGED br
  /\ \/ /\ NoFault
        /\ call' = [call EXCEPT !.snap = br, !.pc = IF br = NoLink THEN "undo" ELSE "topology"]
     \/ Failing("undo")

(* A mistake: the address comes before the look at the ports. *)
CheckTopologySkipped == At("topology") /\ Reads(RightKind(call.snap), "addresses")

(* Kind and MTU of the looked-up link, then the list of all links.         *)
CheckTopology ==
  At("topology")
    /\ Reads(RightKind(call.snap) /\ Topology(call.snap, PortsOf(call.snap)), "addresses")

(* A mistake: a bridge without an address is a conflict. *)
ListAddressesStrict ==
  At("addresses") /\ Reads(Present(AddrsOf(call.snap)), "set-up")

ListAddresses ==
  LET addrs == AddrsOf(call.snap)
  IN  /\ At("addresses")
      /\ Reads(Absent(addrs) \/ Present(addrs), IF Absent(addrs) THEN "add-address" ELSE "set-up")

AddAddress ==
  /\ At("add-address")
  /\ \/ /\ Alive(call.snap) /\ NoFault
        /\ br' = [br EXCEPT !.addrs = @ \cup {Gateway}]
        /\ Goto("set-up")
     \/ ~Alive(call.snap) /\ NoFault /\ Goto("undo") /\ UNCHANGED br
     \/ Failing("undo") /\ UNCHANGED br

BeginCheck ==
  /\ call' = [call EXCEPT !.pc = "verify-link"]
  /\ hist' = [hist EXCEPT !.late = FALSE]

(* Only if the link was down when it was looked up.                        *)
SetUp ==
  /\ At("set-up")
  /\ \/ call.snap.up /\ BeginCheck /\ UNCHANGED <<br, budget>>
     \/ /\ ~call.snap.up /\ Alive(call.snap)
        /\ br' = [br EXCEPT !.up = TRUE]
        /\ BeginCheck /\ UNCHANGED budget
     \/ ~call.snap.up /\ ~Alive(call.snap) /\ NoFault /\ Goto("undo") /\ UNCHANGED br
     \/ ~call.snap.up /\ Failing("undo") /\ UNCHANGED br

(* CheckBridge: requireBridge and MTU, the ports and UP, the addresses.    *)
VerifyLink ==
  /\ At("verify-link") /\ UNCHANGED br
  /\ \/ /\ br # NoLink /\ RightKind(br) /\ NoFault
        /\ call' = [call EXCEPT !.seen = br, !.pc = "verify-ports"]
     \/ ~(br # NoLink /\ RightKind(br)) /\ NoFault /\ Goto("undo")
     \/ Failing("undo")

(* A mistake: the UP flag is not checked, it was seen to already. *)
VerifyPortsOnly ==
  At("verify-ports") /\ Reads(Topology(call.seen, PortsOf(call.seen)), "verify-addresses")

VerifyPorts ==
  At("verify-ports")
    /\ Reads(Topology(call.seen, PortsOf(call.seen)) /\ call.seen.up, "verify-addresses")

VerifyAddresses == At("verify-addresses") /\ Reads(Present(AddrsOf(call.seen)), "done")

(* The link rollbackBridgeCreate is given: the one looked up after LinkAdd *)
(* or, when that failed, the candidate itself.                             *)
Target == IF call.snap = NoLink THEN call.made ELSE call.snap.id

Undo ==
  /\ At("undo")
  /\ \/ ~call.created /\ NoFault /\ Goto("failed") /\ UNCHANGED br
     \/ /\ call.created /\ NoFault /\ Goto("failed")
        /\ br' = IF br # NoLink /\ br.id = Target THEN NoLink ELSE br
     \/ call.created /\ Failing("failed") /\ UNCHANGED br

Return == (At("done") \/ At("failed")) /\ call' = Idle /\ UNCHANGED <<br, hist, budget>>

Step ==
  \/ Find \/ Add \/ Reload \/ CheckTopology \/ ListAddresses \/ AddAddress \/ SetUp
  \/ VerifyLink \/ VerifyPorts \/ VerifyAddresses \/ Undo
-----------------------------------------------------------------------------
(* What happens around the call.                                           *)

Crash ==
  /\ ~At("idle") /\ "crash" \in Faults /\ budget > 0 /\ budget' = budget - 1
  /\ call' = Idle
  /\ UNCHANGED <<br, hist>>

(* Every way an administrator can change one thing of the link. An index   *)
(* is not used again while the call may still use it.                      *)
InUse(i) == i \in {call.made} \/ \E l \in {call.snap, call.seen} \ {NoLink} : l.id = i

AdminLinks ==
  IF br = NoLink THEN {l \in Link : ~InUse(l.id) /\ l.ports = {}}
  ELSE {NoLink} \cup {[br EXCEPT !.up = ~@], [br EXCEPT !.master = ~@]}
         \cup {[br EXCEPT !.mtu = m] : m \in Mtu}
         \cup {[br EXCEPT !.addrs = a] : a \in SUBSET Address}
         \cup {[br EXCEPT !.ports = @ \cup {f}] : f \in ForeignPort}
         \cup {[br EXCEPT !.ports = @ \ ForeignPort]}

(* LinkAdd has not been asked for yet.                                     *)
BeforeAdd == call.pc \in {"idle", "find", "add"}

Disturb ==
  hist' = [hist EXCEPT !.disturbed = TRUE, !.late = TRUE,
                       !.shared = IF br' = NoLink THEN NoLink
                                  ELSE IF br = NoLink /\ BeforeAdd THEN br'.id ELSE @]

AdminActs ==
  /\ "admin" \in Faults /\ budget > 0 /\ budget' = budget - 1
  /\ br' \in AdminLinks \ {br}
  /\ Disturb
  /\ UNCHANGED call

(* Between two calls endpoints of the network attach and leave.            *)
EndpointAttaches(o) ==
  /\ At("idle") /\ br # NoLink /\ br.kind = "bridge"
  /\ br' = [br EXCEPT !.ports = @ \cup {o}]
  /\ UNCHANGED <<call, hist, budget>>

EndpointLeaves(o) ==
  /\ At("idle") /\ br # NoLink
  /\ br' = [br EXCEPT !.ports = @ \ {o}]
  /\ UNCHANGED <<call, hist, budget>>

Next ==
  \/ \E op \in {"ensure", "check"} : Begin(op)
  \/ Step \/ Return \/ Crash \/ AdminActs
  \/ \E o \in OwnPort : EndpointAttaches(o) \/ EndpointLeaves(o)

Spec == Init /\ [][Next]_vars
-----------------------------------------------------------------------------
Steps == {"idle", "find", "add", "reload", "topology", "addresses", "add-address", "set-up",
          "verify-link", "verify-ports", "verify-addresses", "undo", "done", "failed"}
CallState == [pc : Steps, op : {"ensure", "check", "none"}, snap : Link \cup {NoLink},
              seen : Link \cup {NoLink}, created : BOOLEAN, made : Id \cup {NoLink}]
History == [start : Link \cup {NoLink}, disturbed : BOOLEAN, late : BOOLEAN,
            faulted : BOOLEAN, stuck : BOOLEAN, shared : Id \cup {NoLink}]

(* Every variable has its type; requests by index always have one.         *)
BridgeTypeOK ==
  /\ br \in Link \cup {NoLink}
  /\ call \in CallState /\ hist \in History
  /\ budget \in 0..MaxFaults
  /\ call.pc \in {"topology", "addresses", "add-address", "set-up"} => call.snap # NoLink
  /\ call.pc \in {"verify-ports", "verify-addresses"} => call.seen # NoLink

(* The shared bridge outlives a call that fails: a link that was there     *)
(* when the call began, or that somebody made before its LinkAdd (which    *)
(* then returns EEXIST), is never deleted by it, nor is any link that an   *)
(* endpoint of the network is attached to (bridge.go:34-46, 215-225).      *)
SharedBridgeKept ==
  [][ Step /\ br # NoLink /\ br' = NoLink =>
        br.id # hist.shared /\ br.ports \cap OwnPort = {} ]_vars

(* A link of that name that was in conflict when the call began is left    *)
(* exactly as it was, unless others change it meanwhile (bridge.go:48-87). *)
ConflictsLeftAlone == ~At("idle") /\ Conflict(hist.start) /\ ~hist.disturbed => br = hist.start

(* Whatever others do before the final check, a call that succeeds without *)
(* a change after the check began leaves the complete bridge               *)
(* (bridge.go:99-108).                                                     *)
EnsureDelivers == At("done") /\ ~hist.late => Complete(br)

(* A call that nobody disturbs and whose requests work fails only because  *)
(* of a conflict, so the next ADD completes whatever a dead or a failed    *)
(* one has left; and CHECK fails only if something is missing              *)
(* (bridge.go:24-108, 113-143).                                            *)
EnsureHeals ==
  At("failed") /\ ~hist.disturbed /\ ~hist.faulted =>
    IF call.op = "ensure" THEN Conflict(hist.start) ELSE ~Complete(hist.start)

(* A call that fails leaves no bridge of its own, unless the removal fails *)
(* as well (bridge.go:39-46, 215-225).                                     *)
CreatedOrUndone ==
  At("failed") /\ call.created /\ br # NoLink /\ br.id = call.made => hist.stuck
=============================================================================
