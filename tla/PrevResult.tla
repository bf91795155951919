----------------------------- MODULE PrevResult -----------------------------
(***************************************************************************)
(* The result ADD hands to the runtime, which gives it back to CHECK as    *)
(* prevResult: internal/cni/result.go, prev_result.go and the end of       *)
(* Service.Check. The plugins of a chain extend the result before the      *)
(* runtime keeps it, and the runtime may keep an old one because an answer *)
(* did not reach it.                                                       *)
(*                                                                         *)
(* One endpoint of one network, whose kernel side is healthy; Cloudnet     *)
(* models how its record comes about. Slices are sequences, the index of   *)
(* an interface counts from 0 as in the result.                            *)
(***************************************************************************)
EXTENDS Integers, Sequences

CONSTANTS
  NetNS, HostNS,       \* paths of network namespaces; HostNS is the empty path
  Conf,                \* configurations: [bridge, mtu, gateway]
  Address,             \* addresses with prefix length
  IfName, HostName,    \* the names of the endpoint's two interfaces
  OtherName,           \* an interface name of other plugins
  Unbound, NoRecord, NoResult,
  MaxPlugins           \* bound: entries that other plugins add to one result

ASSUME PrevResultAssumption ==
  /\ HostNS \notin NetNS /\ Unbound \notin Int /\ MaxPlugins \in Nat
  /\ HostName # IfName /\ HostName # OtherName /\ IfName # OtherName
  /\ \A c \in Conf : c.bridge \notin {HostName, IfName, OtherName}
  /\ \A c, d \in Conf : c.bridge = d.bridge /\ c.mtu = d.mtu /\ c.gateway = d.gateway => c = d

(* A ready endpoint. Its record holds the configuration it was made under. *)
Record == [ns : NetNS, address : Address, conf : Conf]

(* A result of the CNI library, as far as CHECK looks at it.               *)
Name == {c.bridge : c \in Conf} \cup {HostName, IfName, OtherName}
AnInterface == [name : Name, sandbox : NetNS \cup {HostNS}, mtu : {c.mtu : c \in Conf}]
AnIP == [interface : Int \cup {Unbound}, v4 : BOOLEAN, address : Address,
         gateway : {c.gateway : c \in Conf}]
ARoute == [v4default : BOOLEAN, gateway : {c.gateway : c \in Conf}]
Result == [interfaces : Seq(AnInterface), ips : Seq(AnIP), routes : Seq(ARoute)]

ASSUME AbsenceAssumption == NoRecord \notin Record /\ NoResult \notin Result

VARIABLES
  conf,      \* the configuration the installed plugin insists on
  record,    \* the endpoint in the state file
  cache,     \* the runtime's prevResult
  origin,    \* the record the cache was made from
  plugins,   \* entries other plugins have added to it
  meddled,   \* one of them contradicts what this plugin reported
  verdict    \* of the last CHECK

vars == <<conf, record, cache, origin, plugins, meddled, verdict>>
-----------------------------------------------------------------------------
(* The kernel-facing facts of a record, as CHECK and ADD report them; the  *)
(* service has no MAC addresses and leaves them empty.                     *)
resultFromRecord(r, n) ==
  [ns |-> n, bridge |-> r.conf.bridge, host |-> HostName, ifname |-> IfName,
   mtu |-> r.conf.mtu, address |-> r.address, gateway |-> r.conf.gateway]

Interface(name, sandbox, mtu) == [name |-> name, sandbox |-> sandbox, mtu |-> mtu]

ContainerIP(d, i) == [interface |-> i, v4 |-> TRUE, address |-> d.address, gateway |-> d.gateway]

DefaultRoute(d) == [v4default |-> TRUE, gateway |-> d.gateway]

(* A mistake: the address is bound to the index past the last interface. *)
BuildResultPastEnd(d) ==
  [interfaces |-> <<Interface(d.bridge, HostNS, d.mtu), Interface(d.host, HostNS, d.mtu),
                    Interface(d.ifname, d.ns, d.mtu)>>,
   ips |-> <<ContainerIP(d, 3)>>, routes |-> <<DefaultRoute(d)>>]

BuildResult(d) ==
  [interfaces |-> <<Interface(d.bridge, HostNS, d.mtu), Interface(d.host, HostNS, d.mtu),
                    Interface(d.ifname, d.ns, d.mtu)>>,
   ips |-> <<ContainerIP(d, 2)>>, routes |-> <<DefaultRoute(d)>>]
-----------------------------------------------------------------------------
(* findInterface: the indices that match; exactly one has to.              *)
Matching(r, name, sandbox) ==
  {i \in DOMAIN r.interfaces :
     r.interfaces[i].name = name /\ r.interfaces[i].sandbox = sandbox}

(* A mistake: an interface is looked up by its name, wherever it is. *)
FindsByName(r, name, sandbox, mtu) ==
  \E i \in DOMAIN r.interfaces : r.interfaces[i].name = name /\ r.interfaces[i].mtu = mtu

(* findInterface and verifyInterface. *)
Finds(r, name, sandbox, mtu) ==
  \E i \in Matching(r, name, sandbox) :
     Matching(r, name, sandbox) = {i} /\ r.interfaces[i].mtu = mtu

(* A mistake: addresses that are bound to no interface are counted, too. *)
BoundIPv4sLoose(r, i) ==
  {k \in DOMAIN r.ips : r.ips[k].v4 /\ r.ips[k].interface \in {i - 1, Unbound}}

(* The IPv4 addresses bound to interface i of the slice.                   *)
BoundIPv4s(r, i) == {k \in DOMAIN r.ips : r.ips[k].v4 /\ r.ips[k].interface = i - 1}

IPv4Defaults(r) == {k \in DOMAIN r.routes : r.routes[k].v4default}

(* A mistake: the address of the container is not compared. *)
AddressAgreesBlind(r, d) == TRUE

AddressAgrees(r, d) ==
  \A i \in Matching(r, d.ifname, d.ns) : \E k \in BoundIPv4s(r, i) :
     /\ BoundIPv4s(r, i) = {k}
     /\ r.ips[k].address = d.address /\ r.ips[k].gateway = d.gateway

RouteAgrees(r, d) ==
  \E k \in IPv4Defaults(r) :
     IPv4Defaults(r) = {k} /\ r.routes[k].gateway = d.gateway

ValidatePrevResult(r, d) ==
  \/ r = NoResult
  \/ /\ Finds(r, d.ifname, d.ns, d.mtu)
     /\ Finds(r, d.bridge, HostNS, d.mtu)
     /\ Finds(r, d.host, HostNS, d.mtu)
     /\ AddressAgrees(r, d)
     /\ RouteAgrees(r, d)
-----------------------------------------------------------------------------
Init ==
  /\ conf \in Conf
  /\ record = NoRecord /\ cache = NoResult /\ origin = NoRecord
  /\ plugins = 0 /\ meddled = FALSE
  /\ verdict = "none"

Cached(c, r) == cache' = c /\ origin' = r /\ plugins' = 0 /\ meddled' = FALSE

KeepCache == UNCHANGED <<cache, origin, plugins, meddled>>

(* A repeated ADD keeps the address and takes the new namespace; under     *)
(* another configuration it is refused.                                    *)
Added(n) ==
  IF record = NoRecord THEN {[ns |-> n, address |-> a, conf |-> conf] : a \in Address}
  ELSE {r \in {[record EXCEPT !.ns = n]} : r.conf = conf}

(* ADD; the answer reaches the runtime, which keeps the result, or not.    *)
Add(n) ==
  /\ record' \in Added(n) /\ UNCHANGED conf
  /\ \/ Cached(BuildResult(resultFromRecord(record', n)), record')
     \/ KeepCache
  /\ verdict' = "none"

(* DEL; the runtime drops its copy when it hears of the success.           *)
Del ==
  /\ record # NoRecord /\ record' = NoRecord /\ UNCHANGED conf
  /\ Cached(NoResult, NoRecord) \/ KeepCache
  /\ verdict' = "none"

(* A plugin with other fixed values is installed, and perhaps the state of *)
(* the network removed to make it work; the runtime keeps what it has.     *)
Reinstall(c, r) ==
  /\ conf' = c /\ record' = r
  /\ KeepCache /\ verdict' = "none"

recordMatchesInvocation(n) == record.ns = n /\ record.conf = conf

Check(n) ==
  /\ verdict' = IF record = NoRecord \/ ~recordMatchesInvocation(n) THEN "mismatch"
                ELSE IF ValidatePrevResult(cache, resultFromRecord(record, n)) THEN "ok"
                ELSE "refused"
  /\ UNCHANGED <<conf, record>> /\ KeepCache
-----------------------------------------------------------------------------
(* What other plugins of the chain add: an interface in the host or in the *)
(* same container, before or behind the others; an address on another      *)
(* interface, on none, or of IPv6; a route that is no IPv4 default.        *)
Plugin(r) ==
  /\ cache # NoResult /\ plugins < MaxPlugins
  /\ cache' = r /\ plugins' = plugins + 1
  /\ UNCHANGED <<conf, record, origin>> /\ verdict' = "none"

Shifted(ips) == [k \in DOMAIN ips |->
  IF ips[k].interface = Unbound THEN ips[k] ELSE [ips[k] EXCEPT !.interface = @ + 1]]

ForeignInterfaces ==
  {Interface(OtherName, s, c.mtu) : s \in {HostNS, origin.ns}, c \in {origin.conf}}
    \cup {Interface(IfName, HostNS, c.mtu) : c \in {origin.conf}}

AddsInterface ==
  /\ \E f \in ForeignInterfaces :
       /\ Matching(cache, f.name, f.sandbox) = {}
       /\ \/ Plugin([cache EXCEPT !.interfaces = Append(@, f)])
          \/ Plugin([cache EXCEPT !.interfaces = <<f>> \o @, !.ips = Shifted(@)])
  /\ UNCHANGED meddled

IsContainer(i) == cache.interfaces[i].name = IfName /\ cache.interfaces[i].sandbox = origin.ns

AddsAddress ==
  /\ \E i \in (DOMAIN cache.interfaces) \cup {Unbound}, v4 \in BOOLEAN, a \in Address :
       /\ v4 /\ i # Unbound => ~IsContainer(i)
       /\ Plugin([cache EXCEPT !.ips = Append(@,
            [interface |-> IF i = Unbound THEN i ELSE i - 1, v4 |-> v4, address |-> a,
             gateway |-> origin.conf.gateway])])
  /\ UNCHANGED meddled

AddsRoute ==
  /\ Plugin([cache EXCEPT !.routes = Append(@, [v4default |-> FALSE,
                                                gateway |-> origin.conf.gateway])])
  /\ UNCHANGED meddled

(* A second IPv4 address of the container, a second default route.         *)
Meddles ==
  /\ \/ \E i \in DOMAIN cache.interfaces, a \in Address :
          /\ IsContainer(i)
          /\ Plugin([cache EXCEPT !.ips = Append(@,
               [interface |-> i - 1, v4 |-> TRUE, address |-> a,
                gateway |-> origin.conf.gateway])])
     \/ Plugin([cache EXCEPT !.routes = Append(@, [v4default |-> TRUE,
                                                   gateway |-> origin.conf.gateway])])
  /\ meddled' = TRUE

Chain == cache # NoResult /\ (AddsInterface \/ AddsAddress \/ AddsRoute \/ Meddles)

Next ==
  \/ \E n \in NetNS : Add(n) \/ Check(n)
  \/ \E c \in Conf, r \in {record, NoRecord} : Reinstall(c, r)
  \/ Del \/ Chain

Spec == Init /\ [][Next]_vars
-----------------------------------------------------------------------------
(* Every address of a result that is bound names an interface of the same  *)
(* result, however many plugins have put theirs in front: the indices are  *)
(* part of the protocol (result.go:26-28).                                 *)
PrevTypeOK ==
  /\ conf \in Conf /\ record \in Record \cup {NoRecord} /\ origin \in Record \cup {NoRecord}
  /\ plugins \in 0 .. MaxPlugins /\ meddled \in BOOLEAN
  /\ verdict \in {"none", "ok", "mismatch", "refused"}
  /\ (cache = NoResult) <=> (origin = NoRecord)
  /\ cache \in Result \cup {NoResult}
  /\ cache # NoResult =>
       \A k \in DOMAIN cache.ips :
         cache.ips[k].interface # Unbound => cache.ips[k].interface + 1 \in DOMAIN cache.interfaces

(* CHECK never turns down the result of the very ADD it checks, whatever a *)
(* chain of plugins has added to it that is not about this endpoint's      *)
(* IPv4: foreign interfaces and addresses are none of its business         *)
(* (prev_result.go:73-74).                                                 *)
AcceptsOwn == verdict = "refused" => origin # record \/ meddled

(* CHECK never passes with the result of another incarnation of the        *)
(* endpoint: one in another namespace, with another address or from        *)
(* another configuration (prev_result.go:37, 80-97).                       *)
RefusesStale == verdict = "ok" /\ cache # NoResult => origin = record
=============================================================================
