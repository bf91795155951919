-------------------------- MODULE PrevResultProofs --------------------------
(***************************************************************************)
(* What ValidatePrevResult accepts of the results that ADD builds, for all *)
(* namespaces, addresses and configurations.                               *)
(***************************************************************************)
EXTENDS PrevResult, TLAPS

Data(q) == resultFromRecord(q, q.ns)

(* The result that ADD builds, entry by entry.                             *)
LEMMA Built ==
  ASSUME NEW q \in Record, NEW r, r = BuildResult(Data(q))
  PROVE  /\ DOMAIN r.interfaces = {1, 2, 3}
         /\ r.interfaces[1] = Interface(q.conf.bridge, HostNS, q.conf.mtu)
         /\ r.interfaces[2] = Interface(HostName, HostNS, q.conf.mtu)
         /\ r.interfaces[3] = Interface(IfName, q.ns, q.conf.mtu)
         /\ DOMAIN r.ips = {1} /\ DOMAIN r.routes = {1}
         /\ r.ips[1] = [interface |-> 2, v4 |-> TRUE, address |-> q.address,
                        gateway |-> q.conf.gateway]
         /\ r.routes[1] = [v4default |-> TRUE, gateway |-> q.conf.gateway]
  BY DEF BuildResult, Data, resultFromRecord, ContainerIP, DefaultRoute

(* It is a result.                                                         *)
LEMMA BuiltTyped ==
  ASSUME NEW q \in Record, NEW r, r = BuildResult(Data(q))
  PROVE  r \in Result /\ r # NoResult
<1>0. q.ns \in NetNS /\ q.conf \in Conf /\ q.address \in Address  BY DEF Record
<1>1. /\ Interface(q.conf.bridge, HostNS, q.conf.mtu) \in AnInterface
      /\ Interface(HostName, HostNS, q.conf.mtu) \in AnInterface
      /\ Interface(IfName, q.ns, q.conf.mtu) \in AnInterface
  BY <1>0 DEF Interface, AnInterface, Name
<1>2. ContainerIP(Data(q), 2) \in AnIP /\ DefaultRoute(Data(q)) \in ARoute
  BY <1>0 DEF ContainerIP, DefaultRoute, Data, resultFromRecord, AnIP, ARoute
<1>3. r = [interfaces |-> <<Interface(q.conf.bridge, HostNS, q.conf.mtu),
                              Interface(HostName, HostNS, q.conf.mtu),
                              Interface(IfName, q.ns, q.conf.mtu)>>,
             ips |-> <<ContainerIP(Data(q), 2)>>, routes |-> <<DefaultRoute(Data(q))>>]
  BY DEF BuildResult, Data, resultFromRecord
<1>4. r \in Result  BY <1>1, <1>2, <1>3 DEF Result
<1>5. QED  BY <1>4, AbsenceAssumption

(* Each of the three is the only one of its name in its namespace.         *)
LEMMA BuiltMatching ==
  ASSUME NEW q \in Record, NEW r, r = BuildResult(Data(q))
  PROVE  /\ Matching(r, IfName, q.ns) = {3}
         /\ Matching(r, q.conf.bridge, HostNS) = {1}
         /\ Matching(r, HostName, HostNS) = {2}
         /\ \A n \in NetNS \ {q.ns} : Matching(r, IfName, n) = {}
         /\ \A c \in Conf : c.bridge # q.conf.bridge => Matching(r, c.bridge, HostNS) = {}
<1>1. /\ q.ns \in NetNS /\ q.conf \in Conf /\ q.ns # HostNS
      /\ q.conf.bridge \notin {HostName, IfName}
  BY PrevResultAssumption DEF Record
<1>2. /\ r.interfaces[1].name = q.conf.bridge /\ r.interfaces[1].sandbox = HostNS
      /\ r.interfaces[2].name = HostName /\ r.interfaces[2].sandbox = HostNS
      /\ r.interfaces[3].name = IfName /\ r.interfaces[3].sandbox = q.ns
  <2>1. /\ r.interfaces[1] = Interface(q.conf.bridge, HostNS, q.conf.mtu)
        /\ r.interfaces[2] = Interface(HostName, HostNS, q.conf.mtu)
        /\ r.interfaces[3] = Interface(IfName, q.ns, q.conf.mtu)
    BY Built
  <2>2. QED  BY <2>1 DEF Interface
<1>2a. DOMAIN r.interfaces = {1, 2, 3}  BY Built
<1>3. /\ Matching(r, IfName, q.ns) = {3}
      /\ Matching(r, q.conf.bridge, HostNS) = {1}
      /\ Matching(r, HostName, HostNS) = {2}
  BY <1>1, <1>2, <1>2a DEF Matching
<1>4. ASSUME NEW n \in NetNS \ {q.ns} PROVE Matching(r, IfName, n) = {}
  BY <1>1, <1>2, <1>2a, PrevResultAssumption DEF Matching
<1>5. ASSUME NEW c \in Conf, c.bridge # q.conf.bridge PROVE Matching(r, c.bridge, HostNS) = {}
  BY <1>1, <1>2, <1>2a, <1>5, PrevResultAssumption DEF Matching
<1>6. QED  BY <1>3, <1>4, <1>5

(* CHECK accepts the result of an ADD unchanged exactly when it describes  *)
(* the very record: no other namespace, address or configuration passes,   *)
(* and the round trip through the runtime loses nothing                    *)
(* (result.go:28-60, prev_result.go:14-98).                                *)
THEOREM AcceptsExactlyOwn ==
  ASSUME NEW q \in Record, NEW o \in Record
  PROVE  ValidatePrevResult(BuildResult(Data(q)), Data(o)) <=> q = o
<1> SUFFICES ASSUME NEW r, r = BuildResult(Data(q))
             PROVE  ValidatePrevResult(r, Data(o)) <=> q = o
  OBVIOUS
<1>1. r # NoResult  BY BuiltTyped
<1>2. /\ r.interfaces[1].mtu = q.conf.mtu /\ r.interfaces[2].mtu = q.conf.mtu
      /\ r.interfaces[3].mtu = q.conf.mtu
  <2>1. /\ r.interfaces[1] = Interface(q.conf.bridge, HostNS, q.conf.mtu)
        /\ r.interfaces[2] = Interface(HostName, HostNS, q.conf.mtu)
        /\ r.interfaces[3] = Interface(IfName, q.ns, q.conf.mtu)
    BY Built
  <2>2. QED  BY <2>1 DEF Interface
<1>3. /\ BoundIPv4s(r, 3) = {1} /\ r.ips[1].address = q.address
      /\ r.ips[1].gateway = q.conf.gateway
      /\ IPv4Defaults(r) = {1} /\ r.routes[1].gateway = q.conf.gateway
  <2>1. /\ r.ips[1] = [interface |-> 2, v4 |-> TRUE, address |-> q.address,
                       gateway |-> q.conf.gateway]
        /\ r.routes[1] = [v4default |-> TRUE, gateway |-> q.conf.gateway]
    BY Built
  <2>2. /\ r.ips[1].v4 = TRUE /\ r.ips[1].interface = 2
        /\ r.ips[1].address = q.address /\ r.ips[1].gateway = q.conf.gateway
        /\ r.routes[1].v4default = TRUE /\ r.routes[1].gateway = q.conf.gateway
    BY <2>1
  <2>3. DOMAIN r.ips = {1} /\ DOMAIN r.routes = {1}  BY Built
  <2>4. BoundIPv4s(r, 3) = {1} /\ IPv4Defaults(r) = {1}
    BY <2>2, <2>3 DEF BoundIPv4s, IPv4Defaults
  <2>5. QED  BY <2>2, <2>4
<1>4. Data(o).ns = o.ns /\ Data(o).ifname = IfName /\ Data(o).host = HostName
      /\ Data(o).bridge = o.conf.bridge /\ Data(o).mtu = o.conf.mtu
      /\ Data(o).address = o.address /\ Data(o).gateway = o.conf.gateway
  BY DEF Data, resultFromRecord
<1>5. /\ Matching(r, IfName, q.ns) = {3}
      /\ Matching(r, q.conf.bridge, HostNS) = {1}
      /\ Matching(r, HostName, HostNS) = {2}
      /\ \A n \in NetNS \ {q.ns} : Matching(r, IfName, n) = {}
      /\ \A c \in Conf : c.bridge # q.conf.bridge => Matching(r, c.bridge, HostNS) = {}
  BY BuiltMatching
<1>6. ASSUME q = o PROVE ValidatePrevResult(r, Data(o))
  <2>1. Finds(r, IfName, o.ns, o.conf.mtu) /\ Finds(r, HostName, HostNS, o.conf.mtu)
        /\ Finds(r, o.conf.bridge, HostNS, o.conf.mtu)
    BY <1>2, <1>5, <1>6 DEF Finds
  <2>2. AddressAgrees(r, Data(o))  BY <1>3, <1>4, <1>5, <1>6 DEF AddressAgrees
  <2>3. RouteAgrees(r, Data(o))  BY <1>3, <1>4, <1>6 DEF RouteAgrees
  <2>4. QED  BY <1>4, <2>1, <2>2, <2>3 DEF ValidatePrevResult
<1>7. ASSUME ValidatePrevResult(r, Data(o)) PROVE q = o
  <2>1. Finds(r, IfName, o.ns, o.conf.mtu) /\ Finds(r, o.conf.bridge, HostNS, o.conf.mtu)
        /\ AddressAgrees(r, Data(o))
    BY <1>1, <1>4, <1>7 DEF ValidatePrevResult
  <2>2. q.ns = o.ns  BY <1>5, <2>1 DEF Finds, Record
  <2>3. q.conf.bridge = o.conf.bridge  BY <1>5, <2>1 DEF Finds, Record
  <2>4. q.conf.mtu = o.conf.mtu  BY <1>2, <1>5, <2>1, <2>2 DEF Finds
  <2>5. q.address = o.address /\ q.conf.gateway = o.conf.gateway
    BY <1>3, <1>4, <1>5, <2>1, <2>2 DEF AddressAgrees
  <2>6. q.conf = o.conf  BY <2>3, <2>4, <2>5, PrevResultAssumption DEF Record
  <2>7. QED  BY <2>2, <2>5, <2>6 DEF Record
<1>8. QED  BY <1>6, <1>7

-----------------------------------------------------------------------------
(* What a chain of plugins leaves of a result. o is the record the result  *)
(* was built from.                                                         *)
OwnIP(r, o, i) ==
  /\ Matching(r, IfName, o.ns) = {i}
  /\ 1 \in DOMAIN r.ips /\ r.ips[1].v4 = TRUE
  /\ r.ips[1].interface = i - 1 /\ r.ips[1].address = o.address

Own(r, o) ==
  /\ \E i \in DOMAIN r.interfaces : OwnIP(r, o, i)
  /\ \E i \in DOMAIN r.interfaces : Matching(r, o.conf.bridge, HostNS) = {i}
  /\ \E i \in DOMAIN r.interfaces : Matching(r, HostName, HostNS) = {i}
  /\ 1 \in DOMAIN r.routes /\ r.routes[1].v4default = TRUE

Ours(r, o) ==
  /\ \A i \in DOMAIN r.interfaces :
       /\ r.interfaces[i].mtu = o.conf.mtu
       /\ r.interfaces[i].name = IfName => r.interfaces[i].sandbox \in {HostNS, o.ns}
       /\ r.interfaces[i].sandbox = HostNS =>
            r.interfaces[i].name \in {o.conf.bridge, HostName, IfName, OtherName}
  /\ \A k \in DOMAIN r.ips :
       /\ r.ips[k].gateway = o.conf.gateway
       /\ r.ips[k].interface # Unbound => r.ips[k].interface + 1 \in DOMAIN r.interfaces
  /\ \A k \in DOMAIN r.routes : r.routes[k].gateway = o.conf.gateway

Pure(r, o) ==
  /\ \A k \in DOMAIN r.ips \ {1} : \A i \in Matching(r, IfName, o.ns) :
       r.ips[k].v4 = TRUE => r.ips[k].interface # i - 1
  /\ \A k \in DOMAIN r.routes \ {1} : r.routes[k].v4default = FALSE

(* A result of the chain passes only with the record it was built from.    *)
LEMMA OwnRefusesOther ==
  ASSUME NEW r, r # NoResult, NEW o \in Record, NEW q \in Record,
         Own(r, o), Ours(r, o), ValidatePrevResult(r, Data(q))
  PROVE  q = o
<1>1. Data(q).ns = q.ns /\ Data(q).ifname = IfName /\ Data(q).host = HostName
      /\ Data(q).bridge = q.conf.bridge /\ Data(q).mtu = q.conf.mtu
      /\ Data(q).address = q.address /\ Data(q).gateway = q.conf.gateway
  BY DEF Data, resultFromRecord
<1>2. Finds(r, IfName, q.ns, q.conf.mtu) /\ Finds(r, q.conf.bridge, HostNS, q.conf.mtu)
      /\ AddressAgrees(r, Data(q))
  BY <1>1 DEF ValidatePrevResult
<1>3. PICK i \in Matching(r, IfName, q.ns) : r.interfaces[i].mtu = q.conf.mtu
  BY <1>2 DEF Finds
<1>4. i \in DOMAIN r.interfaces /\ r.interfaces[i].name = IfName
      /\ r.interfaces[i].sandbox = q.ns
  BY DEF Matching
<1>5. q.ns = o.ns /\ q.conf.mtu = o.conf.mtu
  BY <1>3, <1>4, PrevResultAssumption DEF Ours, Record
<1>6. q.conf.bridge = o.conf.bridge
  <2>1. PICK j \in Matching(r, q.conf.bridge, HostNS) : TRUE  BY <1>2 DEF Finds
  <2>2. j \in DOMAIN r.interfaces /\ r.interfaces[j].name = q.conf.bridge
        /\ r.interfaces[j].sandbox = HostNS
    BY DEF Matching
  <2>3. QED  BY <2>2, PrevResultAssumption DEF Ours, Record
<1>7. PICK j \in DOMAIN r.interfaces : OwnIP(r, o, j)  BY DEF Own
<1>8. i = j  BY <1>5, <1>7 DEF OwnIP
<1>9. PICK k \in BoundIPv4s(r, i) :
        /\ BoundIPv4s(r, i) = {k}
        /\ r.ips[k].address = q.address /\ r.ips[k].gateway = q.conf.gateway
  BY <1>1, <1>2 DEF AddressAgrees
<1>10. 1 \in BoundIPv4s(r, i)  BY <1>7, <1>8 DEF BoundIPv4s, OwnIP
<1>11. k = 1  BY <1>9, <1>10
<1>12. q.address = o.address /\ q.conf.gateway = o.conf.gateway
  BY <1>7, <1>9, <1>11 DEF OwnIP, Ours
<1>13. q.conf = o.conf  BY <1>5, <1>6, <1>12, PrevResultAssumption DEF Record
<1>14. QED  BY <1>5, <1>12, <1>13 DEF Record

(* A result that nobody has meddled with passes with its own record.       *)
LEMMA PureIsAccepted ==
  ASSUME NEW r, NEW o \in Record, Own(r, o), Ours(r, o), Pure(r, o)
  PROVE  ValidatePrevResult(r, Data(o))
<1>1. Data(o).ns = o.ns /\ Data(o).ifname = IfName /\ Data(o).host = HostName
      /\ Data(o).bridge = o.conf.bridge /\ Data(o).mtu = o.conf.mtu
      /\ Data(o).address = o.address /\ Data(o).gateway = o.conf.gateway
  BY DEF Data, resultFromRecord
<1>2. PICK i \in DOMAIN r.interfaces : OwnIP(r, o, i)  BY DEF Own
<1>3. Finds(r, IfName, o.ns, o.conf.mtu)
  BY <1>2 DEF Finds, OwnIP, Ours
<1>4. Finds(r, o.conf.bridge, HostNS, o.conf.mtu) /\ Finds(r, HostName, HostNS, o.conf.mtu)
  BY DEF Finds, Own, Ours
<1>5. BoundIPv4s(r, i) = {1}
  <2>1. 1 \in BoundIPv4s(r, i)  BY <1>2 DEF BoundIPv4s, OwnIP
  <2>2. ASSUME NEW k \in BoundIPv4s(r, i) PROVE k = 1
    <3>1. k \in DOMAIN r.ips /\ r.ips[k].v4 = TRUE /\ r.ips[k].interface = i - 1
      BY DEF BoundIPv4s
    <3>2. i \in Matching(r, IfName, o.ns)  BY <1>2 DEF OwnIP
    <3>3. QED  BY <3>1, <3>2 DEF Pure
  <2>3. QED  BY <2>1, <2>2
<1>6. AddressAgrees(r, Data(o))
  <2>1. r.ips[1].address = o.address /\ r.ips[1].gateway = o.conf.gateway
        /\ Matching(r, IfName, o.ns) = {i}
    BY <1>2 DEF OwnIP, Ours
  <2>2. QED  BY <1>1, <1>5, <2>1 DEF AddressAgrees
<1>7. RouteAgrees(r, Data(o))
  <2>1. IPv4Defaults(r) = {1}  BY DEF IPv4Defaults, Own, Pure
  <2>2. QED  BY <1>1, <2>1 DEF RouteAgrees, Own, Ours
<1>8. QED  BY <1>1, <1>3, <1>4, <1>6, <1>7 DEF ValidatePrevResult

(* Where the entries of a slice are after one has been put behind them.    *)
LEMMA AppendAt ==
  ASSUME NEW S, NEW s \in Seq(S), NEW e \in S
  PROVE  /\ Append(s, e) \in Seq(S)
         /\ DOMAIN Append(s, e) = DOMAIN s \cup {Len(s) + 1}
         /\ Len(s) + 1 \notin DOMAIN s /\ DOMAIN s \subseteq Int
         /\ Append(s, e)[Len(s) + 1] = e
         /\ \A i \in DOMAIN s : Append(s, e)[i] = s[i]
  OBVIOUS

(* And after one has been put in front of them.                            *)
Prepend(e, s) == <<e>> \o s

LEMMA PrependAt ==
  ASSUME NEW S, NEW s \in Seq(S), NEW e \in S
  PROVE  /\ Prepend(e, s) \in Seq(S) /\ DOMAIN s \subseteq Int /\ 1 \in DOMAIN Prepend(e, s)
         /\ Prepend(e, s)[1] = e
         /\ \A i \in DOMAIN s : i + 1 \in DOMAIN Prepend(e, s) /\ Prepend(e, s)[i + 1] = s[i]
         /\ \A j \in DOMAIN Prepend(e, s) : j = 1 \/ \E i \in DOMAIN s : j = i + 1
<1> DEFINE t == <<e>> \o s
<1>1. t \in Seq(S) /\ Len(t) = Len(s) + 1  OBVIOUS
<1>2. DOMAIN t = 1 .. (Len(s) + 1) /\ DOMAIN s = 1 .. Len(s) /\ Len(s) \in Nat
  BY <1>1
<1>3. t[1] = e /\ \A i \in 1..Len(s) : t[i + 1] = s[i]  OBVIOUS
<1> HIDE DEF t
<1>4. \A j \in 1 .. (Len(s) + 1) : j = 1 \/ j - 1 \in 1 .. Len(s)  BY <1>2
<1>5. \A j \in DOMAIN t : j = 1 \/ \E i \in DOMAIN s : j = i + 1
  <2>1. SUFFICES ASSUME NEW j \in DOMAIN t, j # 1 PROVE \E i \in DOMAIN s : j = i + 1
    OBVIOUS
  <2>2. j - 1 \in DOMAIN s /\ j = (j - 1) + 1  BY <1>2, <1>4, <2>1
  <2>3. QED  BY <2>2
<1>6. t = Prepend(e, s)  BY DEF t, Prepend
<1>7. DOMAIN s \subseteq Int /\ 1 \in DOMAIN t  BY <1>2
<1>8. \A i \in DOMAIN s : i + 1 \in DOMAIN t /\ t[i + 1] = s[i]  BY <1>2, <1>3
<1>9. QED  BY <1>1, <1>3, <1>5, <1>6, <1>7, <1>8

LEMMA PrependInterfaces ==
  ASSUME NEW r, r.interfaces \in Seq(AnInterface), NEW f \in AnInterface, NEW t,
         t.interfaces = Prepend(f, r.interfaces)
  PROVE  /\ t.interfaces \in Seq(AnInterface) /\ t.interfaces[1] = f
         /\ \A k \in DOMAIN r.interfaces :
              k + 1 \in DOMAIN t.interfaces /\ t.interfaces[k + 1] = r.interfaces[k]
         /\ \A j \in DOMAIN t.interfaces : j = 1 \/ \E k \in DOMAIN r.interfaces : j = k + 1
<1> DEFINE s == r.interfaces
           u == Prepend(f, s)
<1>1. s \in Seq(AnInterface) /\ t.interfaces = u  OBVIOUS
<1>2. /\ u \in Seq(AnInterface) /\ u[1] = f
      /\ \A k \in DOMAIN s : k + 1 \in DOMAIN u /\ u[k + 1] = s[k]
      /\ \A j \in DOMAIN u : j = 1 \/ \E k \in DOMAIN s : j = k + 1
  <2> HIDE DEF s
  <2>1. u \in Seq(AnInterface) /\ u[1] = f  BY <1>1, PrependAt
  <2>2. \A k \in DOMAIN s : k + 1 \in DOMAIN u  BY <1>1, PrependAt
  <2>3. \A k \in DOMAIN s : u[k + 1] = s[k]  BY <1>1, PrependAt
  <2>4. \A j \in DOMAIN u : j = 1 \/ \E k \in DOMAIN s : j = k + 1  BY <1>1, PrependAt
  <2>5. QED  BY <2>1, <2>2, <2>3, <2>4
<1> HIDE DEF u
<1>3. QED  BY <1>1, <1>2

(* An interface behind the others that has none of the names in question.  *)
LEMMA AppendKeepsMatching ==
  ASSUME NEW r, r.interfaces \in Seq(AnInterface), NEW f \in AnInterface, NEW t,
         t.interfaces = Append(r.interfaces, f),
         NEW name, NEW sandbox, ~(f.name = name /\ f.sandbox = sandbox)
  PROVE  Matching(t, name, sandbox) = Matching(r, name, sandbox)
<1>1. /\ DOMAIN t.interfaces = DOMAIN r.interfaces \cup {Len(r.interfaces) + 1}
      /\ t.interfaces[Len(r.interfaces) + 1] = f
      /\ \A i \in DOMAIN r.interfaces : t.interfaces[i] = r.interfaces[i]
  BY AppendAt
<1>2. QED  BY <1>1 DEF Matching

(* And one in front of them: the only match moves by one.                  *)
LEMMA PrependMovesMatching ==
  ASSUME NEW r, r.interfaces \in Seq(AnInterface), NEW f \in AnInterface, NEW t,
         t.interfaces = Prepend(f, r.interfaces),
         NEW name, NEW sandbox, ~(f.name = name /\ f.sandbox = sandbox),
         NEW i \in DOMAIN r.interfaces, Matching(r, name, sandbox) = {i}
  PROVE  i + 1 \in DOMAIN t.interfaces /\ Matching(t, name, sandbox) = {i + 1}
<1>1. /\ t.interfaces[1] = f
      /\ \A k \in DOMAIN r.interfaces :
           k + 1 \in DOMAIN t.interfaces /\ t.interfaces[k + 1] = r.interfaces[k]
      /\ \A j \in DOMAIN t.interfaces : j = 1 \/ \E k \in DOMAIN r.interfaces : j = k + 1
  BY PrependInterfaces
<1>2. i + 1 \in Matching(t, name, sandbox)
  <2>1. r.interfaces[i].name = name /\ r.interfaces[i].sandbox = sandbox  BY DEF Matching
  <2>2. QED  BY <1>1, <2>1 DEF Matching
<1>3. ASSUME NEW j \in Matching(t, name, sandbox) PROVE j = i + 1
  <2>1. j \in DOMAIN t.interfaces /\ t.interfaces[j].name = name
        /\ t.interfaces[j].sandbox = sandbox
    BY DEF Matching
  <2>2. PICK k \in DOMAIN r.interfaces : j = k + 1  BY <1>1, <2>1
  <2>3. k \in Matching(r, name, sandbox)  BY <1>1, <2>1, <2>2 DEF Matching
  <2>4. QED  BY <2>2, <2>3
<1>4. QED  BY <1>1, <1>2, <1>3

Typed(r) == /\ r.interfaces \in Seq(AnInterface) /\ r.ips \in Seq(AnIP)
            /\ r.routes \in Seq(ARoute)

Kept(t, o) == Typed(t) /\ Own(t, o) /\ Ours(t, o)

(* The result of ADD itself.                                               *)
LEMMA BuiltIsOwn ==
  ASSUME NEW q \in Record, NEW r, r = BuildResult(Data(q))
  PROVE  r \in Result /\ Kept(r, q) /\ Pure(r, q)
<1>1. /\ q.ns \in NetNS /\ q.conf \in Conf /\ q.address \in Address
  BY DEF Record
<1>2. DOMAIN r.interfaces = {1, 2, 3} /\ DOMAIN r.ips = {1} /\ DOMAIN r.routes = {1}
  BY Built
<1>3. /\ r.interfaces[1] = Interface(q.conf.bridge, HostNS, q.conf.mtu)
      /\ r.interfaces[2] = Interface(HostName, HostNS, q.conf.mtu)
      /\ r.interfaces[3] = Interface(IfName, q.ns, q.conf.mtu)
  BY Built
<1>4. /\ r.ips[1] = [interface |-> 2, v4 |-> TRUE, address |-> q.address,
                     gateway |-> q.conf.gateway]
      /\ r.routes[1] = [v4default |-> TRUE, gateway |-> q.conf.gateway]
  BY Built
<1>5. /\ r.ips[1].v4 = TRUE /\ r.ips[1].interface = 2
      /\ r.ips[1].address = q.address /\ r.ips[1].gateway = q.conf.gateway
      /\ r.routes[1].v4default = TRUE /\ r.routes[1].gateway = q.conf.gateway
  BY <1>4
<1>6. /\ r.interfaces[1].name = q.conf.bridge /\ r.interfaces[1].sandbox = HostNS
      /\ r.interfaces[2].name = HostName /\ r.interfaces[2].sandbox = HostNS
      /\ r.interfaces[3].name = IfName /\ r.interfaces[3].sandbox = q.ns
      /\ r.interfaces[1].mtu = q.conf.mtu /\ r.interfaces[2].mtu = q.conf.mtu
      /\ r.interfaces[3].mtu = q.conf.mtu
  BY <1>3 DEF Interface
<1>7. r \in Result  BY BuiltTyped
<1>8. Own(r, q)  BY <1>2, <1>5, BuiltMatching DEF Own, OwnIP
<1>9. Ours(r, q)
  <2>1. \A i \in {1, 2, 3} :
          /\ r.interfaces[i].mtu = q.conf.mtu
          /\ r.interfaces[i].name = IfName => r.interfaces[i].sandbox \in {HostNS, q.ns}
          /\ r.interfaces[i].sandbox = HostNS =>
               r.interfaces[i].name \in {q.conf.bridge, HostName, IfName, OtherName}
    BY <1>6
  <2>2. QED  BY <1>2, <1>5, <2>1 DEF Ours
<1>10. Pure(r, q)  BY <1>2 DEF Pure
<1>11. Typed(r)  BY <1>7 DEF Typed, Result
<1>12. QED  BY <1>7, <1>8, <1>9, <1>10, <1>11 DEF Kept

(* What other plugins may put in front of our interfaces or behind them.   *)
Harmless(f, o) ==
  /\ f \in AnInterface /\ f.mtu = o.conf.mtu
  /\ f.name \in {OtherName, IfName} /\ f.sandbox \in {HostNS, o.ns}
  /\ f.name = IfName => f.sandbox = HostNS

LEMMA HarmlessDiffers ==
  ASSUME NEW o \in Record, NEW f, Harmless(f, o)
  PROVE  /\ ~(f.name = IfName /\ f.sandbox = o.ns)
         /\ ~(f.name = o.conf.bridge /\ f.sandbox = HostNS)
         /\ ~(f.name = HostName /\ f.sandbox = HostNS)
<1>1. o.ns \in NetNS /\ o.conf \in Conf  BY DEF Record
<1>2. o.ns # HostNS /\ o.conf.bridge \notin {IfName, OtherName}  BY <1>1, PrevResultAssumption
<1>3. QED  BY <1>2, PrevResultAssumption DEF Harmless

LEMMA BehindIsKept ==
  ASSUME NEW o \in Record, NEW r, Kept(r, o), NEW f, Harmless(f, o),
         NEW t, t.interfaces = Append(r.interfaces, f), t.ips = r.ips, t.routes = r.routes
  PROVE  Kept(t, o) /\ (Pure(r, o) => Pure(t, o))
<1>1. /\ r.interfaces \in Seq(AnInterface) /\ f \in AnInterface
      /\ t.interfaces = Append(r.interfaces, f) /\ t.ips = r.ips /\ t.routes = r.routes
  BY DEF Kept, Typed, Harmless
<1>2. /\ Matching(t, IfName, o.ns) = Matching(r, IfName, o.ns)
      /\ Matching(t, o.conf.bridge, HostNS) = Matching(r, o.conf.bridge, HostNS)
      /\ Matching(t, HostName, HostNS) = Matching(r, HostName, HostNS)
  <2>1. ASSUME NEW name, NEW sandbox, ~(f.name = name /\ f.sandbox = sandbox)
        PROVE  Matching(t, name, sandbox) = Matching(r, name, sandbox)
    BY <1>1, <2>1, AppendKeepsMatching
  <2>2. /\ ~(f.name = IfName /\ f.sandbox = o.ns)
        /\ ~(f.name = o.conf.bridge /\ f.sandbox = HostNS)
        /\ ~(f.name = HostName /\ f.sandbox = HostNS)
    BY HarmlessDiffers
  <2>3. QED  BY <2>1, <2>2
<1>3. /\ t.interfaces \in Seq(AnInterface)
      /\ DOMAIN t.interfaces = DOMAIN r.interfaces \cup {Len(r.interfaces) + 1}
      /\ t.interfaces[Len(r.interfaces) + 1] = f
      /\ \A i \in DOMAIN r.interfaces : t.interfaces[i] = r.interfaces[i]
  BY <1>1, AppendAt
<1>4. Typed(t)  BY <1>1, <1>3 DEF Kept, Typed
<1>5. Own(t, o)
  <2>1. \E i \in DOMAIN t.interfaces : OwnIP(t, o, i)
    BY <1>1, <1>2, <1>3 DEF Kept, Own, OwnIP
  <2>2. QED  BY <1>1, <1>2, <1>3, <2>1 DEF Kept, Own
<1>6. Ours(t, o)  BY <1>1, <1>3 DEF Kept, Ours, Harmless
<1>7. Pure(r, o) => Pure(t, o)  BY <1>1, <1>2 DEF Pure
<1>8. QED  BY <1>4, <1>5, <1>6, <1>7 DEF Kept

(* Shifted moves every bound address to the next interface.                *)
LEMMA ShiftedAt ==
  ASSUME NEW ips \in Seq(AnIP)
  PROVE  /\ Shifted(ips) \in Seq(AnIP) /\ DOMAIN Shifted(ips) = DOMAIN ips
         /\ \A k \in DOMAIN ips :
              /\ Shifted(ips)[k].v4 = ips[k].v4 /\ Shifted(ips)[k].address = ips[k].address
              /\ Shifted(ips)[k].gateway = ips[k].gateway
              /\ Shifted(ips)[k].interface = IF ips[k].interface = Unbound THEN Unbound
                                              ELSE ips[k].interface + 1
<1> DEFINE moved(k) == IF ips[k].interface = Unbound THEN ips[k]
                       ELSE [ips[k] EXCEPT !.interface = ips[k].interface + 1]
<1>1. Shifted(ips) = [k \in DOMAIN ips |-> moved(k)]  BY DEF Shifted
<1>2. ASSUME NEW k \in DOMAIN ips
      PROVE  /\ moved(k) \in AnIP
             /\ moved(k).v4 = ips[k].v4 /\ moved(k).address = ips[k].address
             /\ moved(k).gateway = ips[k].gateway
             /\ moved(k).interface = IF ips[k].interface = Unbound THEN Unbound
                                     ELSE ips[k].interface + 1
  <2>1. ips[k] \in AnIP  OBVIOUS
  <2>2. ips[k].interface \in Int \cup {Unbound}  BY <2>1 DEF AnIP
  <2>3. CASE ips[k].interface = Unbound  BY <2>1, <2>3
  <2>4. CASE ips[k].interface # Unbound  BY <2>1, <2>2, <2>4 DEF AnIP
  <2>5. QED  BY <2>3, <2>4
<1> HIDE DEF moved
<1>3. DOMAIN ips = 1 .. Len(ips) /\ Len(ips) \in Nat  OBVIOUS
<1>4. Shifted(ips) \in Seq(AnIP)  BY <1>1, <1>2, <1>3
<1>5. QED  BY <1>1, <1>2, <1>4

LEMMA InFrontIsKept ==
  ASSUME NEW o \in Record, NEW r, Kept(r, o), NEW f, Harmless(f, o),
         NEW t, t.interfaces = Prepend(f, r.interfaces), t.ips = Shifted(r.ips),
         t.routes = r.routes
  PROVE  Kept(t, o) /\ (Pure(r, o) => Pure(t, o))
<1>1. /\ r.interfaces \in Seq(AnInterface) /\ f \in AnInterface /\ r.ips \in Seq(AnIP)
      /\ t.ips = Shifted(r.ips) /\ t.routes = r.routes
  BY DEF Kept, Typed, Harmless
<1>2. t.interfaces = Prepend(f, r.interfaces)  OBVIOUS
<1>3. ASSUME NEW name, NEW sandbox, ~(f.name = name /\ f.sandbox = sandbox),
             NEW i \in DOMAIN r.interfaces, Matching(r, name, sandbox) = {i}
      PROVE  i + 1 \in DOMAIN t.interfaces /\ Matching(t, name, sandbox) = {i + 1}
  <2>1. r.interfaces \in Seq(AnInterface) /\ f \in AnInterface  BY <1>1
  <2>2. Matching(t, name, sandbox) = {i + 1}  BY <2>1, <1>2, <1>3, PrependMovesMatching
  <2>3. i + 1 \in DOMAIN t.interfaces  BY <2>2 DEF Matching
  <2>4. QED  BY <2>2, <2>3
<1>4. /\ ~(f.name = IfName /\ f.sandbox = o.ns)
      /\ ~(f.name = o.conf.bridge /\ f.sandbox = HostNS)
      /\ ~(f.name = HostName /\ f.sandbox = HostNS)
  BY HarmlessDiffers
<1>5. /\ t.ips \in Seq(AnIP) /\ DOMAIN t.ips = DOMAIN r.ips
      /\ \A k \in DOMAIN r.ips :
           /\ t.ips[k].v4 = r.ips[k].v4 /\ t.ips[k].address = r.ips[k].address
           /\ t.ips[k].gateway = r.ips[k].gateway
           /\ t.ips[k].interface = IF r.ips[k].interface = Unbound THEN Unbound
                                   ELSE r.ips[k].interface + 1
  BY <1>1, ShiftedAt
<1>6. DOMAIN r.interfaces \subseteq Int /\ Unbound \notin Int
      /\ \A k \in DOMAIN r.ips : r.ips[k].interface \in Int \cup {Unbound}
  <2>1. DOMAIN r.interfaces = 1 .. Len(r.interfaces) /\ Len(r.interfaces) \in Nat  BY <1>1
  <2>2. \A k \in DOMAIN r.ips : r.ips[k] \in AnIP  BY <1>1
  <2>3. \A k \in DOMAIN r.ips : r.ips[k].interface \in Int \cup {Unbound}
    BY <2>2 DEF AnIP
  <2>4. QED  BY <2>1, <2>3, PrevResultAssumption
<1>7. PICK i \in DOMAIN r.interfaces : OwnIP(r, o, i)  BY DEF Kept, Own
<1>8. i + 1 \in DOMAIN t.interfaces /\ OwnIP(t, o, i + 1)
  <2>1. i + 1 \in DOMAIN t.interfaces /\ Matching(t, IfName, o.ns) = {i + 1}
    BY <1>3, <1>4, <1>7 DEF OwnIP
  <2>2. r.ips[1].interface = i - 1 /\ i \in Int /\ 1 \in DOMAIN r.ips
    BY <1>6, <1>7 DEF OwnIP
  <2>3. t.ips[1].interface = (i + 1) - 1  BY <1>5, <1>6, <2>2
  <2>4. QED  BY <1>5, <1>7, <2>1, <2>2, <2>3 DEF OwnIP
<1>9. Own(t, o)
  <2>1. \E j \in DOMAIN t.interfaces : Matching(t, o.conf.bridge, HostNS) = {j}
    <3>1. PICK b \in DOMAIN r.interfaces : Matching(r, o.conf.bridge, HostNS) = {b}
      BY DEF Kept, Own
    <3>2. QED  BY <1>3, <1>4, <3>1
  <2>2. \E j \in DOMAIN t.interfaces : Matching(t, HostName, HostNS) = {j}
    <3>1. PICK h \in DOMAIN r.interfaces : Matching(r, HostName, HostNS) = {h}
      BY DEF Kept, Own
    <3>2. QED  BY <1>3, <1>4, <3>1
  <2>3. QED  BY <1>1, <1>8, <2>1, <2>2 DEF Kept, Own
<1>10. /\ t.interfaces \in Seq(AnInterface) /\ t.interfaces[1] = f
       /\ \A k \in DOMAIN r.interfaces :
            k + 1 \in DOMAIN t.interfaces /\ t.interfaces[k + 1] = r.interfaces[k]
       /\ \A j \in DOMAIN t.interfaces : j = 1 \/ \E k \in DOMAIN r.interfaces : j = k + 1
  BY <1>1, <1>2, PrependInterfaces
<1>11. Typed(t)  BY <1>1, <1>5, <1>10 DEF Kept, Typed
<1>12. Ours(t, o)
  <2>1. ASSUME NEW j \in DOMAIN t.interfaces
        PROVE  /\ t.interfaces[j].mtu = o.conf.mtu
               /\ t.interfaces[j].name = IfName => t.interfaces[j].sandbox \in {HostNS, o.ns}
               /\ t.interfaces[j].sandbox = HostNS =>
                    t.interfaces[j].name \in {o.conf.bridge, HostName, IfName, OtherName}
    <3>1. CASE j = 1  BY <1>10, <3>1 DEF Harmless
    <3>2. CASE j # 1
      <4>1. PICK k \in DOMAIN r.interfaces : j = k + 1  BY <1>10, <3>2
      <4>2. QED  BY <1>10, <4>1 DEF Kept, Ours
    <3>3. QED  BY <3>1, <3>2
  <2>2. ASSUME NEW k \in DOMAIN t.ips
        PROVE  /\ t.ips[k].gateway = o.conf.gateway
               /\ t.ips[k].interface # Unbound =>
                    t.ips[k].interface + 1 \in DOMAIN t.interfaces
    <3>1. k \in DOMAIN r.ips  BY <1>5
    <3>2. t.ips[k].gateway = o.conf.gateway  BY <1>5, <3>1 DEF Kept, Ours
    <3>3. ASSUME t.ips[k].interface # Unbound
          PROVE  t.ips[k].interface + 1 \in DOMAIN t.interfaces
      <4> DEFINE b == r.ips[k].interface
      <4>1. b # Unbound /\ t.ips[k].interface = b + 1  BY <1>5, <3>1, <3>3
      <4>2. b + 1 \in DOMAIN r.interfaces  BY <3>1, <4>1 DEF Kept, Ours
      <4>3. (b + 1) + 1 \in DOMAIN t.interfaces  BY <1>10, <4>2
      <4>4. QED  BY <4>1, <4>3
    <3>4. QED  BY <3>2, <3>3
  <2>3. QED  BY <1>1, <2>1, <2>2 DEF Kept, Ours
<1>13. ASSUME Pure(r, o) PROVE Pure(t, o)
  <2>1. Matching(t, IfName, o.ns) = {i + 1} /\ Matching(r, IfName, o.ns) = {i} /\ i \in Int
    BY <1>6, <1>7, <1>8 DEF OwnIP
  <2>2. ASSUME NEW k \in DOMAIN r.ips \ {1}, t.ips[k].v4 = TRUE
        PROVE  t.ips[k].interface # (i + 1) - 1
    <3>1. r.ips[k].v4 = TRUE /\ r.ips[k].interface # i - 1
      BY <1>5, <1>13, <2>1, <2>2 DEF Pure
    <3>2. QED  BY <1>5, <1>6, <2>1, <3>1
  <2>3. \A k \in DOMAIN t.ips \ {1} : \A j \in Matching(t, IfName, o.ns) :
          t.ips[k].v4 = TRUE => t.ips[k].interface # j - 1
    BY <1>5, <2>1, <2>2
  <2>4. \A k \in DOMAIN t.routes \ {1} : t.routes[k].v4default = FALSE
    BY <1>1, <1>13 DEF Pure
  <2>5. QED  BY <2>3, <2>4 DEF Pure
<1>14. QED  BY <1>9, <1>11, <1>12, <1>13 DEF Kept

(* An address behind the others; unless it is a second IPv4 address of the *)
(* container, the result stays pure.                                       *)
LEMMA AddressIsKept ==
  ASSUME NEW o \in Record, NEW r, Kept(r, o), NEW e \in AnIP,
         e.gateway = o.conf.gateway,
         e.interface # Unbound => e.interface + 1 \in DOMAIN r.interfaces,
         NEW t, t.interfaces = r.interfaces, t.ips = Append(r.ips, e), t.routes = r.routes
  PROVE  /\ Kept(t, o)
         /\ Pure(r, o) /\ (\A i \in Matching(r, IfName, o.ns) :
                             e.v4 = TRUE => e.interface # i - 1)
              => Pure(t, o)
<1>1. /\ t.ips \in Seq(AnIP) /\ DOMAIN t.ips = DOMAIN r.ips \cup {Len(r.ips) + 1}
      /\ t.ips[Len(r.ips) + 1] = e
      /\ \A k \in DOMAIN r.ips : t.ips[k] = r.ips[k]
  BY AppendAt DEF Kept, Typed
<1>2. \A name, sandbox : Matching(t, name, sandbox) = Matching(r, name, sandbox)
  BY DEF Matching
<1>3. Typed(t)  BY <1>1 DEF Kept, Typed
<1>4. Own(t, o)
  <2>1. PICK i \in DOMAIN r.interfaces : OwnIP(r, o, i)  BY DEF Kept, Own
  <2>2. OwnIP(t, o, i)  BY <1>1, <1>2, <2>1 DEF OwnIP
  <2>3. /\ \E j \in DOMAIN t.interfaces : Matching(t, o.conf.bridge, HostNS) = {j}
        /\ \E j \in DOMAIN t.interfaces : Matching(t, HostName, HostNS) = {j}
    BY <1>2 DEF Kept, Own
  <2>4. QED  BY <2>1, <2>2, <2>3 DEF Kept, Own
<1>5. Ours(t, o)
  <2>1. \A k \in DOMAIN t.ips :
          /\ t.ips[k].gateway = o.conf.gateway
          /\ t.ips[k].interface # Unbound => t.ips[k].interface + 1 \in DOMAIN t.interfaces
    BY <1>1 DEF Kept, Ours
  <2>2. QED  BY <2>1 DEF Kept, Ours
<1>6. ASSUME Pure(r, o), \A i \in Matching(r, IfName, o.ns) : e.v4 = TRUE => e.interface # i - 1
      PROVE  Pure(t, o)
  BY <1>1, <1>2, <1>6 DEF Pure
<1>7. QED  BY <1>3, <1>4, <1>5, <1>6 DEF Kept

(* A route behind the others; unless it is an IPv4 default route, the      *)
(* result stays pure.                                                      *)
LEMMA RouteIsKept ==
  ASSUME NEW o \in Record, NEW r, Kept(r, o), NEW e \in ARoute,
         e.gateway = o.conf.gateway,
         NEW t, t.interfaces = r.interfaces, t.ips = r.ips, t.routes = Append(r.routes, e)
  PROVE  Kept(t, o) /\ (Pure(r, o) /\ e.v4default = FALSE => Pure(t, o))
<1>1. /\ t.routes \in Seq(ARoute)
      /\ DOMAIN t.routes = DOMAIN r.routes \cup {Len(r.routes) + 1}
      /\ t.routes[Len(r.routes) + 1] = e
      /\ \A k \in DOMAIN r.routes : t.routes[k] = r.routes[k]
  BY AppendAt DEF Kept, Typed
<1>2. \A name, sandbox : Matching(t, name, sandbox) = Matching(r, name, sandbox)
  BY DEF Matching
<1>3. Typed(t)  BY <1>1 DEF Kept, Typed
<1>4. Own(t, o)
  <2>1. PICK i \in DOMAIN r.interfaces : OwnIP(r, o, i)  BY DEF Kept, Own
  <2>2. OwnIP(t, o, i)  BY <1>2, <2>1 DEF OwnIP
  <2>3. /\ \E j \in DOMAIN t.interfaces : Matching(t, o.conf.bridge, HostNS) = {j}
        /\ \E j \in DOMAIN t.interfaces : Matching(t, HostName, HostNS) = {j}
    BY <1>2 DEF Kept, Own
  <2>4. QED  BY <1>1, <2>1, <2>2, <2>3 DEF Kept, Own
<1>5. Ours(t, o)
  <2>1. \A k \in DOMAIN t.routes : t.routes[k].gateway = o.conf.gateway
    BY <1>1 DEF Kept, Ours
  <2>2. QED  BY <2>1 DEF Kept, Ours
<1>6. ASSUME Pure(r, o), e.v4default = FALSE PROVE Pure(t, o)
  BY <1>1, <1>2, <1>6 DEF Pure
<1>7. QED  BY <1>3, <1>4, <1>5, <1>6 DEF Kept
-----------------------------------------------------------------------------
(* The result the runtime keeps is one that a chain has made of the result *)
(* of origin, and it is pure as long as nobody has meddled with it.        *)
Chained == cache # NoResult =>
  cache \in Result /\ Kept(cache, origin) /\ (meddled = FALSE => Pure(cache, origin))

Inv == PrevTypeOK /\ Chained /\ AcceptsOwn /\ RefusesStale

(* A step that keeps the copy of the runtime, and checks nothing.          *)
LEMMA KeepingStep ==
  ASSUME Inv, KeepCache, verdict' = "none", conf' \in Conf, record' \in Record \cup {NoRecord}
  PROVE  Inv'
<1>1. UNCHANGED <<cache, origin, plugins, meddled>>  BY DEF KeepCache
<1>2. Chained'  BY <1>1 DEF Inv, Chained
<1>3. PrevTypeOK'  BY <1>1 DEF Inv, PrevTypeOK
<1>4. QED  BY <1>2, <1>3 DEF Inv, AcceptsOwn, RefusesStale

(* The runtime takes the result of an ADD.                                 *)
LEMMA FreshStep ==
  ASSUME Inv, NEW q \in Record, Cached(BuildResult(Data(q)), q), record' = q,
         verdict' = "none", UNCHANGED conf
  PROVE  Inv'
<1>1. cache' = BuildResult(Data(q)) /\ origin' = q /\ plugins' = 0 /\ meddled' = FALSE
  BY DEF Cached
<1>2. cache' \in Result /\ Kept(cache', q) /\ Pure(cache', q)  BY <1>1, BuiltIsOwn
<1>3. cache' \in Result /\ cache' # NoResult  BY <1>1, BuiltTyped
<1>4. Chained'  BY <1>1, <1>2 DEF Chained
<1>5. PrevTypeOK'
  <2>1. \A k \in DOMAIN cache'.ips : cache'.ips[k].interface # Unbound =>
          cache'.ips[k].interface + 1 \in DOMAIN cache'.interfaces
    BY <1>2 DEF Kept, Ours
  <2>2. q # NoRecord /\ conf' \in Conf /\ MaxPlugins \in Nat
    BY AbsenceAssumption, PrevResultAssumption DEF Inv, PrevTypeOK
  <2>3. plugins' \in 0 .. MaxPlugins /\ meddled' \in BOOLEAN
    <3>1. 0 \in 0 .. MaxPlugins  BY PrevResultAssumption
    <3>2. plugins' = 0 /\ meddled' = FALSE  BY <1>1
    <3>3. QED  BY <3>1, <3>2
  <2>4. (cache' = NoResult) <=> (origin' = NoRecord)  BY <1>1, <1>3, <2>2
  <2>5. QED  BY <1>1, <1>3, <2>1, <2>2, <2>3, <2>4 DEF PrevTypeOK
<1>6. QED  BY <1>4, <1>5 DEF Inv, AcceptsOwn, RefusesStale

(* A plugin of the chain puts t in place of the copy.                      *)
LEMMA PluginStep ==
  ASSUME Inv, NEW t \in Result, Plugin(t), meddled' \in BOOLEAN,
         Kept(t, origin), meddled' = FALSE => Pure(t, origin)
  PROVE  Inv'
<1>1. cache' = t /\ plugins' = plugins + 1 /\ plugins < MaxPlugins /\ verdict' = "none"
      /\ UNCHANGED <<conf, record, origin>> /\ cache # NoResult
  BY DEF Plugin
<1>2. Chained'  BY <1>1 DEF Chained
<1>3. PrevTypeOK'
  <2>1. \A k \in DOMAIN t.ips : t.ips[k].interface # Unbound =>
          t.ips[k].interface + 1 \in DOMAIN t.interfaces
    BY DEF Kept, Ours
  <2>2. plugins + 1 \in 0 .. MaxPlugins
    BY <1>1, PrevResultAssumption DEF Inv, PrevTypeOK
  <2>3. t # NoResult  BY AbsenceAssumption
  <2>4. QED  BY <1>1, <2>1, <2>2, <2>3 DEF Inv, PrevTypeOK
<1>4. QED  BY <1>1, <1>2, <1>3 DEF Inv, AcceptsOwn, RefusesStale

LEMMA AddStep ==
  ASSUME Inv, NEW n \in NetNS, Add(n)
  PROVE  Inv'
<1>1. conf \in Conf /\ record \in Record \cup {NoRecord} /\ NoRecord \notin Record
  BY AbsenceAssumption DEF Inv, PrevTypeOK
<1>2. record' \in Record /\ record'.ns = n
  <2>1. record' \in Added(n)  BY DEF Add
  <2>2. CASE record = NoRecord
    <3>1. PICK a \in Address : record' = [ns |-> n, address |-> a, conf |-> conf]
      BY <2>1, <2>2 DEF Added
    <3>2. QED  BY <1>1, <3>1 DEF Record
  <2>3. CASE record # NoRecord
    <3>1. record' = [record EXCEPT !.ns = n] /\ record \in Record
      BY <1>1, <2>1, <2>3 DEF Added
    <3>2. QED  BY <3>1 DEF Record
  <2>4. QED  BY <2>2, <2>3
<1>3. CASE KeepCache  BY <1>1, <1>2, <1>3, KeepingStep DEF Add
<1>4. CASE Cached(BuildResult(resultFromRecord(record', n)), record')
  <2>1. PICK q \in Record : q = record'  BY <1>2
  <2>2. resultFromRecord(record', n) = Data(q)  BY <1>2, <2>1 DEF Data
  <2>3. Cached(BuildResult(Data(q)), q)  BY <1>4, <2>1, <2>2
  <2>4. QED  BY <2>1, <2>3, FreshStep DEF Add
<1>5. QED  BY <1>3, <1>4 DEF Add

LEMMA DelStep ==
  ASSUME Inv, Del
  PROVE  Inv'
<1>1. record' = NoRecord /\ UNCHANGED conf /\ verdict' = "none" /\ conf \in Conf
  BY DEF Del, Inv, PrevTypeOK
<1>2. CASE KeepCache  BY <1>1, <1>2, KeepingStep
<1>3. CASE Cached(NoResult, NoRecord)
  <2>1. cache' = NoResult /\ origin' = NoRecord /\ plugins' = 0 /\ meddled' = FALSE
    BY <1>3 DEF Cached
  <2>2. 0 \in 0 .. MaxPlugins  BY PrevResultAssumption
  <2>3. PrevTypeOK'  BY <1>1, <2>1, <2>2 DEF PrevTypeOK
  <2>4. QED  BY <1>1, <2>1, <2>3 DEF Inv, Chained, AcceptsOwn, RefusesStale
<1>4. QED  BY <1>2, <1>3 DEF Del

LEMMA ReinstallStep ==
  ASSUME Inv, NEW c \in Conf, NEW r \in {record, NoRecord}, Reinstall(c, r)
  PROVE  Inv'
<1>1. conf' \in Conf /\ record' \in Record \cup {NoRecord} /\ KeepCache /\ verdict' = "none"
  BY DEF Reinstall, Inv, PrevTypeOK
<1>2. QED  BY <1>1, KeepingStep

(* CHECK: the verdict is right because of what the copy is.                *)
LEMMA CheckStep ==
  ASSUME Inv, NEW n \in NetNS, Check(n)
  PROVE  Inv'
<1>1. UNCHANGED <<conf, record, cache, origin, plugins, meddled>>
  BY DEF Check, KeepCache
<1>2. verdict' = IF record = NoRecord \/ ~recordMatchesInvocation(n) THEN "mismatch"
                 ELSE IF ValidatePrevResult(cache, resultFromRecord(record, n)) THEN "ok"
                 ELSE "refused"
  BY DEF Check
<1>3. PrevTypeOK'
  <2>1. verdict' \in {"none", "ok", "mismatch", "refused"}  BY <1>2
  <2>2. QED  BY <1>1, <2>1 DEF Inv, PrevTypeOK
<1>4. Chained'  BY <1>1 DEF Inv, Chained
<1>5. cache # NoResult => origin \in Record /\ Own(cache, origin) /\ Ours(cache, origin)
                          /\ (meddled = FALSE => Pure(cache, origin))
  BY DEF Inv, PrevTypeOK, Chained, Kept
<1>6. record # NoRecord => record \in Record  BY DEF Inv, PrevTypeOK
<1>7. ASSUME record \in Record, record.ns = n
      PROVE  resultFromRecord(record, n) = Data(record)
  BY <1>7 DEF Data
<1>8. AcceptsOwn'
  <2>1. SUFFICES ASSUME verdict' = "refused", origin = record, meddled = FALSE
                 PROVE  FALSE
    BY <1>1 DEF AcceptsOwn, Inv, PrevTypeOK
  <2>2. record \in Record /\ record.ns = n
        /\ ~ValidatePrevResult(cache, resultFromRecord(record, n))
    BY <1>2, <1>6, <2>1 DEF recordMatchesInvocation
  <2>3. cache # NoResult  BY <2>2 DEF ValidatePrevResult
  <2>4. ValidatePrevResult(cache, Data(record))  BY <1>5, <2>1, <2>3, PureIsAccepted
  <2>5. QED  BY <1>7, <2>2, <2>4
<1>9. RefusesStale'
  <2>1. SUFFICES ASSUME verdict' = "ok", cache # NoResult
                 PROVE  origin = record
    BY <1>1 DEF RefusesStale
  <2>2. record \in Record /\ record.ns = n
        /\ ValidatePrevResult(cache, resultFromRecord(record, n))
    BY <1>2, <1>6, <2>1 DEF recordMatchesInvocation
  <2>3. ValidatePrevResult(cache, Data(record))  BY <1>7, <2>2
  <2>4. QED  BY <1>5, <2>1, <2>2, <2>3, OwnRefusesOther
<1>10. QED  BY <1>3, <1>4, <1>8, <1>9 DEF Inv

(* What a plugin finds before it changes the copy.                         *)
LEMMA BeforePlugin ==
  ASSUME Inv, cache # NoResult
  PROVE  /\ origin \in Record /\ cache \in Result /\ Kept(cache, origin)
         /\ meddled = FALSE => Pure(cache, origin)
         /\ origin.ns \in NetNS /\ origin.conf \in Conf
         /\ meddled \in BOOLEAN
<1>1. origin \in Record  BY DEF Inv, PrevTypeOK
<1>2. QED  BY <1>1 DEF Inv, PrevTypeOK, Chained, Record

LEMMA InterfaceStep ==
  ASSUME Inv, cache # NoResult, AddsInterface
  PROVE  Inv'
<1>1. /\ origin \in Record /\ cache \in Result /\ Kept(cache, origin)
      /\ meddled = FALSE => Pure(cache, origin)
      /\ origin.ns \in NetNS /\ origin.conf \in Conf
      /\ meddled \in BOOLEAN
  BY BeforePlugin
<1>2. UNCHANGED meddled  BY DEF AddsInterface
<1>3. PICK f \in ForeignInterfaces :
        \/ Plugin([cache EXCEPT !.interfaces = Append(cache.interfaces, f)])
        \/ Plugin([cache EXCEPT !.interfaces = <<f>> \o cache.interfaces,
                                !.ips = Shifted(cache.ips)])
  BY DEF AddsInterface
<1>4. Harmless(f, origin)
  <2>1. CASE \E s \in {HostNS, origin.ns} : f = Interface(OtherName, s, origin.conf.mtu)
    <3>1. PICK s \in {HostNS, origin.ns} : f = Interface(OtherName, s, origin.conf.mtu)
      BY <2>1
    <3>2. f.name = OtherName /\ f.sandbox = s /\ f.mtu = origin.conf.mtu
          /\ f \in AnInterface
      BY <1>1, <3>1 DEF Interface, AnInterface, Name
    <3>3. QED  BY <3>2, PrevResultAssumption DEF Harmless
  <2>2. CASE f = Interface(IfName, HostNS, origin.conf.mtu)
    <3>1. f.name = IfName /\ f.sandbox = HostNS /\ f.mtu = origin.conf.mtu
          /\ f \in AnInterface
      BY <1>1, <2>2 DEF Interface, AnInterface, Name
    <3>2. QED  BY <3>1 DEF Harmless
  <2>3. QED  BY <1>3, <2>1, <2>2 DEF ForeignInterfaces
<1>5. cache = [interfaces |-> cache.interfaces, ips |-> cache.ips, routes |-> cache.routes]
      /\ cache.interfaces \in Seq(AnInterface) /\ cache.ips \in Seq(AnIP)
      /\ cache.routes \in Seq(ARoute)
  BY <1>1 DEF Result
<1>6. ASSUME NEW t, t \in Result, Plugin(t), Kept(t, origin),
             Pure(cache, origin) => Pure(t, origin)
      PROVE  Inv'
  <2>1. meddled' = FALSE => Pure(t, origin)  BY <1>1, <1>2, <1>6
  <2>2. meddled' \in BOOLEAN  BY <1>1, <1>2
  <2>3. QED  BY <1>6, <2>1, <2>2, PluginStep
<1>7. CASE Plugin([cache EXCEPT !.interfaces = Append(cache.interfaces, f)])
  <2>1. PICK t : t = [cache EXCEPT !.interfaces = Append(cache.interfaces, f)]  OBVIOUS
  <2>2. t.interfaces = Append(cache.interfaces, f) /\ t.ips = cache.ips
        /\ t.routes = cache.routes
    BY <1>5, <2>1
  <2>3. Kept(t, origin) /\ (Pure(cache, origin) => Pure(t, origin))
    BY <1>1, <1>4, <2>2, BehindIsKept
  <2>4. t = [interfaces |-> t.interfaces, ips |-> t.ips, routes |-> t.routes]
    BY <1>5, <2>1
  <2>5. t \in Result  BY <2>3, <2>4 DEF Kept, Typed, Result
  <2>6. Plugin(t)  BY <1>7, <2>1
  <2>7. QED  BY <1>6, <2>3, <2>5, <2>6
<1>8. CASE Plugin([cache EXCEPT !.interfaces = <<f>> \o cache.interfaces,
                                !.ips = Shifted(cache.ips)])
  <2>1. PICK t : t = [cache EXCEPT !.interfaces = Prepend(f, cache.interfaces),
                                   !.ips = Shifted(cache.ips)]
    OBVIOUS
  <2>2. t.interfaces = Prepend(f, cache.interfaces) /\ t.ips = Shifted(cache.ips)
        /\ t.routes = cache.routes
    BY <1>5, <2>1
  <2>3. Kept(t, origin) /\ (Pure(cache, origin) => Pure(t, origin))
    BY <1>1, <1>4, <2>2, InFrontIsKept
  <2>4. t = [interfaces |-> t.interfaces, ips |-> t.ips, routes |-> t.routes]
    BY <1>5, <2>1
  <2>5. t \in Result  BY <2>3, <2>4 DEF Kept, Typed, Result
  <2>6. Plugin(t)  BY <1>8, <2>1 DEF Prepend
  <2>7. QED  BY <1>6, <2>3, <2>5, <2>6
<1>9. QED  BY <1>3, <1>7, <1>8

(* Any step that puts an address behind the others.                        *)
LEMMA AddressStep ==
  ASSUME Inv, cache # NoResult, NEW e \in AnIP,
         Plugin([cache EXCEPT !.ips = Append(cache.ips, e)]),
         e.gateway = origin.conf.gateway,
         e.interface # Unbound => e.interface + 1 \in DOMAIN cache.interfaces,
         \/ meddled' = TRUE
         \/ UNCHANGED meddled /\ \A i \in Matching(cache, IfName, origin.ns) :
                                   e.v4 = TRUE => e.interface # i - 1
  PROVE  Inv'
<1>1. /\ origin \in Record /\ cache \in Result /\ Kept(cache, origin)
      /\ meddled = FALSE => Pure(cache, origin)
      /\ meddled \in BOOLEAN
  BY BeforePlugin
<1>2. cache = [interfaces |-> cache.interfaces, ips |-> cache.ips, routes |-> cache.routes]
  BY <1>1 DEF Result
<1>3. PICK t : t = [cache EXCEPT !.ips = Append(cache.ips, e)]  OBVIOUS
<1>4. t.interfaces = cache.interfaces /\ t.ips = Append(cache.ips, e)
      /\ t.routes = cache.routes
  BY <1>2, <1>3
<1>5. Kept(t, origin)
      /\ (Pure(cache, origin) /\ (\A i \in Matching(cache, IfName, origin.ns) :
                                    e.v4 = TRUE => e.interface # i - 1)
            => Pure(t, origin))
  BY <1>1, <1>4, AddressIsKept
<1>6. t = [interfaces |-> t.interfaces, ips |-> t.ips, routes |-> t.routes]
  BY <1>2, <1>3
<1>7. t \in Result  BY <1>5, <1>6 DEF Kept, Typed, Result
<1>8. meddled' = FALSE => Pure(t, origin)  BY <1>1, <1>5
<1>9. meddled' \in BOOLEAN  BY <1>1
<1>10. Plugin(t)  BY <1>3
<1>11. QED  BY <1>5, <1>7, <1>8, <1>9, <1>10, PluginStep

(* And any that puts a route behind them.                                  *)
LEMMA RouteStep ==
  ASSUME Inv, cache # NoResult, NEW e \in ARoute,
         Plugin([cache EXCEPT !.routes = Append(cache.routes, e)]),
         e.gateway = origin.conf.gateway,
         meddled' = TRUE \/ (UNCHANGED meddled /\ e.v4default = FALSE)
  PROVE  Inv'
<1>1. /\ origin \in Record /\ cache \in Result /\ Kept(cache, origin)
      /\ meddled = FALSE => Pure(cache, origin)
      /\ meddled \in BOOLEAN
  BY BeforePlugin
<1>2. cache = [interfaces |-> cache.interfaces, ips |-> cache.ips, routes |-> cache.routes]
  BY <1>1 DEF Result
<1>3. PICK t : t = [cache EXCEPT !.routes = Append(cache.routes, e)]  OBVIOUS
<1>4. t.interfaces = cache.interfaces /\ t.ips = cache.ips
      /\ t.routes = Append(cache.routes, e)
  BY <1>2, <1>3
<1>5. Kept(t, origin) /\ (Pure(cache, origin) /\ e.v4default = FALSE => Pure(t, origin))
  BY <1>1, <1>4, RouteIsKept
<1>6. t = [interfaces |-> t.interfaces, ips |-> t.ips, routes |-> t.routes]
  BY <1>2, <1>3
<1>7. t \in Result  BY <1>5, <1>6 DEF Kept, Typed, Result
<1>8. meddled' = FALSE => Pure(t, origin)  BY <1>1, <1>5
<1>9. meddled' \in BOOLEAN  BY <1>1
<1>10. Plugin(t)  BY <1>3
<1>11. QED  BY <1>5, <1>7, <1>8, <1>9, <1>10, PluginStep

LEMMA AnyAddress ==
  ASSUME NEW i \in Int \cup {Unbound}, NEW v4 \in BOOLEAN, NEW a \in Address,
         NEW c \in Conf, NEW e,
         e = [interface |-> i, v4 |-> v4, address |-> a, gateway |-> c.gateway]
  PROVE  /\ e \in AnIP /\ e.interface = i /\ e.v4 = v4 /\ e.gateway = c.gateway
  BY DEF AnIP

LEMMA ChainStep ==
  ASSUME Inv, Chain
  PROVE  Inv'
<1>0. cache # NoResult  BY DEF Chain
<1>1. /\ origin \in Record /\ cache \in Result /\ Kept(cache, origin)
      /\ origin.ns \in NetNS /\ origin.conf \in Conf
  BY <1>0, BeforePlugin
<1>2. Unbound \notin Int  BY PrevResultAssumption
<1>3. DOMAIN cache.interfaces \subseteq Int  BY <1>1 DEF Kept, Typed
<1>4. CASE AddsInterface  BY <1>0, <1>4, InterfaceStep
<1>5. CASE AddsAddress
  <2>1. PICK i \in (DOMAIN cache.interfaces) \cup {Unbound}, v4 \in BOOLEAN, a \in Address :
          /\ v4 /\ i # Unbound => ~IsContainer(i)
          /\ Plugin([cache EXCEPT !.ips = Append(cache.ips,
               [interface |-> IF i = Unbound THEN i ELSE i - 1, v4 |-> v4, address |-> a,
                gateway |-> origin.conf.gateway])])
    BY <1>5 DEF AddsAddress
  <2>2. PICK b : b = IF i = Unbound THEN i ELSE i - 1  OBVIOUS
  <2>3. b \in Int \cup {Unbound} /\ (b # Unbound => i \in DOMAIN cache.interfaces /\ b + 1 = i)
    BY <1>2, <1>3, <2>2
  <2>4. PICK e : e = [interface |-> b, v4 |-> v4, address |-> a,
                      gateway |-> origin.conf.gateway]
    OBVIOUS
  <2>5. e \in AnIP /\ e.interface = b /\ e.v4 = v4 /\ e.gateway = origin.conf.gateway
    BY <1>1, <2>3, <2>4, AnyAddress
  <2>6. Plugin([cache EXCEPT !.ips = Append(cache.ips, e)])  BY <2>1, <2>2, <2>4
  <2>7. e.interface # Unbound => e.interface + 1 \in DOMAIN cache.interfaces
    BY <2>3, <2>5
  <2>8. ASSUME NEW j \in Matching(cache, IfName, origin.ns), e.v4 = TRUE
        PROVE  e.interface # j - 1
    <3>1. j \in Int /\ IsContainer(j)  BY <1>3 DEF Matching, IsContainer
    <3>2. CASE b = Unbound  BY <1>2, <2>5, <3>1, <3>2
    <3>3. CASE b # Unbound
      <4>1. i # Unbound /\ b = i - 1 /\ i \in Int  BY <1>2, <1>3, <2>2, <2>3, <3>3
      <4>2. ~IsContainer(i)  BY <2>1, <2>5, <2>8, <4>1
      <4>3. i # j  BY <3>1, <4>2
      <4>4. QED  BY <2>5, <3>1, <4>1, <4>3
    <3>4. QED  BY <3>2, <3>3
  <2>9. UNCHANGED meddled  BY <1>5 DEF AddsAddress
  <2>10. QED  BY <1>0, <2>5, <2>6, <2>7, <2>8, <2>9, AddressStep
<1>6. CASE AddsRoute
  <2>1. PICK e : e = [v4default |-> FALSE, gateway |-> origin.conf.gateway]  OBVIOUS
  <2>2. e \in ARoute /\ e.v4default = FALSE /\ e.gateway = origin.conf.gateway
    BY <1>1, <2>1 DEF ARoute
  <2>3. Plugin([cache EXCEPT !.routes = Append(cache.routes, e)]) /\ UNCHANGED meddled
    BY <1>6, <2>1 DEF AddsRoute
  <2>4. QED  BY <1>0, <2>2, <2>3, RouteStep
<1>7. CASE Meddles
  <2>1. meddled' = TRUE  BY <1>7 DEF Meddles
  <2>2. CASE \E i \in DOMAIN cache.interfaces, a \in Address :
               Plugin([cache EXCEPT !.ips = Append(cache.ips,
                 [interface |-> i - 1, v4 |-> TRUE, address |-> a,
                  gateway |-> origin.conf.gateway])])
    <3>1. PICK i \in DOMAIN cache.interfaces, a \in Address :
               Plugin([cache EXCEPT !.ips = Append(cache.ips,
                 [interface |-> i - 1, v4 |-> TRUE, address |-> a,
                  gateway |-> origin.conf.gateway])])
      BY <2>2
    <3>2. PICK b \in Int : b = i - 1 /\ b + 1 = i  BY <1>3
    <3>3. PICK e : e = [interface |-> b, v4 |-> TRUE, address |-> a,
                        gateway |-> origin.conf.gateway]
      OBVIOUS
    <3>4. e \in AnIP /\ e.interface = b /\ e.gateway = origin.conf.gateway
      BY <1>1, <3>3 DEF AnIP
    <3>5. Plugin([cache EXCEPT !.ips = Append(cache.ips, e)])  BY <3>1, <3>2, <3>3
    <3>6. e.interface + 1 \in DOMAIN cache.interfaces  BY <3>2, <3>4
    <3>7. QED  BY <1>0, <2>1, <3>4, <3>5, <3>6, AddressStep
  <2>3. CASE Plugin([cache EXCEPT !.routes = Append(cache.routes,
               [v4default |-> TRUE, gateway |-> origin.conf.gateway])])
    <3>1. PICK e : e = [v4default |-> TRUE, gateway |-> origin.conf.gateway]  OBVIOUS
    <3>2. e \in ARoute /\ e.gateway = origin.conf.gateway  BY <1>1, <3>1 DEF ARoute
    <3>3. Plugin([cache EXCEPT !.routes = Append(cache.routes, e)])  BY <2>3, <3>1
    <3>4. QED  BY <1>0, <2>1, <3>2, <3>3, RouteStep
  <2>4. QED  BY <1>7, <2>2, <2>3 DEF Meddles
<1>8. QED  BY <1>4, <1>5, <1>6, <1>7 DEF Chain

LEMMA InitInv ==
  ASSUME Init
  PROVE  Inv
<1>1. 0 \in 0 .. MaxPlugins  BY PrevResultAssumption
<1>2. QED  BY <1>1 DEF Init, Inv, PrevTypeOK, Chained, AcceptsOwn, RefusesStale

LEMMA NextInv ==
  ASSUME Inv, [Next]_vars
  PROVE  Inv'
<1>1. CASE \E n \in NetNS : Add(n) \/ Check(n)  BY <1>1, AddStep, CheckStep
<1>2. CASE \E c \in Conf, r \in {record, NoRecord} : Reinstall(c, r)
  BY <1>2, ReinstallStep
<1>3. CASE Del  BY <1>3, DelStep
<1>4. CASE Chain  BY <1>4, ChainStep
<1>5. CASE UNCHANGED vars
  BY <1>5 DEF vars, Inv, PrevTypeOK, Chained, AcceptsOwn, RefusesStale
<1>6. QED  BY <1>1, <1>2, <1>3, <1>4, <1>5 DEF Next

LEMMA InvAlways == Spec => []Inv
  BY InitInv, NextInv, PTL DEF Spec

(* The types, and with them that every bound address names an interface of *)
(* its result (result.go:26-28).                                           *)
THEOREM PrevTypeCorrect == Spec => []PrevTypeOK
<1>1. Inv => PrevTypeOK  BY DEF Inv
<1>2. QED  BY <1>1, InvAlways, PTL

(* CHECK accepts the result of the ADD it checks, for every chain of       *)
(* plugins of every length that leaves this endpoint's IPv4 alone          *)
(* (prev_result.go:63-98).                                                 *)
THEOREM OwnResultAccepted == Spec => []AcceptsOwn
<1>1. Inv => AcceptsOwn  BY DEF Inv
<1>2. QED  BY <1>1, InvAlways, PTL

(* CHECK refuses the result of any other incarnation of the endpoint, even *)
(* when plugins have extended it in any way (prev_result.go:12-98).        *)
THEOREM StaleResultRefused == Spec => []RefusesStale
<1>1. Inv => RefusesStale  BY DEF Inv
<1>2. QED  BY <1>1, InvAlways, PTL
=============================================================================
