----------------------------- MODULE BookProofs -----------------------------
(***************************************************************************)
(* What ADD promises when nobody interferes with namespaces and links      *)
(* while it works, whatever fails and whoever dies: the link it reports is *)
(* complete and in the file, and the plugin keeps the address book of      *)
(* AddressBook.tla.                                                        *)
(***************************************************************************)
EXTENDS LinkProofs

(* Nobody interferes. *)
Undisturbed == {"netns", "drift", "admin"} \cap Faults = {}

Sites(links) == \A h \in Name : links[h] # NoPair => links[h].by # Admin /\ links[h].at # Limbo

BuiltInv == LinkInv /\ AllBuilt

LEMMA HereBuilt ==
  ASSUME BuiltInv
  PROVE  /\ LinkInv /\ FileInv /\ CInv /\ pair \in [Name -> Pair \cup {NoPair}]
         /\ Sites(pair) /\ \A n \in NetNS : nsUp[n]
         /\ \A p \in Proc : Built(tx[p], mem[p], pair)
  BY DEF BuiltInv, AllBuilt, Sites, LinkInv, FileInv, KernelTypeOK

(* Without a namespace that is gone, closing one takes nothing with it. *)
LEMMA ClosesNothing ==
  ASSUME NEW links \in [Name -> Pair \cup {NoPair}], Sites(links)
  PROVE  AfterClose(links) = links
  BY DEF Sites, AfterClose

LEMMA SitesKept ==
  ASSUME NEW links \in [Name -> Pair \cup {NoPair}], Sites(links), NEW h \in Name
  PROVE  /\ Sites([links EXCEPT ![h] = NoPair])
         /\ [links EXCEPT ![h] = NoPair] \in [Name -> Pair \cup {NoPair}]
         /\ \A q : q.by # Admin /\ q.at # Limbo => Sites([links EXCEPT ![h] = q])
  BY DEF Sites

(* A transaction that builds nothing and has built nothing. *)
Resting(t) ==
  /\ t.pc \notin Creating \cup {"mark-ready", "persist-ready"}
  /\ t.pc \in {"finish", "unlock"} => t.op # "ADD" \/ (t.pc = "unlock" /\ t.res = "err")

LEMMA RestingBuilt ==
  ASSUME NEW t, Resting(t), NEW m, NEW links
  PROVE  Built(t, m, links)
  BY DEF Resting, Built, Complete, Succeeding, Creating

(* The steps that build the link: each adds its own to what is there.       *)
LEMMA LinkAddBuilds ==
  ASSUME BuiltInv, NEW p \in Proc, LinkAdd(p)
  PROVE  Built(tx'[p], mem'[p], pair') /\ Sites(pair')
<1> DEFINE r == tx[p]
           t == tx'[p]
           k == r.key
           h == HostName[k]
<1>1. /\ CInv /\ r \in Tx /\ pair \in [Name -> Pair \cup {NoPair}] /\ Sites(pair)
      /\ Built(r, mem[p], pair)
  BY HereBuilt, HereLinks
<1>2. /\ r.pc = "link-add"
      /\ \/ /\ pair' = [pair EXCEPT ![h] = NewPairOf(k)]
            /\ Turn(p, "alias-host") /\ Kept(p)
         \/ pair' = AfterClose(pair) /\ Onward(p, "rollback")
  BY <1>1, LinkAddOutcome
<1>3. k \in Key /\ h \in Name  BY <1>2, HereBuilt, HereLinks
<1>4. CASE pair' = AfterClose(pair) /\ Onward(p, "rollback")
  <2>1. Resting(t)  BY <1>4 DEF Resting, Onward, Turn, Creating
  <2>2. QED  BY <1>1, <1>4, <2>1, RestingBuilt, ClosesNothing
<1>5. CASE pair' = [pair EXCEPT ![h] = NewPairOf(k)] /\ Turn(p, "alias-host") /\ Kept(p)
  <2> DEFINE q == NewPairOf(k)
  <2>1. q.by = k /\ q.at = HostNS /\ q.routed = FALSE  BY DEF NewPairOf
  <2>2. q # NoPair
    <3>1. q \in Pair  BY <1>3, NewPair DEF NewPairOf
    <3>2. QED  BY <3>1, CloudnetAssumption
  <2>3. k # Admin /\ HostNS # Limbo  BY <1>3, CloudnetAssumption
  <2>4. r.fd = r.ns  BY <1>1, <1>2 DEF Built, Creating
  <2>5. t.pc = "alias-host" /\ t.key = k /\ t.ns = r.ns /\ t.fd = r.fd
    BY <1>5 DEF Turn, Same, Kept
  <2> HIDE DEF q, r, t
  <2>6. pair' = [pair EXCEPT ![h] = q]  BY <1>5 DEF q
  <2>7. pair'[h] = q  BY <1>1, <1>3, <2>6
  <2>8. Sites(pair')  BY <1>1, <1>3, <2>1, <2>3, <2>6, SitesKept
  <2>9. Built(t, mem'[p], pair')
    BY <2>1, <2>2, <2>4, <2>5, <2>7 DEF Built, Complete, Succeeding, Creating
  <2>10. QED  BY <2>8, <2>9 DEF t
<1>6. QED  BY <1>2, <1>4, <1>5

LEMMA AliasHostBuilds ==
  ASSUME BuiltInv, NEW p \in Proc, AliasHost(p)
  PROVE  Built(tx'[p], mem'[p], pair') /\ Sites(pair')
<1> DEFINE r == tx[p]
           t == tx'[p]
           k == r.key
           h == HostName[k]
           q == [pair[h] EXCEPT !.alias = k]
<1>1. /\ CInv /\ r \in Tx /\ pair \in [Name -> Pair \cup {NoPair}] /\ Sites(pair)
      /\ Built(r, mem[p], pair)
  BY HereBuilt, HereLinks
<1>2. /\ r.pc = "alias-host" /\ Kept(p)
      /\ \/ /\ pair[h] # NoPair /\ pair[h].by = k
            /\ pair' = [pair EXCEPT ![h] = q]
            /\ Turn(p, "alias-peer")
         \/ pair' = pair /\ Turn(p, "undo-by-name")
  BY <1>1, AliasHostOutcome
<1>3. k \in Key /\ h \in Name  BY <1>2, HereBuilt, HereLinks
<1>4. r.fd = r.ns /\ pair[h].routed = FALSE
  BY <1>1, <1>2 DEF Built, Creating, Complete, Succeeding
<1>5. t.key = k /\ t.ns = r.ns /\ t.fd = r.fd /\ t.pc \in {"alias-peer", "undo-by-name"}
  BY <1>2 DEF Turn, Same, Kept
<1>6. CASE pair' = pair /\ Turn(p, "undo-by-name")
  <2>1. t.pc = "undo-by-name"  BY <1>6 DEF Turn
  <2> HIDE DEF r, t
  <2>2. Built(t, mem'[p], pair')
    BY <1>4, <1>5, <2>1 DEF Built, Complete, Succeeding, Creating
  <2>3. QED  BY <1>1, <1>6, <2>2 DEF t
<1>7. CASE /\ pair[h] # NoPair /\ pair[h].by = k /\ pair' = [pair EXCEPT ![h] = q]
           /\ Turn(p, "alias-peer")
  <2>1. pair[h] \in Pair  BY <1>1, <1>3, <1>7
  <2>2. /\ q \in Pair /\ q.by = k /\ q.alias = k /\ q.at = pair[h].at
        /\ q.routed = pair[h].routed
    BY <1>3, <1>7, <2>1, PairChanges DEF Pair
  <2>3. q # NoPair /\ k # Admin  BY <1>3, <2>2, CloudnetAssumption
  <2>4. q.at # Limbo  BY <1>1, <1>3, <1>7, <2>2 DEF Sites
  <2>5. t.pc = "alias-peer"  BY <1>7 DEF Turn
  <2> HIDE DEF q, r, t
  <2>6. pair'[h] = q  BY <1>1, <1>3, <1>7
  <2>7. Sites(pair')  BY <1>1, <1>3, <1>7, <2>2, <2>3, <2>4, SitesKept
  <2>8. Built(t, mem'[p], pair')
    BY <1>4, <1>5, <2>2, <2>3, <2>5, <2>6 DEF Built, Complete, Succeeding, Creating
  <2>9. QED  BY <2>7, <2>8 DEF t
<1>8. QED  BY <1>2, <1>6, <1>7

LEMMA SetUpBuilds ==
  ASSUME BuiltInv, NEW p \in Proc,
         AliasPeer(p) \/ MovePeer(p) \/ ConfigureAddress(p) \/ AddRoute(p)
  PROVE  Built(tx'[p], mem'[p], pair') /\ Sites(pair')
<1> DEFINE r == tx[p]
           t == tx'[p]
           k == r.key
           h == HostName[k]
           l == pair[h]
           a == mem[p].endpoints[k].ip
<1>1. /\ CInv /\ r \in Tx /\ pair \in [Name -> Pair \cup {NoPair}] /\ Sites(pair)
      /\ Built(r, mem[p], pair) /\ Sound(r, mem[p])
  BY HereBuilt, HereLinks
<1>2. /\ UNCHANGED storeVars /\ Kept(p)
      /\ r.pc \in {"alias-peer", "move-peer", "configure", "add-route"}
      /\ \/ pair' = pair /\ Turn(p, "undo-create")
         \/ /\ l # NoPair /\ l.by = k
            /\ \/ /\ r.pc = "alias-peer" /\ Turn(p, "move-peer")
                  /\ pair' = [pair EXCEPT ![h] = [l EXCEPT !.peerAlias = k]]
               \/ /\ r.pc = "move-peer" /\ Turn(p, "configure")
                  /\ pair' = [pair EXCEPT ![h] = [l EXCEPT !.at = r.fd]]
               \/ /\ r.pc = "configure" /\ Turn(p, "add-route")
                  /\ pair' = [pair EXCEPT ![h] = [l EXCEPT !.addr = a]]
               \/ /\ r.pc = "add-route" /\ Turn(p, "verify-host")
                  /\ pair' = [pair EXCEPT ![h] = [l EXCEPT !.routed = TRUE]]
  BY <1>1, SetUpOutcome
<1>3. mem'[p].endpoints[k].ip = a  BY <1>2 DEF storeVars
<1>4. k \in Key /\ h \in Name  BY <1>2, HereBuilt, HereLinks
<1>5. r.fd = r.ns /\ l # NoPair /\ l.by = k /\ l.routed = FALSE /\ l.alias = k
  BY <1>1, <1>2 DEF Built, Creating, Complete, Succeeding
<1>6. /\ r.pc \in {"move-peer", "configure", "add-route"} => l.peerAlias = k
      /\ r.pc \in {"configure", "add-route"} => l.at = r.ns
      /\ r.pc = "add-route" => l.addr = a
  BY <1>1, <1>2 DEF Built
<1>7. t.key = k /\ t.ns = r.ns /\ t.fd = r.fd  BY <1>2 DEF Turn, Same, Kept
<1>8. r.ns \in NetNS /\ r.ns # Limbo
  BY <1>1, <1>2, CloudnetAssumption DEF Sound, Holding, Creating
<1>9. l \in Pair /\ l.at # Limbo /\ k # Admin
  BY <1>1, <1>4, <1>5, CloudnetAssumption DEF Sites
<1>10. CASE pair' = pair /\ Turn(p, "undo-create")
  <2>1. t.pc = "undo-create"  BY <1>10 DEF Turn
  <2> HIDE DEF r, t, a
  <2>2. Built(t, mem'[p], pair')
    BY <1>5, <1>7, <2>1 DEF Built, Complete, Succeeding, Creating
  <2>3. QED  BY <1>1, <1>10, <2>2 DEF t
<1>11. ASSUME NEW q, q.by = k, q.at # Limbo, q \in Pair, pair' = [pair EXCEPT ![h] = q]
       PROVE  Sites(pair') /\ pair'[h] = q /\ q # NoPair
  BY <1>1, <1>4, <1>9, <1>11, SitesKept, CloudnetAssumption
<1>12. CASE /\ r.pc = "alias-peer" /\ Turn(p, "move-peer")
            /\ pair' = [pair EXCEPT ![h] = [l EXCEPT !.peerAlias = k]]
  <2> DEFINE q == [l EXCEPT !.peerAlias = k]
  <2>1. /\ q \in Pair /\ q.by = k /\ q.alias = k /\ q.at = l.at /\ q.routed = FALSE
        /\ q.peerAlias = k /\ t.pc = "move-peer"
    BY <1>4, <1>5, <1>9, <1>12, PairChanges DEF Pair, Turn
  <2> HIDE DEF q, r, t, a
  <2>2. Sites(pair') /\ pair'[h] = q /\ q # NoPair  BY <1>9, <1>11, <1>12, <2>1 DEF q
  <2>3. Built(t, mem'[p], pair')
    BY <1>5, <1>7, <2>1, <2>2 DEF Built, Complete, Succeeding, Creating
  <2>4. QED  BY <2>2, <2>3 DEF t
<1>13. CASE /\ r.pc = "move-peer" /\ Turn(p, "configure")
            /\ pair' = [pair EXCEPT ![h] = [l EXCEPT !.at = r.fd]]
  <2> DEFINE q == [l EXCEPT !.at = r.fd]
  <2>1. /\ q \in Pair /\ q.by = k /\ q.alias = k /\ q.at = r.ns /\ q.routed = FALSE
        /\ q.peerAlias = k /\ t.pc = "configure"
    BY <1>5, <1>6, <1>8, <1>9, <1>13, PairChanges DEF Pair, Turn
  <2> HIDE DEF q, r, t, a
  <2>2. Sites(pair') /\ pair'[h] = q /\ q # NoPair  BY <1>8, <1>11, <1>13, <2>1 DEF q
  <2>3. Built(t, mem'[p], pair')
    BY <1>5, <1>7, <2>1, <2>2 DEF Built, Complete, Succeeding, Creating
  <2>4. QED  BY <2>2, <2>3 DEF t
<1>14. CASE /\ r.pc = "configure" /\ Turn(p, "add-route")
            /\ pair' = [pair EXCEPT ![h] = [l EXCEPT !.addr = a]]
  <2> DEFINE q == [l EXCEPT !.addr = a]
  <2>1. a \in Addr  BY <1>1, <1>14 DEF Sound, Holding, Creating, Record
  <2> HIDE DEF a
  <2>2. /\ q \in Pair /\ q.by = k /\ q.alias = k /\ q.at = r.ns /\ q.routed = FALSE
        /\ q.peerAlias = k /\ q.addr = a /\ t.pc = "add-route"
    BY <1>5, <1>6, <1>8, <1>9, <1>14, <2>1, PairChanges DEF Pair, Turn
  <2> HIDE DEF q, r, t
  <2>3. Sites(pair') /\ pair'[h] = q /\ q # NoPair  BY <1>8, <1>11, <1>14, <2>2 DEF q
  <2>4. Built(t, mem'[p], pair')
    BY <1>3, <1>5, <1>7, <2>2, <2>3 DEF Built, Complete, Succeeding, Creating
  <2>5. QED  BY <2>3, <2>4 DEF t
<1>15. CASE /\ r.pc = "add-route" /\ Turn(p, "verify-host")
            /\ pair' = [pair EXCEPT ![h] = [l EXCEPT !.routed = TRUE]]
  <2> DEFINE q == [l EXCEPT !.routed = TRUE]
  <2>1. /\ q \in Pair /\ q.by = k /\ q.alias = k /\ q.at = r.ns /\ q.routed = TRUE
        /\ q.peerAlias = k /\ q.addr = a /\ t.pc = "verify-host"
    BY <1>5, <1>6, <1>9, <1>15, PairChanges DEF Pair, Turn
  <2> HIDE DEF q, r, t, a
  <2>2. Sites(pair') /\ pair'[h] = q /\ q # NoPair  BY <1>8, <1>11, <1>15, <2>1 DEF q
  <2>3. Built(t, mem'[p], pair')
    BY <1>3, <1>5, <1>7, <2>1, <2>2 DEF Built, Complete, Succeeding, Creating
  <2>4. QED  BY <2>2, <2>3 DEF t
<1>16. QED  BY <1>2, <1>10, <1>12, <1>13, <1>14, <1>15

(* The last check of CreateEndpoint, and its failure closure. *)
LEMMA ClosureBuilds ==
  ASSUME BuiltInv, NEW p \in Proc, VerifyHost(p) \/ UndoCreate(p)
  PROVE  Built(tx'[p], mem'[p], pair') /\ Sites(pair')
<1> DEFINE r == tx[p]
           t == tx'[p]
           k == r.key
           h == HostName[k]
<1>1. /\ CInv /\ r \in Tx /\ pair \in [Name -> Pair \cup {NoPair}] /\ Sites(pair)
      /\ Built(r, mem[p], pair)
  BY HereBuilt, HereLinks
<1>2. AfterClose(pair) = pair  BY <1>1, ClosesNothing
<1>3. CASE UndoCreate(p)
  <2>1. /\ r.pc \in {"undo-create", "undo-by-name"} /\ Turn(p, "rollback")
        /\ pair' = AfterClose(pair) \/ pair' = AfterClose([pair EXCEPT ![h] = NoPair])
    BY <1>1, <1>3, UndoOutcome DEF Onward
  <2>2. h \in Name  BY <2>1, HereBuilt, HereLinks
  <2> DEFINE cut == [pair EXCEPT ![h] = NoPair]
  <2>3. Sites(pair')
    <3>1. Sites(cut) /\ cut \in [Name -> Pair \cup {NoPair}]  BY <1>1, <2>2, SitesKept
    <3> HIDE DEF cut
    <3>2. AfterClose(cut) = cut  BY <3>1, ClosesNothing
    <3>3. pair' = pair \/ pair' = cut  BY <1>2, <2>1, <3>2 DEF cut
    <3>4. QED  BY <1>1, <3>1, <3>3
  <2>4. Resting(t)  BY <2>1 DEF Resting, Turn, Creating
  <2>5. QED  BY <2>3, <2>4, RestingBuilt
<1>4. CASE VerifyHost(p)
  <2>1. /\ UNCHANGED storeVars /\ r.pc = "verify-host" /\ pair' = pair
        /\ \/ Turn(p, "mark-ready")
           \/ Turn(p, "undo-create") /\ Kept(p)
    BY <1>1, <1>2, <1>4, VerifyOutcome DEF Onward
  <2>2. mem' = mem  BY <2>1 DEF storeVars
  <2>3. /\ t.key = k /\ t.ns = r.ns /\ t.pc \in {"mark-ready", "undo-create"}
        /\ t.pc = "undo-create" => t.fd = r.fd
    BY <2>1, Stacks DEF Turn, Same, Kept
  <2> HIDE DEF r, t
  <2>4. Built(t, mem'[p], pair')
    BY <1>1, <2>1, <2>2, <2>3 DEF Built, Complete, Succeeding, Creating, k
  <2>5. QED  BY <1>1, <2>1, <2>4 DEF t
<1>5. QED  BY <1>3, <1>4

LEMMA DeleteBuilds ==
  ASSUME BuiltInv, NEW p \in Proc, FindHost(p) \/ LinkDel(p) \/ StatPeer(p) \/ FindPeer(p)
  PROVE  Built(tx'[p], mem'[p], pair') /\ Sites(pair')
<1> DEFINE t == tx'[p]
           h == HostName[tx[p].key]
<1>1. LinkInv /\ CInv /\ pair \in [Name -> Pair \cup {NoPair}] /\ Sites(pair)  BY HereBuilt
<1>2. /\ tx[p].pc \in Deleting
      /\ pair' = pair \/ pair' = [pair EXCEPT ![h] = NoPair]
      /\ \/ \E pc \in {"link-del", "stat-peer", "find-peer"} : Turn(p, pc)
         \/ Returns(p) \/ GivesUp(p)
  BY <1>1, DeleteOutcome
<1>3. h \in Name  BY <1>1, <1>2, HereLinks DEF Deleting
<1>4. Resting(t)  BY <1>2 DEF Resting, Turn, Returns, GivesUp, Fails, Creating
<1>5. QED  BY <1>1, <1>2, <1>3, <1>4, RestingBuilt, SitesKept

(* An endpoint that is reused was found complete. *)
LEMMA ReuseBuilds ==
  ASSUME BuiltInv, NEW p \in Proc, IdempotencyCheck(p)
  PROVE  Built(tx'[p], mem'[p], pair)
<1> DEFINE r == tx[p]
           t == tx'[p]
           k == r.key
           q == pair[HostName[k]]
<1>1. CInv /\ Sound(r, mem[p]) /\ Attributed(pair) /\ r \in Tx
  BY HereBuilt, HereLinks
<1>2. /\ UNCHANGED storeVars /\ r.pc = "idempotency-check"
      /\ \/ EndpointOK(k, mem[p].endpoints[k], r.ns) /\ Turn(p, "finish")
         \/ Turn(p, "reconcile-pending")
  BY <1>1, IdempotencyOutcome
<1>3. CASE Turn(p, "reconcile-pending")
  <2>1. Resting(t)  BY <1>3 DEF Resting, Turn, Creating
  <2>2. QED  BY <2>1, RestingBuilt
<1>4. CASE EndpointOK(k, mem[p].endpoints[k], r.ns) /\ Turn(p, "finish")
  <2>1. k \in Key /\ HostName[k] \in Name /\ r.op = "ADD"
    BY <1>1, <1>2, HereBuilt, HereLinks DEF Sound, Holding
  <2>2. /\ q # NoPair /\ q.alias = k /\ q.at = r.ns /\ q.peerAlias = k /\ q.routed
        /\ q.addr = mem[p].endpoints[k].ip
    BY <1>4 DEF EndpointOK, Owned
  <2>3. q.by = k  BY <1>1, <2>1, <2>2, StoreStateAssumption DEF Attributed
  <2>4. q.routed = TRUE
    <3>1. q \in Pair  BY <2>1, <2>2, HereBuilt
    <3>2. QED  BY <2>2, <3>1 DEF Pair
  <2>5. t.pc = "finish" /\ t.op = "ADD" /\ t.key = k /\ t.ns = r.ns /\ mem' = mem
    BY <1>2, <1>4, <2>1 DEF Turn, Same, storeVars
  <2> HIDE DEF r, t
  <2>6. Built(t, mem'[p], pair)
    BY <2>2, <2>3, <2>4, <2>5 DEF Built, Complete, Succeeding, Creating, q, k
  <2>7. QED  BY <2>6 DEF t
<1>5. QED  BY <1>2, <1>3, <1>4

(* Once complete, the link is that of the record until the ADD returns.     *)
LEMMA CompleteStays ==
  ASSUME NEW r, NEW t, NEW m, NEW n, NEW links, Built(r, m, links), Complete(r),
         t.key = r.key, t.ns = r.ns, t.pc \in {"persist-ready", "finish", "unlock"},
         t.pc # "persist-ready" => t.op = "ADD" /\ (t.pc = "unlock" => t.res = "ok"),
         n.endpoints[t.key].ip = m.endpoints[t.key].ip
  PROVE  Built(t, n, links)
<1>1. Complete(t)  BY DEF Complete, Succeeding
<1>2. t.pc \notin Creating  BY DEF Creating
<1>3. r.pc # "verify-host"  BY DEF Complete, Succeeding
<1>4. t.pc # "verify-host"  OBVIOUS
<1>5. QED  BY <1>1, <1>2, <1>3, <1>4 DEF Built

LEMMA ReadyBuilds ==
  ASSUME BuiltInv, NEW p \in Proc, AddMarkReady(p) \/ ReconcilePending(p) \/ Committing(p)
  PROVE  Built(tx'[p], mem'[p], pair)
<1> DEFINE r == tx[p]
           t == tx'[p]
           k == r.key
<1>1. CInv /\ FileInv /\ Sound(r, mem[p]) /\ r \in Tx /\ Built(r, mem[p], pair)
  BY HereBuilt, HereLinks
<1>2. Resting(t) => Built(t, mem'[p], pair)  BY RestingBuilt
<1>3. CASE AddMarkReady(p) \/ ReconcilePending(p)
  <2>1. \/ r.pc = "reconcile-pending" /\ Turn(p, "persist-reconcile")
        \/ /\ r.pc = "mark-ready" /\ MarkPhase(p, k, "ready") /\ Turn(p, "persist-ready")
    BY <1>1, <1>3, MarkOutcome
  <2>2. CASE Turn(p, "persist-reconcile")
    <3>1. Resting(t)  BY <2>2 DEF Resting, Turn, Creating
    <3>2. QED  BY <1>2, <3>1
  <2>3. CASE r.pc = "mark-ready" /\ MarkPhase(p, k, "ready") /\ Turn(p, "persist-ready")
    <3>1. k \in Key /\ "ready" \in Phase  BY <2>3, <1>1, HereAgrees DEF Phase
    <3>2. mem'[p].endpoints[k].ip = mem[p].endpoints[k].ip
      BY <1>1, <2>3, <3>1, MarkEntries
    <3>3. t.pc = "persist-ready" /\ t.key = k /\ t.ns = r.ns  BY <2>3 DEF Turn, Same
    <3>4. Complete(r)  BY <2>3 DEF Complete
    <3>5. QED  BY <1>1, <3>2, <3>3, <3>4, CompleteStays
  <2>4. QED  BY <2>1, <2>2, <2>3
<1>4. CASE Committing(p)
  <2>1. \/ r.pc = "finish" /\ Turn(p, "unlock") /\ t.res = "ok"
        \/ Fails(p)
        \/ Turn(p, "ensure-bridge") \/ Turn(p, "find-host") \/ Turn(p, "rollback")
        \/ r.pc = "persist-ready" /\ Turn(p, "finish")
    BY <1>1, <1>4, PersistOutcome DEF Committing
  <2>2. mem' = mem
    <3>1. CommitDone(p) \/ CommitNotDone(p)  BY <1>1, <1>4, PersistOutcome DEF Committing
    <3>2. QED  BY <1>1, <3>1, CommitFile
  <2>3. t.key = k /\ t.ns = r.ns /\ t.op = r.op  BY <2>1 DEF Turn, Same, Fails
  <2>4. CASE Fails(p) \/ Turn(p, "ensure-bridge") \/ Turn(p, "find-host") \/ Turn(p, "rollback")
    <3>1. Resting(t)  BY <2>4 DEF Resting, Turn, Fails, Creating
    <3>2. QED  BY <1>2, <3>1
  <2>5. CASE r.pc = "persist-ready" /\ Turn(p, "finish")
    <3>1. Complete(r) /\ t.pc = "finish" /\ t.op = "ADD"
      BY <1>1, <2>3, <2>5 DEF Complete, Turn, Sound, Holding
    <3>2. QED  BY <1>1, <2>2, <2>3, <3>1, CompleteStays
  <2>6. CASE r.pc = "finish" /\ Turn(p, "unlock") /\ t.res = "ok"
    <3>1. t.pc = "unlock"  BY <2>6 DEF Turn
    <3>2. CASE r.op = "ADD"
      <4>1. Complete(r)  BY <2>6, <3>2 DEF Complete, Succeeding
      <4>2. QED  BY <1>1, <2>2, <2>3, <2>6, <3>1, <3>2, <4>1, CompleteStays
    <3>3. CASE r.op # "ADD"
      <4>1. Resting(t)  BY <2>3, <3>1, <3>3 DEF Resting, Creating
      <4>2. QED  BY <1>2, <4>1
    <3>4. QED  BY <3>2, <3>3
  <2>7. QED  BY <2>1, <2>4, <2>5, <2>6
<1>5. QED  BY <1>3, <1>4

LEMMA OtherBuilds ==
  ASSUME BuiltInv, NEW p \in Proc,
         \/ Invoke(p) \/ Lock(p) \/ Load(p) \/ LoadFails(p) \/ Return(p) \/ Crash(p)
         \/ AddAllocate(p) \/ AddAllocateFails(p) \/ AddEnsureBridge(p) \/ Preflight(p)
         \/ RollbackDelete(p) \/ RollbackRelease(p) \/ RollbackEnds(p)
         \/ DelRelease(p) \/ Check(p)
  PROVE  Built(tx'[p], mem'[p], pair)
<1> DEFINE r == tx[p]
           t == tx'[p]
<1>1. CInv /\ TxAgrees(p) /\ r \in Tx  BY HereBuilt, HereLinks
<1>2. Resting(t) => Built(t, mem'[p], pair)  BY RestingBuilt
<1>3. CASE Invoke(p)
  <2>1. PICK op, c, n, j :
          Become(p, [Idle EXCEPT !.pc = "lock", !.op = op, !.key = j, !.ns = n, !.config = c])
    BY <1>3 DEF Invoke, InvokeAs
  <2> DEFINE u == [Idle EXCEPT !.pc = "lock", !.op = op, !.key = j, !.ns = n, !.config = c]
  <2>2. u.pc = "lock"  BY DEF Idle
  <2> HIDE DEF u
  <2>3. t = u  BY <1>1, <2>1, Becomes DEF u
  <2>4. Resting(t)  BY <2>2, <2>3 DEF Resting, Creating
  <2>5. QED  BY <1>2, <2>4
<1>4. CASE Lock(p)
  <2>1. t.pc = "load"  BY <1>1, <1>4, Turns DEF Lock, Steps, Turn
  <2>2. Resting(t)  BY <2>1 DEF Resting, Creating
  <2>3. QED  BY <1>2, <2>2
<1>5. CASE LoadFails(p) \/ Return(p) \/ Crash(p)
  <2>1. t.pc = "idle"  BY <1>1, <1>5, Fetched
  <2>2. Resting(t)  BY <2>1 DEF Resting, Creating
  <2>3. QED  BY <1>2, <2>2
<1>6. CASE Load(p) \/ AddAllocate(p) \/ AddEnsureBridge(p)
  <2>1. t.pc \in {"allocate", "check", "find-host", "persist-pending", "ensure-bridge",
                  "idempotency-check", "create-veth", "rollback"}
    BY <1>1, <1>6, LoadOutcome, AllocateOutcome, BridgeOutcome DEF Turn
  <2>2. Resting(t)  BY <2>1 DEF Resting, Creating
  <2>3. QED  BY <1>2, <2>2
<1>7. CASE Preflight(p)
  <2>1. \/ Turn(p, "link-add") /\ t.fd = r.ns
        \/ Turn(p, "rollback")
    BY <1>1, <1>7, PreflightOutcome
  <2>2. t.ns = r.ns /\ (t.pc = "rollback" \/ (t.pc = "link-add" /\ t.fd = r.ns))
    BY <2>1 DEF Turn, Same
  <2>3. CASE t.pc = "rollback"
    <3>1. Resting(t)  BY <2>3 DEF Resting, Creating
    <3>2. QED  BY <1>2, <3>1
  <2>4. CASE t.pc = "link-add" /\ t.fd = r.ns
    <3> HIDE DEF r, t
    <3>1. Built(t, mem'[p], pair)
      BY <2>2, <2>4 DEF Built, Complete, Succeeding, Creating
    <3>2. QED  BY <3>1 DEF t
  <2>5. QED  BY <2>2, <2>3, <2>4
<1>8. CASE RollbackDelete(p) \/ RollbackRelease(p) \/ RollbackEnds(p)
  <2>1. t.pc \in {"find-host", "persist-release"} \/ (t.pc = "unlock" /\ t.res = "err")
    BY <1>1, <1>8, RollbackOutcome DEF Turn, Fails
  <2>2. Resting(t)  BY <2>1 DEF Resting, Creating
  <2>3. QED  BY <1>2, <2>2
<1>9. CASE DelRelease(p) \/ Check(p) \/ AddAllocateFails(p)
  <2>1. \/ r.pc \in {"release", "check"} /\ t.pc = "finish" /\ t.op = r.op
        \/ t.pc = "unlock" /\ t.res = "err"
    BY <1>1, <1>9, FinalOutcome DEF Turn, Fails, Same
  <2>2. r.pc \in {"release", "check"} => r.op # "ADD"  BY <1>1 DEF TxAgrees, Commanded
  <2>3. Resting(t)  BY <2>1, <2>2 DEF Resting, Creating
  <2>4. QED  BY <1>2, <2>3
<1>10. QED  BY <1>3, <1>4, <1>5, <1>6, <1>7, <1>8, <1>9

LEMMA SelfBuilds ==
  ASSUME BuiltInv, NEW p \in Proc, Invoke(p) \/ Lock(p) \/ Run(p) \/ Crash(p)
  PROVE  Built(tx'[p], mem'[p], pair') /\ Sites(pair')
<1>1. /\ LinkInv /\ Sites(pair) /\ AfterClose(pair) = pair
  BY HereBuilt, ClosesNothing
<1>2. CASE \/ LinkAdd(p) \/ AliasHost(p) \/ AliasPeer(p) \/ MovePeer(p)
           \/ ConfigureAddress(p) \/ AddRoute(p) \/ VerifyHost(p) \/ UndoCreate(p)
  BY <1>2, LinkAddBuilds, AliasHostBuilds, SetUpBuilds, ClosureBuilds
<1>3. CASE FindHost(p) \/ LinkDel(p) \/ StatPeer(p) \/ FindPeer(p)  BY <1>3, DeleteBuilds
<1>4. CASE AddMarkReady(p) \/ ReconcilePending(p) \/ Committing(p)
  <2>1. pair' = pair  BY <1>1, <1>4, OtherLinks DEF Committing
  <2>2. QED  BY <1>1, <1>4, <2>1, ReadyBuilds
<1>5. CASE IdempotencyCheck(p)
  <2>1. pair' = pair  BY <1>1, <1>5, OtherLinks
  <2>2. QED  BY <1>1, <1>5, <2>1, ReuseBuilds
<1>6. CASE \/ Invoke(p) \/ Lock(p) \/ Load(p) \/ LoadFails(p) \/ Return(p) \/ Crash(p)
           \/ AddAllocate(p) \/ AddAllocateFails(p) \/ AddEnsureBridge(p) \/ Preflight(p)
           \/ RollbackDelete(p) \/ RollbackRelease(p) \/ RollbackEnds(p)
           \/ DelRelease(p) \/ Check(p)
  <2>1. pair' = pair  BY <1>1, <1>6, OtherLinks
  <2>2. QED  BY <1>1, <1>6, <2>1, OtherBuilds
<1>7. QED  BY <1>2, <1>3, <1>4, <1>5, <1>6 DEF Run, AddNext, DeleteNext, Committing

(* The others have nothing under construction meanwhile.                    *)
LEMMA WaitingBuilt ==
  ASSUME NEW t, t.pc \in {"idle", "lock"}, NEW m, NEW links
  PROVE  Built(t, m, links)
<1>1. Resting(t)  BY DEF Resting, Creating
<1>2. QED  BY <1>1, RestingBuilt

(* What is left of the surroundings: foreign interfaces, renamed host ends  *)
(* and a file that is lost or damaged, the last two between invocations.    *)
LEMMA QuietSurroundings ==
  ASSUME Undisturbed, BuiltInv, Environment
  PROVE  /\ tx' = tx /\ mem' = mem /\ nsUp' = nsUp
         /\ \/ pair' = pair
            \/ lock = NoProc /\ \E h \in Name : pair' = [pair EXCEPT ![h] = NoPair]
<1>1. \A n \in NetNS : nsUp[n]  BY HereBuilt
<1>2. "netns" \notin Faults /\ "drift" \notin Faults /\ "admin" \notin Faults
  BY DEF Undisturbed
<1>3. ASSUME NEW n \in NetNS PROVE ~NamespaceGone(n) /\ ~NamespaceMade(n)
  BY <1>1, <1>2 DEF NamespaceGone, NamespaceMade, Fault
<1>4. ASSUME NEW h \in Name PROVE ~Drift(h) /\ ~AdminAdds(h) /\ ~AdminDeletes(h)
  BY <1>2 DEF Drift, AdminAdds, AdminDeletes, Fault
<1>5. CASE \E h \in Name : HostRenamed(h)  BY <1>5 DEF HostRenamed, storeVars
<1>6. CASE \E n \in NetNS, i \in Iface : ForeignInterface(n, i)
  BY <1>6 DEF ForeignInterface, storeVars
<1>7. CASE StateLost \/ StateDamaged
  BY <1>7 DEF StateLost, StateDamaged, LoseState, DamageState, kernelVars
<1>8. QED  BY <1>3, <1>4, <1>5, <1>6, <1>7 DEF Environment

(* A process that waits for the lock touches no link.                      *)
LEMMA WaitingStill ==
  ASSUME BuiltInv, NEW p \in Proc, tx[p].pc \in {"idle", "lock"},
         Invoke(p) \/ Lock(p) \/ Run(p) \/ Crash(p)
  PROVE  pair' = pair
<1>1. LinkInv /\ CInv /\ AfterClose(pair) = pair  BY HereBuilt, ClosesNothing
<1>2. ~Work(p)  BY <1>1, WorkKeeps DEF InCallback
<1>3. Invoke(p) \/ Lock(p) \/ Load(p) \/ LoadFails(p) \/ Return(p) \/ Crash(p)
  BY <1>2 DEF Run, Work
<1>4. QED  BY <1>1, <1>3, OtherLinks

LEMMA BuiltStep ==
  ASSUME Undisturbed
  PROVE  BuiltInv /\ [Next]_vars => BuiltInv'
<1> SUFFICES ASSUME BuiltInv, [Next]_vars PROVE BuiltInv'  OBVIOUS
<1>1. LinkInv /\ LinkInv' /\ FileInv /\ CInv /\ KernelTypeOK
  BY LinkStep, HereBuilt DEF LinkInv
<1>2. ASSUME Sites(pair'), nsUp' = nsUp, \A q \in Proc : Built(tx'[q], mem'[q], pair')
      PROVE  BuiltInv'
  BY <1>1, <1>2, HereBuilt DEF BuiltInv, AllBuilt, Sites
<1>3. ASSUME NEW p \in Proc, Invoke(p) \/ Lock(p) \/ Run(p) \/ Crash(p)
      PROVE  BuiltInv'
  <2>1. Built(tx'[p], mem'[p], pair') /\ Sites(pair')  BY <1>3, SelfBuilds
  <2>2. nsUp' = nsUp  BY <1>1, <1>3, InvocationLinks
  <2>3. ASSUME NEW q \in Proc, q # p PROVE Built(tx'[q], mem'[q], pair')
    <3>1. tx'[q] = tx[q] /\ mem'[q] = mem[q]  BY <1>1, <1>3, <2>3, OthersStand
    <3>2. CASE tx[q].pc \in {"idle", "lock"}  BY <3>1, <3>2, WaitingBuilt
    <3>3. CASE tx[q].pc \notin {"idle", "lock"}
      <4>1. tx[p].pc \in {"idle", "lock"}  BY <1>1, <2>3, <3>3, Alone
      <4>2. pair' = pair  BY <1>1, <1>3, <4>1, WaitingStill
      <4>3. QED  BY <3>1, <4>2, HereBuilt
    <3>4. QED  BY <3>2, <3>3
  <2>4. QED  BY <1>2, <2>1, <2>2, <2>3
<1>4. CASE Environment
  <2>1. /\ tx' = tx /\ mem' = mem /\ nsUp' = nsUp
        /\ \/ pair' = pair
           \/ lock = NoProc /\ \E h \in Name : pair' = [pair EXCEPT ![h] = NoPair]
    BY <1>4, QuietSurroundings
  <2>2. Sites(pair')  BY <2>1, HereBuilt, SitesKept
  <2>3. ASSUME NEW q \in Proc PROVE Built(tx'[q], mem'[q], pair')
    <3>1. Built(tx[q], mem[q], pair)  BY HereBuilt
    <3>2. lock = NoProc => tx[q].pc \in {"idle", "lock"}
      BY <1>1, StoreAssumption DEF FileInv, Serial
    <3>3. QED  BY <2>1, <3>1, <3>2, WaitingBuilt
  <2>4. QED  BY <1>2, <2>1, <2>2, <2>3
<1>5. CASE UNCHANGED vars
  <2>1. nsUp' = nsUp /\ pair' = pair /\ tx' = tx /\ mem' = mem  BY <1>5 DEF vars
  <2>2. QED  BY <1>2, <2>1, HereBuilt
<1>6. QED  BY <1>3, <1>4, <1>5 DEF Next

LEMMA BuiltInit == Init => BuiltInv
<1> SUFFICES ASSUME Init PROVE BuiltInv  OBVIOUS
<1>1. /\ LinkInv /\ \A n \in NetNS : nsUp[n]
      /\ \A h \in Name : pair[h] = NoPair
  BY LinkInit DEF Init
<1>2. ASSUME NEW p \in Proc PROVE tx[p].pc = "idle"  BY <1>2 DEF Init, Idle
<1>3. QED  BY <1>1, <1>2, WaitingBuilt DEF BuiltInv, AllBuilt

LEMMA BuiltInvariant ==
  ASSUME Undisturbed
  PROVE  Spec => []BuiltInv
<1>1. BuiltInv /\ [Next]_vars => BuiltInv'  BY BuiltStep
<1>2. QED  BY <1>1, BuiltInit, PTL DEF Spec

(* When an ADD returns success, the file holds a ready record of its        *)
(* endpoint with the namespace it was called with, and the kernel the       *)
(* complete link that CHECK would accept: whichever way the ADD took there, *)
(* whatever earlier invocations left behind when they failed or died, and   *)
(* whatever is renamed, lost or damaged between two invocations. The        *)
(* hypothesis leaves out those who change namespaces and links while the    *)
(* ADD works: AddDelivers is about one moment, at which nobody can keep an  *)
(* administrator from deleting the link (service.go:137-261).               *)
THEOREM SuccessfulAddDelivers ==
  ASSUME {"netns", "drift", "admin"} \cap Faults = {}
  PROVE  Spec => []AddDelivers
<1>1. ASSUME BuiltInv, NEW p \in Proc, Succeeds(p, "ADD")
      PROVE  /\ Recorded(Key_(p))
             /\ RecordOnDisk(Key_(p)).phase = "ready"
             /\ RecordOnDisk(Key_(p)).netns = tx[p].ns
             /\ EndpointOK(Key_(p), RecordOnDisk(Key_(p)), tx[p].ns)
  <2> DEFINE r == tx[p]
             k == r.key
             q == pair[HostName[k]]
  <2>1. /\ LinkInv /\ FileInv /\ Built(r, mem[p], pair) /\ \A n \in NetNS : nsUp[n]
        /\ r.pc = "unlock" /\ r.op = "ADD" /\ r.res = "ok"
    BY <1>1, HereBuilt DEF Succeeds, At
  <2>2. /\ TxAgrees(p) /\ Sound(r, mem[p]) /\ k \in Key /\ InCallback(r) /\ active[p]
    BY <2>1, HereLinks, HereAgrees DEF InCallback
  <2>3. Succeeding(r, "ADD") /\ ~Quarantined(r) /\ Complete(r)
    BY <2>1 DEF Succeeding, Quarantined, Complete, Recovering, Creating, Deleting
  <2>4. Loaded(disk) = mem[p]
    BY <2>1, <2>2, HereAgrees DEF TxAgrees, Agrees
  <2>5. /\ mem[p].endpoints[k] \in Record /\ mem[p].endpoints[k].netns = r.ns
        /\ mem[p].endpoints[k].phase = "ready"
    BY <2>2, <2>3, <2>4 DEF TxAgrees, Agrees
  <2>6. Recorded(k) /\ RecordOnDisk(k) = mem[p].endpoints[k]
    BY <2>1, <2>2, <2>4, <2>5, RecordInFile
  <2>7. r.ns \in NetNS  BY <2>1, <2>2 DEF Sound
  <2>8. /\ q # NoPair /\ q.alias = k /\ q.at = r.ns /\ q.peerAlias = k
        /\ q.addr = mem[p].endpoints[k].ip
        /\ q.routed = (r.pc = "verify-host" \/ Complete(r))
    BY <2>1, <2>3 DEF Built
  <2>9. EndpointOK(k, RecordOnDisk(k), r.ns)
    BY <2>1, <2>3, <2>6, <2>7, <2>8 DEF EndpointOK, Owned
  <2>10. QED  BY <2>5, <2>6, <2>9 DEF Key_
<1>2. BuiltInv => AddDelivers  BY <1>1 DEF AddDelivers
<1>3. Undisturbed  BY DEF Undisturbed
<1>4. Spec => []BuiltInv  BY <1>3, BuiltInvariant
<1>5. QED  BY <1>2, <1>4, PTL

-----------------------------------------------------------------------------
(* The address book that file and links show. *)
Phases == [k \in Key |-> IF Recorded(k) THEN RecordOnDisk(k).phase ELSE "none"]
Addresses == [k \in Key |-> IF Recorded(k) THEN RecordOnDisk(k).ip ELSE NoAddr]
Links == [k \in Key |-> LinkState(k)]

(* As long as the file can be read and no pair is hidden, one record and    *)
(* one host name tell all there is about an endpoint.                       *)
Entry(k) == Loaded(disk).endpoints[k]
PhaseIn(e) == IF e = NoRecord THEN "none" ELSE e.phase
AddressIn(e) == IF e = NoRecord THEN NoAddr ELSE e.ip

Linked(k, links) == links[HostName[k]] # NoPair /\ links[HostName[k]].by = k

LinkOn(q, k, a) ==
  IF q.alias = k /\ q.peerAlias = k /\ q.routed /\ q.addr = a THEN "complete" ELSE "partial"

LinkIn(k, e, links) ==
  IF e = NoRecord \/ ~Linked(k, links) THEN "none" ELSE LinkOn(links[HostName[k]], k, e.ip)

BookInv == OrphanInv /\ BuiltInv /\ stray = {} /\ disk # Corrupt

LEMMA LinksAre ==
  ASSUME Attributed(pair), stray = {}, NEW k \in Key
  PROVE  LinksOf(k) = IF Linked(k, pair) THEN {pair[HostName[k]]} ELSE {}
  BY CloudnetAssumption DEF Attributed, LinksOf, Pairs, Linked

Shown == \A k \in Key : /\ Phases[k] = PhaseIn(Entry(k))
                        /\ Addresses[k] = AddressIn(Entry(k))
                        /\ Links[k] = LinkIn(k, Entry(k), pair)

LEMMA BookShows == BookInv => Shown
<1> SUFFICES ASSUME BookInv, NEW k \in Key
             PROVE  /\ Phases[k] = PhaseIn(Entry(k))
                    /\ Addresses[k] = AddressIn(Entry(k))
                    /\ Links[k] = LinkIn(k, Entry(k), pair)
  BY DEF Shown
<1>1. /\ Attributed(pair) /\ stray = {} /\ disk # Corrupt
      /\ \A h \in Name : pair[h] # NoPair /\ pair[h].by # Admin
                           => HasEndpoint(Loaded(disk), pair[h].by)
  BY DEF BookInv, OrphanInv, LinkInv, LinksFollow, NoOrphans
<1>2. LinksOf(k) = IF Linked(k, pair) THEN {pair[HostName[k]]} ELSE {}  BY <1>1, LinksAre
<1>3. /\ Recorded(k) <=> Entry(k) # NoRecord
      /\ Recorded(k) => RecordOnDisk(k) = Entry(k)
  BY <1>1 DEF Recorded, RecordOnDisk, Entry, Loaded, HasEndpoint, newPersistedState
<1>4. Linked(k, pair) => Recorded(k)
  BY <1>1, <1>3, CloudnetAssumption DEF Linked, HasEndpoint, Entry
<1>5. LinkState(k) = IF ~Linked(k, pair) THEN "none"
                     ELSE LinkOn(pair[HostName[k]], k, RecordOnDisk(k).ip)
  BY <1>2 DEF LinkState, LinkOn
<1>6. LinkState(k) = LinkIn(k, Entry(k), pair)  BY <1>3, <1>4, <1>5 DEF LinkIn
<1>7. QED  BY <1>3, <1>6 DEF Phases, Addresses, Links, PhaseIn, AddressIn

LEMMA BookShowsNext == BookInv' => Shown'
  BY BookShows, PTL

(* One endpoint moves, the rest of the book stays. *)
Moved(k, p, a, l) == /\ Phases' = [Phases EXCEPT ![k] = p]
                     /\ Addresses' = [Addresses EXCEPT ![k] = a]
                     /\ Links' = [Links EXCEPT ![k] = l]

LEMMA BookActions ==
  ASSUME NEW k \in Key, NEW p, NEW a, NEW l, Moved(k, p, a, l)
  PROVE
    /\ ( /\ Phases[k] = "none" /\ p = "pending" /\ Links[k] = "none" /\ l = "none"
         /\ a \in Addr /\ \A j \in Key : Addresses[j] # a )
       => Book!Assign(k, a)
    /\ ( /\ p = Phases[k] /\ p = "pending" /\ a = Addresses[k]
         /\ Links[k] = "none" /\ l = "partial" )
       => Book!Build(k)
    /\ ( /\ p = Phases[k] /\ p = "pending" /\ a = Addresses[k]
         /\ Links[k] = "partial" /\ l = "complete" )
       => Book!Complete(k)
    /\ ( /\ Phases[k] = "pending" /\ p = "ready" /\ a = Addresses[k]
         /\ Links[k] = "complete" /\ l = "complete" )
       => Book!Activate(k)
    /\ ( /\ Phases[k] = "ready" /\ p = "pending" /\ a = Addresses[k] /\ l = Links[k] )
       => Book!Quarantine(k)
    /\ ( p = Phases[k] /\ a = Addresses[k] /\ Links[k] # "none" /\ l = "none" )
       => Book!Remove(k)
    /\ ( /\ Phases[k] # "none" /\ p = "none" /\ a = NoAddr
         /\ Links[k] = "none" /\ l = "none" )
       => Book!Free(k)
    /\ ( p = Phases[k] /\ a = Addresses[k] /\ l = Links[k] )
       => UNCHANGED Book!bookVars
<1>1. /\ Phases = [j \in Key |-> Phases[j]] /\ Addresses = [j \in Key |-> Addresses[j]]
      /\ Links = [j \in Key |-> Links[j]]
  BY DEF Phases, Addresses, Links
<1>2. /\ p = Phases[k] => Phases' = Phases
      /\ a = Addresses[k] => Addresses' = Addresses
      /\ l = Links[k] => Links' = Links
  BY <1>1 DEF Moved
<1>3. ASSUME Phases[k] = "none", p = "pending", a \in Addr, \A j \in Key : Addresses[j] # a,
             Links[k] = "none", l = "none"
      PROVE  Book!Assign(k, a)
  BY <1>2, <1>3 DEF Moved, Book!Assign, Phases, Addresses, Links
<1>4. ASSUME p = Phases[k], a = Addresses[k], p = "pending", Links[k] = "none", l = "partial"
      PROVE  Book!Build(k)
  BY <1>2, <1>4 DEF Moved, Book!Build, Phases, Addresses, Links
<1>5. ASSUME p = Phases[k], a = Addresses[k], p = "pending", Links[k] = "partial", l = "complete"
      PROVE  Book!Complete(k)
  BY <1>2, <1>5 DEF Moved, Book!Complete, Phases, Addresses, Links
<1>6. ASSUME Phases[k] = "pending", p = "ready", a = Addresses[k],
             Links[k] = "complete", l = "complete"
      PROVE  Book!Activate(k)
  BY <1>2, <1>6 DEF Moved, Book!Activate, Phases, Addresses, Links
<1>7. ASSUME Phases[k] = "ready", p = "pending", a = Addresses[k], l = Links[k]
      PROVE  Book!Quarantine(k)
  BY <1>2, <1>7 DEF Moved, Book!Quarantine, Phases, Addresses, Links
<1>8. ASSUME p = Phases[k], a = Addresses[k], Links[k] # "none", l = "none"
      PROVE  Book!Remove(k)
  BY <1>2, <1>8 DEF Moved, Book!Remove, Phases, Addresses, Links
<1>9. ASSUME Phases[k] # "none", p = "none", a = NoAddr, Links[k] = "none", l = "none"
      PROVE  Book!Free(k)
  BY <1>2, <1>9 DEF Moved, Book!Free, Phases, Addresses, Links
<1>10. ASSUME p = Phases[k], a = Addresses[k], l = Links[k]
       PROVE  UNCHANGED Book!bookVars
  BY <1>2, <1>10 DEF Moved, Book!bookVars, Phases, Addresses, Links
<1>11. QED
  BY <1>3, <1>4, <1>5, <1>6, <1>7, <1>8, <1>9, <1>10

LEMMA OneEndpoint ==
  ASSUME BookInv, BookInv', NEW k \in Key,
         \A j \in Key \ {k} : /\ Entry(j)' = Entry(j)
                             /\ LinkIn(j, Entry(j)', pair') = LinkIn(j, Entry(j), pair)
  PROVE  Moved(k, PhaseIn(Entry(k)'), AddressIn(Entry(k)'), LinkIn(k, Entry(k)', pair'))
<1>1. Shown /\ Shown'  BY BookShows, BookShowsNext
<1> DEFINE P == PhaseIn(Entry(k)')
           A == AddressIn(Entry(k)')
           L == LinkIn(k, Entry(k)', pair')
<1>2. /\ Phases'[k] = P /\ Addresses'[k] = A /\ Links'[k] = L
      /\ \A j \in Key \ {k} : /\ Phases'[j] = Phases[j] /\ Addresses'[j] = Addresses[j]
                             /\ Links'[j] = Links[j]
  BY <1>1 DEF Shown
<1> HIDE DEF P, A, L
<1>3. /\ Phases = [j \in Key |-> Phases[j]] /\ Addresses = [j \in Key |-> Addresses[j]]
      /\ Links = [j \in Key |-> Links[j]]
      /\ Phases' = [j \in Key |-> Phases'[j]] /\ Addresses' = [j \in Key |-> Addresses'[j]]
      /\ Links' = [j \in Key |-> Links'[j]]
  BY DEF Phases, Addresses, Links
<1>4. Moved(k, P, A, L)
  <2>1. Phases' = [Phases EXCEPT ![k] = P]  BY <1>2, <1>3
  <2>2. Addresses' = [Addresses EXCEPT ![k] = A]  BY <1>2, <1>3
  <2>3. Links' = [Links EXCEPT ![k] = L]  BY <1>2, <1>3
  <2>4. QED  BY <2>1, <2>2, <2>3 DEF Moved
<1>5. QED  BY <1>4 DEF P, A, L

LEMMA NothingMoves ==
  ASSUME BookInv, BookInv',
         \A j \in Key : /\ Entry(j)' = Entry(j)
                        /\ LinkIn(j, Entry(j)', pair') = LinkIn(j, Entry(j), pair)
  PROVE  UNCHANGED Book!bookVars
<1>1. Shown /\ Shown'  BY BookShows, BookShowsNext
<1>2. \A j \in Key : /\ Phases'[j] = Phases[j] /\ Addresses'[j] = Addresses[j]
                     /\ Links'[j] = Links[j]
  BY <1>1 DEF Shown
<1>3. /\ Phases = [j \in Key |-> Phases[j]] /\ Addresses = [j \in Key |-> Addresses[j]]
      /\ Links = [j \in Key |-> Links[j]]
      /\ Phases' = [j \in Key |-> Phases'[j]] /\ Addresses' = [j \in Key |-> Addresses'[j]]
      /\ Links' = [j \in Key |-> Links'[j]]
  BY DEF Phases, Addresses, Links
<1>4. Phases' = Phases /\ Addresses' = Addresses /\ Links' = Links
  <2>1. Phases' = Phases  BY <1>2, <1>3
  <2>2. Addresses' = Addresses  BY <1>2, <1>3
  <2>3. Links' = Links  BY <1>2, <1>3
  <2>4. QED  BY <2>1, <2>2, <2>3
<1>5. QED  BY <1>4 DEF Book!bookVars, Phases, Addresses, Links

LEMMA HereBook ==
  ASSUME BookInv, NEW p \in Proc
  PROVE  /\ LinkInv /\ FileInv /\ CInv /\ BuiltInv /\ OrphanInv
         /\ tx[p] \in Tx /\ Sound(tx[p], mem[p]) /\ mem[p] \in State
         /\ TxAgrees(p) /\ Taken(tx[p], pair)
         /\ Built(tx[p], mem[p], pair) /\ (Unlinked(tx[p]) => NoLinkOf(tx[p].key, pair))
         /\ Attributed(pair) /\ pair \in [Name -> Pair \cup {NoPair}] /\ Sites(pair)
         /\ tx[p].pc # "idle" => tx[p].key \in Key /\ HostName[tx[p].key] \in Name
<1>1. OrphanInv /\ BuiltInv /\ LinkInv  BY DEF BookInv, BuiltInv
<1>2. Unlinked(tx[p]) => NoLinkOf(tx[p].key, pair)  BY <1>1 DEF OrphanInv, NoOrphans
<1>3. FileInv /\ mem[p] \in State  BY <1>1, HereLinks, HereAgrees
<1>4. QED  BY <1>1, <1>2, <1>3, HereLinks, HereBuilt

(* A step that makes, changes or deletes the link of one endpoint.          *)
LEMMA OwnLinkMoves ==
  ASSUME BookInv, BookInv', NEW k \in Key, NEW q, disk' = disk,
         pair' = [pair EXCEPT ![HostName[k]] = q],
         pair[HostName[k]] = NoPair \/ pair[HostName[k]].by = k, q = NoPair \/ q.by = k
  PROVE  /\ Moved(k, PhaseIn(Entry(k)), AddressIn(Entry(k)), LinkIn(k, Entry(k), pair'))
         /\ pair'[HostName[k]] = q
<1> DEFINE h == HostName[k]
<1>1. h \in Name /\ pair \in [Name -> Pair \cup {NoPair}]
  BY CloudnetAssumption DEF BookInv, BuiltInv, LinkInv, KernelTypeOK
<1>2. pair'[h] = q /\ \A g \in Name \ {h} : pair'[g] = pair[g]  BY <1>1
<1>3. \A j \in Key : Entry(j)' = Entry(j)  BY DEF Entry, Loaded
<1>4. ASSUME NEW j \in Key \ {k}
      PROVE  LinkIn(j, Entry(j), pair') = LinkIn(j, Entry(j), pair)
  <2>1. HostName[j] \in Name  BY CloudnetAssumption
  <2>2. CASE HostName[j] # h  BY <1>2, <2>1, <2>2 DEF LinkIn, Linked
  <2>3. CASE HostName[j] = h  BY <1>2, <2>3 DEF LinkIn, Linked
  <2>4. QED  BY <2>2, <2>3
<1>5. QED  BY <1>2, <1>3, <1>4, OneEndpoint

(* What the book says of the endpoint of p. *)
LEMMA BookHas ==
  ASSUME BookInv, NEW k \in Key
  PROVE  /\ Phases[k] = PhaseIn(Entry(k)) /\ Addresses[k] = AddressIn(Entry(k))
         /\ Links[k] = LinkIn(k, Entry(k), pair)
  BY BookShows DEF Shown

LEMMA LinkRemoved ==
  ASSUME BookInv, BookInv', NEW k \in Key, disk' = disk, Linked(k, pair),
         pair' = [pair EXCEPT ![HostName[k]] = NoPair]
  PROVE  Book!BookNext
<1>1. /\ Moved(k, PhaseIn(Entry(k)), AddressIn(Entry(k)), LinkIn(k, Entry(k), pair'))
      /\ pair'[HostName[k]] = NoPair
  BY OwnLinkMoves DEF Linked
<1>2. LinkIn(k, Entry(k), pair') = "none"  BY <1>1 DEF LinkIn, Linked
<1>3. Entry(k) # NoRecord
  <2>1. HostName[k] \in Name /\ k # Admin  BY CloudnetAssumption
  <2>2. HasEndpoint(Loaded(disk), k)
    BY <2>1 DEF Linked, BookInv, OrphanInv, NoOrphans
  <2>3. QED  BY <2>2 DEF HasEndpoint, Entry
<1>4. LinkIn(k, Entry(k), pair) # "none"  BY <1>3 DEF LinkIn, LinkOn
<1>5. Book!Remove(k)  BY <1>1, <1>2, <1>4, BookHas, BookActions
<1>6. QED  BY <1>5 DEF Book!BookNext

Booked == Book!BookNext \/ UNCHANGED Book!bookVars

LEMMA QuietBook ==
  ASSUME BookInv, BookInv', disk' = disk, pair' = pair
  PROVE  Booked
<1>1. \A j \in Key : Entry(j)' = Entry(j)  BY DEF Entry, Loaded
<1>2. QED  BY <1>1, NothingMoves DEF Booked

(* While CreateEndpoint works, the endpoint is pending with the address of  *)
(* the copy.                                                                *)
LEMMA PendingHere ==
  ASSUME BookInv, NEW p \in Proc, tx[p].pc \in Creating
  PROVE  LET k == tx[p].key IN
         /\ k \in Key /\ HostName[k] \in Name /\ Entry(k) \in Record
         /\ Entry(k) # NoRecord /\ Entry(k).phase = "pending"
         /\ Entry(k).ip = mem[p].endpoints[k].ip
<1>1. tx[p].pc # "idle" /\ Quarantined(tx[p])  BY DEF Creating, Quarantined
<1>2. QED  BY <1>1, HereBook, StoreStateAssumption DEF TxAgrees, Agrees, Entry

LEMMA LinkAddBooks ==
  ASSUME BookInv, BookInv', NEW p \in Proc, LinkAdd(p)
  PROVE  Booked
<1> DEFINE k == tx[p].key
           h == HostName[k]
           q == NewPairOf(k)
<1>1. CInv /\ AfterClose(pair) = pair  BY HereBook, ClosesNothing
<1>2. disk' = disk /\ tx[p].pc = "link-add"
  BY <1>1, LinkAddOutcome DEF storeVars
<1>3. tx[p].pc \in Creating  BY <1>2 DEF Creating
<1>4. /\ k \in Key /\ HostName[k] \in Name /\ Entry(k) # NoRecord
      /\ Entry(k).phase = "pending"
  BY <1>3, PendingHere
<1>5. pair' = pair \/ (pair[h] = NoPair /\ pair' = [pair EXCEPT ![h] = q])
  BY <1>1 DEF LinkAdd, Host, Key_, NewPairOf
<1>6. CASE pair' = pair  BY <1>2, <1>6, QuietBook
<1>7. CASE pair[h] = NoPair /\ pair' = [pair EXCEPT ![h] = q]
  <2>1. q.by = k /\ q.alias = NoKey /\ q \in Pair  BY <1>4, NewPair DEF NewPairOf
  <2>2. q # NoPair /\ NoKey # k  BY <1>4, <2>1, CloudnetAssumption, StoreStateAssumption
  <2> HIDE DEF q
  <2>3. /\ Moved(k, PhaseIn(Entry(k)), AddressIn(Entry(k)), LinkIn(k, Entry(k), pair'))
        /\ pair'[h] = q
    BY <1>2, <1>4, <1>7, <2>1, OwnLinkMoves
  <2>4. LinkIn(k, Entry(k), pair') = "partial"
    BY <1>4, <2>1, <2>2, <2>3 DEF LinkIn, Linked, LinkOn
  <2>5. LinkIn(k, Entry(k), pair) = "none"  BY <1>7 DEF LinkIn, Linked
  <2>6. PhaseIn(Entry(k)) = "pending"  BY <1>4 DEF PhaseIn
  <2>7. Book!Build(k)  BY <1>4, <2>3, <2>4, <2>5, <2>6, BookHas, BookActions
  <2>8. QED  BY <1>4, <2>7 DEF Booked, Book!BookNext
<1>8. QED  BY <1>5, <1>6, <1>7

(* The set-up: the link becomes complete with its default route, the last   *)
(* thing that is added.                                                     *)
LEMMA SetUpBooks ==
  ASSUME BookInv, BookInv', NEW p \in Proc,
         AliasHost(p) \/ AliasPeer(p) \/ MovePeer(p) \/ ConfigureAddress(p) \/ AddRoute(p)
  PROVE  Booked
<1> DEFINE r == tx[p]
           k == r.key
           h == HostName[k]
           l == pair[h]
           a == mem[p].endpoints[k].ip
<1>1. CInv /\ Built(r, mem[p], pair) /\ pair \in [Name -> Pair \cup {NoPair}]  BY HereBook
<1>2. disk' = disk /\ r.pc \in Creating  BY <1>1, CreateShape DEF storeVars
<1>3. /\ k \in Key /\ h \in Name /\ Entry(k) # NoRecord /\ Entry(k).phase = "pending"
      /\ Entry(k).ip = a
  BY <1>2, PendingHere
<1>4. PhaseIn(Entry(k)) = "pending"  BY <1>3 DEF PhaseIn
<1>5. ASSUME NEW q \in Pair, l # NoPair, l.by = k, l.routed = FALSE, q.by = k,
             pair' = [pair EXCEPT ![h] = q],
             \/ q.routed = FALSE
             \/ q.alias = k /\ q.peerAlias = k /\ q.addr = a /\ q.routed = TRUE
      PROVE  Booked
  <2>1. /\ Moved(k, PhaseIn(Entry(k)), AddressIn(Entry(k)), LinkIn(k, Entry(k), pair'))
        /\ pair'[h] = q
    BY <1>2, <1>3, <1>5, OwnLinkMoves
  <2>2. LinkIn(k, Entry(k), pair) = "partial"
    BY <1>3, <1>5 DEF LinkIn, Linked, LinkOn
  <2>3. q # NoPair  BY CloudnetAssumption
  <2>4. CASE q.routed = FALSE
    <3>1. LinkIn(k, Entry(k), pair') = "partial"
      BY <1>3, <1>5, <2>1, <2>3, <2>4 DEF LinkIn, Linked, LinkOn
    <3>2. UNCHANGED Book!bookVars  BY <1>3, <2>1, <2>2, <3>1, BookHas, BookActions
    <3>3. QED  BY <3>2 DEF Booked
  <2>5. CASE q.alias = k /\ q.peerAlias = k /\ q.addr = a /\ q.routed = TRUE
    <3>1. LinkIn(k, Entry(k), pair') = "complete"
      BY <1>3, <1>5, <2>1, <2>3, <2>5 DEF LinkIn, Linked, LinkOn
    <3>2. Book!Complete(k)  BY <1>3, <1>4, <2>1, <2>2, <3>1, BookHas, BookActions
    <3>3. QED  BY <1>3, <3>2 DEF Booked, Book!BookNext
  <2>6. QED  BY <1>5, <2>4, <2>5
<1>6. CASE pair' = pair  BY <1>2, <1>6, QuietBook
<1>7. ASSUME l # NoPair PROVE l \in Pair  BY <1>1, <1>3, <1>7
<1>8. CASE AliasHost(p)
  <2> DEFINE q == [l EXCEPT !.alias = k]
  <2>1. /\ r.pc = "alias-host"
        /\ pair' = pair \/ (l # NoPair /\ l.by = k /\ pair' = [pair EXCEPT ![h] = q])
    BY <1>1, <1>8, AliasHostOutcome
  <2>2. CASE l # NoPair /\ l.by = k /\ pair' = [pair EXCEPT ![h] = q]
    <3>1. l.routed = FALSE
      BY <1>1, <2>1 DEF Built, Creating, Complete, Succeeding
    <3>2. q \in Pair /\ q.by = k /\ q.routed = FALSE
      BY <1>3, <1>7, <2>2, <3>1, PairChanges DEF Pair
    <3> HIDE DEF q
    <3>3. QED  BY <1>5, <2>2, <3>1, <3>2
  <2>3. QED  BY <1>6, <2>1, <2>2
<1>9. CASE AliasPeer(p) \/ MovePeer(p) \/ ConfigureAddress(p) \/ AddRoute(p)
  <2> DEFINE peer == [l EXCEPT !.peerAlias = k]
             moved == [l EXCEPT !.at = r.fd]
             named == [l EXCEPT !.addr = a]
             routed == [l EXCEPT !.routed = TRUE]
  <2>1. /\ r.pc \in {"alias-peer", "move-peer", "configure", "add-route"}
        /\ \/ pair' = pair
           \/ /\ l # NoPair /\ l.by = k
              /\ \/ r.pc = "alias-peer" /\ pair' = [pair EXCEPT ![h] = peer]
                 \/ r.pc = "move-peer" /\ pair' = [pair EXCEPT ![h] = moved]
                 \/ r.pc = "configure" /\ pair' = [pair EXCEPT ![h] = named]
                 \/ r.pc = "add-route" /\ pair' = [pair EXCEPT ![h] = routed]
    BY <1>1, <1>9, SetUpOutcome
  <2>2. l.routed = FALSE /\ l # NoPair /\ l.by = k /\ l.alias = k
    BY <1>1, <2>1 DEF Built, Creating, Complete, Succeeding
  <2>3. r.pc = "add-route" => l.peerAlias = k /\ l.addr = a
    BY <1>1 DEF Built
  <2>4. l \in Pair /\ Sound(r, mem[p])  BY <1>7, <2>2, HereBook
  <2>5. a \in Addr /\ r.fd \in NetNS \cup {Limbo}
    BY <1>2, <2>4 DEF Sound, Holding, Record
  <2> HIDE DEF a
  <2>6. peer \in Pair /\ peer.by = k /\ peer.routed = FALSE
    BY <1>3, <2>2, <2>4, PairChanges DEF Pair
  <2>7. moved \in Pair /\ moved.by = k /\ moved.routed = FALSE
    BY <2>2, <2>4, <2>5, PairChanges DEF Pair
  <2>8. named \in Pair /\ named.by = k /\ named.routed = FALSE
    BY <2>2, <2>4, <2>5, PairChanges DEF Pair
  <2>9. /\ routed \in Pair /\ routed.by = k /\ routed.routed = TRUE /\ routed.alias = k
        /\ routed.peerAlias = l.peerAlias /\ routed.addr = l.addr
    BY <2>2, <2>4, PairChanges DEF Pair
  <2> HIDE DEF peer, moved, named, routed
  <2>10. QED  BY <1>5, <1>6, <2>1, <2>2, <2>3, <2>6, <2>7, <2>8, <2>9
<1>10. QED  BY <1>8, <1>9

(* The deletions: the pair an invocation deletes is the one of its endpoint. *)
LEMMA RemovalBooks ==
  ASSUME BookInv, BookInv', NEW p \in Proc,
         \/ VerifyHost(p) \/ UndoCreate(p)
         \/ FindHost(p) \/ LinkDel(p) \/ StatPeer(p) \/ FindPeer(p)
  PROVE  Booked
<1> DEFINE r == tx[p]
           k == r.key
           h == HostName[k]
           cut == [pair EXCEPT ![h] = NoPair]
<1>1. /\ CInv /\ pair \in [Name -> Pair \cup {NoPair}] /\ Sites(pair) /\ Attributed(pair)
      /\ Taken(r, pair) /\ AfterClose(pair) = pair
  BY HereBook, ClosesNothing
<1>2. CASE pair' = pair /\ disk' = disk  BY <1>2, QuietBook
<1>3. ASSUME Linked(k, pair), k \in Key, disk' = disk, pair' = cut PROVE Booked
  BY <1>3, LinkRemoved DEF Booked
<1>4. CASE VerifyHost(p)
  <2>1. UNCHANGED storeVars /\ pair' = pair  BY <1>1, <1>4, VerifyOutcome
  <2>2. QED  BY <1>2, <2>1 DEF storeVars
<1>5. CASE UndoCreate(p)
  <2>1. /\ UNCHANGED storeVars /\ r.pc \in {"undo-create", "undo-by-name"}
        /\ \/ pair' = pair
           \/ /\ pair[h] # NoPair /\ (r.pc = "undo-create" => pair[h].by = k)
              /\ pair' = AfterClose(cut)
    BY <1>1, <1>5, UndoOutcome
  <2>2. k \in Key /\ h \in Name /\ disk' = disk  BY <2>1, HereBook DEF storeVars
  <2>3. CASE pair[h] # NoPair /\ pair' = AfterClose(cut)
    <3>1. r.pc \in Creating \ {"link-add"}  BY <2>1 DEF Creating
    <3>2. pair[h].by = k  BY <1>1, <2>2, <2>3, <3>1 DEF Taken, Sites
    <3>3. cut \in [Name -> Pair \cup {NoPair}] /\ Sites(cut)  BY <1>1, <2>2, SitesKept
    <3> HIDE DEF cut
    <3>4. pair' = cut  BY <2>3, <3>3, ClosesNothing
    <3>5. QED  BY <1>3, <2>2, <2>3, <3>2, <3>4 DEF Linked
  <2>4. QED  BY <1>2, <2>1, <2>2, <2>3
<1>6. CASE FindHost(p) \/ LinkDel(p) \/ StatPeer(p) \/ FindPeer(p)
  <2>1. /\ UNCHANGED storeVars /\ r.pc \in Deleting
        /\ pair' = pair \/ (Owned(h, k) /\ pair' = cut)
    BY <1>1, <1>6, DeleteOutcome
  <2>2. k \in Key /\ h \in Name /\ disk' = disk  BY <2>1, HereBook DEF storeVars, Deleting
  <2>3. CASE Owned(h, k) /\ pair' = cut
    <3>1. pair[h] # NoPair /\ pair[h].alias = k  BY <2>3 DEF Owned
    <3>2. pair[h].by = k  BY <1>1, <2>2, <3>1, StoreStateAssumption DEF Attributed
    <3>3. QED  BY <1>3, <2>2, <2>3, <3>1, <3>2 DEF Linked
  <2>4. QED  BY <1>2, <2>1, <2>2, <2>3
<1>7. QED  BY <1>4, <1>5, <1>6

(* The commits: what becomes of the record of the endpoint.                 *)
LEMMA CommitBooks ==
  ASSUME BookInv, BookInv', NEW p \in Proc, Committing(p), Loaded(disk)' = mem[p]
  PROVE  Booked
<1> DEFINE r == tx[p]
           k == r.key
           old == Entry(k)
           new == mem[p].endpoints[k]
<1>1. /\ CInv /\ LinkInv /\ TxAgrees(p) /\ Sound(r, mem[p]) /\ Taken(r, pair)
      /\ Built(r, mem[p], pair) /\ (Unlinked(r) => NoLinkOf(k, pair)) /\ mem[p] \in State
  BY HereBook
<1>2. r.pc \in {"finish", "persist-pending", "persist-reconcile", "persist-ready",
                "persist-release"}
  BY <1>1, PersistOutcome DEF Committing
<1>3. pair' = pair  BY <1>1, PersistOutcome DEF Committing, kernelVars
<1>4. k \in Key /\ HostName[k] \in Name  BY <1>2, HereBook
<1>5. InCallback(r) /\ active[p]  BY <1>2, HereBook, HereAgrees DEF InCallback
<1>6. \A j \in Key \ {k} : mem[p].endpoints[j] = Entry(j)
  BY <1>1, <1>5 DEF TxAgrees, Agrees, Entry
<1>7. \A j \in Key : Entry(j)' = mem[p].endpoints[j]  BY DEF Entry
<1>8. Moved(k, PhaseIn(new), AddressIn(new), LinkIn(k, new, pair))
  <2>1. \A j \in Key \ {k} : /\ Entry(j)' = Entry(j)
                             /\ LinkIn(j, Entry(j)', pair') = LinkIn(j, Entry(j), pair)
    BY <1>3, <1>6, <1>7
  <2>2. QED  BY <1>3, <1>4, <1>7, <2>1, OneEndpoint
<1>9. /\ Phases[k] = PhaseIn(old) /\ Addresses[k] = AddressIn(old)
      /\ Links[k] = LinkIn(k, old, pair)
  BY <1>4, BookHas
<1>10. CASE new = old
  <2>1. UNCHANGED Book!bookVars  BY <1>4, <1>8, <1>9, <1>10, BookActions
  <2>2. QED  BY <2>1 DEF Booked
<1>11. NoLinkOf(k, pair) => ~Linked(k, pair)  BY <1>4 DEF NoLinkOf, Linked
<1>12. ASSUME new = NoRecord, NoLinkOf(k, pair) PROVE Booked
  <2>1. LinkIn(k, old, pair) = "none" /\ LinkIn(k, new, pair) = "none"
    BY <1>11, <1>12 DEF LinkIn
  <2>2. PhaseIn(new) = "none" /\ AddressIn(new) = NoAddr  BY <1>12 DEF PhaseIn, AddressIn
  <2>3. CASE PhaseIn(old) # "none"
    <3>1. Book!Free(k)  BY <1>4, <1>8, <1>9, <2>1, <2>2, <2>3, BookActions
    <3>2. QED  BY <1>4, <3>1 DEF Booked, Book!BookNext
  <2>4. CASE PhaseIn(old) = "none"
    <3>1. old = NoRecord
      <4>1. Loaded(disk) \in State
        BY <1>1, EmptyAgrees DEF CInv, IInv, StoreTypeOK, Loaded, BookInv
      <4>2. old \in Record \cup {NoRecord}  BY <1>4, <4>1 DEF Entry, State
      <4>3. QED  BY <2>4, <4>2 DEF PhaseIn, Record, Phase
    <3>2. QED  BY <1>10, <1>12, <3>1
  <2>5. QED  BY <2>3, <2>4
<1>13. ASSUME new \in Record, old \in Record, new.ip = old.ip
       PROVE  /\ AddressIn(new) = AddressIn(old) /\ LinkIn(k, new, pair) = LinkIn(k, old, pair)
              /\ PhaseIn(new) = new.phase /\ PhaseIn(old) = old.phase
  BY <1>13, StoreStateAssumption DEF AddressIn, LinkIn, PhaseIn
<1>14. CASE r.pc = "persist-pending"
  <2>1. old = NoRecord  BY <1>1, <1>14 DEF TxAgrees, Agrees, Entry
  <2>2. new \in Record /\ new.phase = "pending"  BY <1>1, <1>14 DEF Sound, Holding
  <2>3. NoLinkOf(k, pair)  BY <1>1, <1>14 DEF Unlinked
  <2>4. new # NoRecord /\ new.ip \in Addr  BY <2>2, StoreStateAssumption DEF Record
  <2>5. UniqueAddresses(mem[p])
    BY <1>1, AgreementIsUnique DEF CInv, IInv, CopiesAgree
  <2>6. ASSUME NEW j \in Key PROVE Addresses[j] # new.ip
    <3>1. Addresses[j] = AddressIn(Entry(j))  BY BookHas
    <3>2. CASE Entry(j) = NoRecord
      BY <2>4, <3>1, <3>2, CloudnetAssumption DEF AddressIn
    <3>3. CASE Entry(j) # NoRecord
      <4>1. j # k /\ mem[p].endpoints[j] = Entry(j)  BY <1>6, <2>1, <3>3
      <4>2. Entry(j).ip # new.ip
        BY <1>4, <2>4, <2>5, <3>3, <4>1 DEF UniqueAddresses, HasEndpoint
      <4>3. QED  BY <3>1, <3>3, <4>2 DEF AddressIn
    <3>4. QED  BY <3>2, <3>3
  <2>7. /\ PhaseIn(old) = "none" /\ LinkIn(k, old, pair) = "none"
        /\ PhaseIn(new) = "pending" /\ AddressIn(new) = new.ip /\ LinkIn(k, new, pair) = "none"
    BY <1>11, <2>1, <2>2, <2>3, <2>4 DEF PhaseIn, LinkIn, AddressIn
  <2>8. Book!Assign(k, new.ip)  BY <1>4, <1>8, <1>9, <2>4, <2>6, <2>7, BookActions
  <2>9. QED  BY <1>4, <2>4, <2>8 DEF Booked, Book!BookNext
<1>15. CASE r.pc = "persist-reconcile"
  <2>1. Reusing(r) /\ ~Quarantined(r)
    BY <1>15 DEF Reusing, Quarantined, Creating, Recovering, Deleting
  <2>2. /\ new \in Record /\ old \in Record /\ new.ip = old.ip
        /\ old.phase = "ready" /\ new.phase = "pending"
    BY <1>1, <1>15, <2>1 DEF TxAgrees, Agrees, Entry
  <2>3. Book!Quarantine(k)  BY <1>4, <1>8, <1>9, <1>13, <2>2, BookActions
  <2>4. QED  BY <1>4, <2>3 DEF Booked, Book!BookNext
<1>16. CASE r.pc = "persist-ready"
  <2>1. Quarantined(r) /\ Complete(r)  BY <1>16 DEF Quarantined, Complete
  <2>2. /\ new \in Record /\ old \in Record /\ new.ip = old.ip
        /\ old.phase = "pending" /\ new.phase = "ready"
    BY <1>1, <1>16, <2>1 DEF TxAgrees, Agrees, Entry
  <2>3. LinkIn(k, new, pair) = "complete"
    BY <1>1, <2>1, <2>2, StoreStateAssumption DEF Built, LinkIn, Linked, LinkOn
  <2>4. Book!Activate(k)  BY <1>4, <1>8, <1>9, <1>13, <2>2, <2>3, BookActions
  <2>5. QED  BY <1>4, <2>4 DEF Booked, Book!BookNext
<1>17. CASE r.pc = "persist-release"
  <2>1. new = NoRecord  BY <1>1, <1>17 DEF TxAgrees, Agrees
  <2>2. NoLinkOf(k, pair)  BY <1>1, <1>17 DEF Unlinked
  <2>3. QED  BY <1>12, <2>1, <2>2
<1>18. CASE r.pc = "finish"
  <2>1. r.op \in {"ADD", "CHECK", "DEL"}
    BY <1>1, <1>18, CloudnetAssumption DEF Sound
  <2>2. CASE r.op = "ADD"
    <3>1. Succeeding(r, "ADD") /\ ~Quarantined(r)
      BY <1>18, <2>2 DEF Succeeding, Quarantined, Creating, Recovering, Deleting
    <3>2. /\ new \in Record /\ old \in Record /\ new.ip = old.ip /\ new.phase = old.phase
      BY <1>1, <1>18, <3>1 DEF TxAgrees, Agrees, Entry
    <3>3. UNCHANGED Book!bookVars  BY <1>4, <1>8, <1>9, <1>13, <3>2, BookActions
    <3>4. QED  BY <3>3 DEF Booked
  <2>3. CASE r.op = "CHECK"
    <3>1. mem[p] = Loaded(disk)
      BY <1>1, <1>5, <1>18, <2>3, HereBook, HereAgrees DEF TxAgrees, Agrees
    <3>2. QED  BY <1>10, <3>1 DEF Entry
  <2>4. CASE r.op = "DEL"
    <3>1. Succeeding(r, "DEL")  BY <1>18, <2>4 DEF Succeeding
    <3>2. new = NoRecord /\ NoLinkOf(k, pair)
      BY <1>1, <3>1 DEF TxAgrees, Agrees, Taken
    <3>3. QED  BY <1>12, <3>2
  <2>5. QED  BY <2>1, <2>2, <2>3, <2>4
<1>19. QED  BY <1>2, <1>14, <1>15, <1>16, <1>17, <1>18

(* The surroundings do no more to the file than to remove it, unless they   *)
(* damage it.                                                               *)
LEMMA FileOutside ==
  ASSUME "damage" \notin Faults, Environment
  PROVE  disk' = disk \/ disk' = Absent
<1>1. UNCHANGED storeVars => disk' = disk  BY DEF storeVars
<1>2. ~StateDamaged  BY DEF StateDamaged, Fault
<1>3. StateLost => disk' = Absent  BY DEF StateLost, LoseState
<1>4. ASSUME NEW n \in NetNS, NamespaceGone(n) \/ NamespaceMade(n) PROVE disk' = disk
  BY <1>1, <1>4 DEF NamespaceGone, NamespaceMade
<1>5. ASSUME NEW h \in Name, Drift(h) \/ AdminAdds(h) \/ AdminDeletes(h) \/ HostRenamed(h)
      PROVE  disk' = disk
  BY <1>1, <1>5 DEF Drift, AdminAdds, AdminDeletes, HostRenamed
<1>6. ASSUME NEW n \in NetNS, NEW i \in Iface, ForeignInterface(n, i) PROVE disk' = disk
  BY <1>1, <1>6 DEF ForeignInterface
<1>7. QED  BY <1>2, <1>3, <1>4, <1>5, <1>6 DEF Environment

(* Only somebody else damages the file. *)
LEMMA Readable ==
  ASSUME "damage" \notin Faults
  PROVE  Spec => [](disk # Corrupt)
<1>1. Init => disk # Corrupt
  BY PluginInit, StoreAssumption DEF StoreInit
<1>2. ASSUME LinkInv, disk # Corrupt, [Next]_vars PROVE disk' # Corrupt
  <2>1. FileInv  BY <1>2 DEF LinkInv
  <2>2. ASSUME NEW p \in Proc, Invoke(p) \/ Lock(p) \/ Run(p) \/ Crash(p)
        PROVE  disk' # Corrupt
    <3>1. disk' = disk \/ disk' = mem[p]  BY <1>2, <2>2, OnlyCommits
    <3>2. mem[p] \in State  BY <2>1, HereAgrees
    <3>3. QED  BY <1>2, <3>1, <3>2, StoreAssumption
  <2>3. CASE Environment
    <3>1. disk' = disk \/ disk' = Absent  BY <2>3, FileOutside
    <3>2. QED  BY <1>2, <3>1, StoreAssumption
  <2>4. CASE UNCHANGED vars  BY <1>2, <2>4 DEF vars
  <2>5. QED  BY <1>2, <2>2, <2>3, <2>4 DEF Next
<1>3. LinkInv /\ disk # Corrupt /\ [Next]_vars => (disk # Corrupt)'  BY <1>2
<1>4. QED  BY <1>1, <1>3, LinkInvariant, PTL DEF Spec

(* Every step of an invocation is a step of the book, or none.              *)
LEMMA SelfBooks ==
  ASSUME BookInv, BookInv', NEW p \in Proc, Invoke(p) \/ Lock(p) \/ Run(p) \/ Crash(p)
  PROVE  Booked
<1>1. /\ LinkInv /\ CInv /\ AfterClose(pair) = pair  BY HereBook, ClosesNothing
<1>2. \/ disk' = disk
      \/ Committing(p) /\ disk' = mem[p] /\ Loaded(disk)' = mem[p] /\ active[p]
  BY <1>1, OnlyCommits
<1>3. CASE LinkAdd(p)  BY <1>3, LinkAddBooks
<1>4. CASE AliasHost(p) \/ AliasPeer(p) \/ MovePeer(p) \/ ConfigureAddress(p) \/ AddRoute(p)
  BY <1>4, SetUpBooks
<1>5. CASE \/ VerifyHost(p) \/ UndoCreate(p)
           \/ FindHost(p) \/ LinkDel(p) \/ StatPeer(p) \/ FindPeer(p)
  BY <1>5, RemovalBooks
<1>6. CASE Committing(p)
  <2>1. pair' = pair  BY <1>1, <1>6, OtherLinks DEF Committing
  <2>2. QED  BY <1>2, <1>6, <2>1, QuietBook, CommitBooks
<1>7. CASE \/ Invoke(p) \/ Lock(p) \/ Load(p) \/ LoadFails(p) \/ Return(p) \/ Crash(p)
           \/ AddAllocate(p) \/ AddAllocateFails(p) \/ AddEnsureBridge(p)
           \/ IdempotencyCheck(p) \/ ReconcilePending(p) \/ Preflight(p) \/ AddMarkReady(p)
           \/ RollbackDelete(p) \/ RollbackRelease(p) \/ RollbackEnds(p)
           \/ DelRelease(p) \/ Check(p)
  <2>1. pair' = pair  BY <1>1, <1>7, OtherLinks
  <2>2. CASE Committing(p)  BY <1>6, <2>2
  <2>3. CASE ~Committing(p)  BY <1>2, <2>1, <2>3, QuietBook
  <2>4. QED  BY <2>2, <2>3
<1>8. QED
  BY <1>3, <1>4, <1>5, <1>6, <1>7 DEF Run, AddNext, DeleteNext, Committing

(* What may be left of the surroundings concerns nobody of this plugin.     *)
LEMMA SurroundingsBook ==
  ASSUME Undisturbed, "rename" \notin Faults, "lose" \notin Faults, "damage" \notin Faults,
         BookInv, Environment
  PROVE  disk' = disk /\ pair' = pair
<1>1. \A n \in NetNS : nsUp[n]  BY HereBuilt DEF BookInv
<1>2. "netns" \notin Faults /\ "drift" \notin Faults /\ "admin" \notin Faults
  BY DEF Undisturbed
<1>3. ASSUME NEW n \in NetNS PROVE ~NamespaceGone(n) /\ ~NamespaceMade(n)
  BY <1>1, <1>2 DEF NamespaceGone, NamespaceMade, Fault
<1>4. ASSUME NEW h \in Name
      PROVE  ~Drift(h) /\ ~AdminAdds(h) /\ ~AdminDeletes(h) /\ ~HostRenamed(h)
  BY <1>2 DEF Drift, AdminAdds, AdminDeletes, HostRenamed, Fault
<1>5. ~StateLost /\ ~StateDamaged  BY DEF StateLost, StateDamaged, Fault
<1>6. ASSUME NEW n \in NetNS, NEW i \in Iface, ForeignInterface(n, i)
      PROVE  disk' = disk /\ pair' = pair
  BY <1>6 DEF ForeignInterface, storeVars
<1>7. QED  BY <1>3, <1>4, <1>5, <1>6 DEF Environment

LEMMA BookStep ==
  ASSUME Undisturbed, "rename" \notin Faults, "lose" \notin Faults, "damage" \notin Faults
  PROVE  BookInv /\ BookInv' /\ [Next]_vars => [Book!BookNext]_(Book!bookVars)
<1> SUFFICES ASSUME BookInv, BookInv', [Next]_vars PROVE Booked  BY DEF Booked
<1>1. ASSUME NEW p \in Proc, Invoke(p) \/ Lock(p) \/ Run(p) \/ Crash(p) PROVE Booked
  BY <1>1, SelfBooks
<1>2. CASE Environment  BY <1>2, SurroundingsBook, QuietBook
<1>3. CASE UNCHANGED vars
  <2>1. disk' = disk /\ pair' = pair  BY <1>3 DEF vars
  <2>2. QED  BY <2>1, QuietBook
<1>4. QED  BY <1>1, <1>2, <1>3 DEF Next

LEMMA BookBegins == Init => Book!BookInit
<1> SUFFICES ASSUME Init PROVE Book!BookInit  OBVIOUS
<1>1. disk = Absent /\ stray = {} /\ \A h \in Name : pair[h] = NoPair
  BY PluginInit DEF Init, StoreInit
<1>2. ASSUME NEW k \in Key PROVE ~Recorded(k) /\ LinkState(k) = "none"
  <2>1. LinksOf(k) = {}  BY <1>1 DEF LinksOf, Pairs
  <2>2. QED  BY <1>1, <2>1 DEF Recorded, LinkState
<1>3. QED  BY <1>2 DEF Book!BookInit

LEMMA BookInvariants ==
  ASSUME Undisturbed, "rename" \notin Faults, "lose" \notin Faults, "damage" \notin Faults
  PROVE  Spec => []BookInv
<1>1. Spec => []OrphanInv  BY OrphanInvariant
<1>2. Spec => []BuiltInv  BY BuiltInvariant
<1>3. Spec => [](stray = {})  BY NoneStray
<1>4. Spec => [](disk # Corrupt)  BY Readable
<1>5. OrphanInv /\ BuiltInv /\ stray = {} /\ disk # Corrupt => BookInv  BY DEF BookInv
<1>6. QED  BY <1>1, <1>2, <1>3, <1>4, <1>5, PTL

(* The plugin keeps the address book: whatever fails in an invocation and   *)
(* wherever it dies, in whatever order the invocations of all containers    *)
(* come, an address is recorded before its link is made, becomes ready only *)
(* with the link complete, and is free again only when the link is gone.    *)
(* The hypothesis says who else may touch file, links and namespaces:       *)
(* nobody. Each of these faults takes away a link or a record behind the    *)
(* plugin's back, which no order of its own steps can make good             *)
(* (service.go:84-261, 384-417, internal/endpoint/state.go).                *)
THEOREM PluginKeepsBook ==
  ASSUME {"netns", "drift", "admin", "rename", "lose", "damage"} \cap Faults = {}
  PROVE  Spec => ImplementsAddressBook
<1>1. /\ Undisturbed /\ "rename" \notin Faults /\ "lose" \notin Faults
      /\ "damage" \notin Faults
  BY DEF Undisturbed
<1>2. Spec => []BookInv  BY <1>1, BookInvariants
<1>3. BookInv /\ BookInv' /\ [Next]_vars => [Book!BookNext]_(Book!bookVars)
  BY <1>1, BookStep
<1>4. QED
  BY <1>2, <1>3, BookBegins, PTL DEF Spec, ImplementsAddressBook, Book!BookSpec

(* What the book promises of itself, read off file and links.               *)
LEMMA BookConsistent == BookInv => Book!BookInvariant
<1> SUFFICES ASSUME BookInv PROVE Book!BookInvariant  OBVIOUS
<1>1. Shown  BY BookShows
<1>2. Loaded(disk) \in State /\ UniqueAddresses(Loaded(disk))
  <2>1. CInv  BY DEF BookInv, BuiltInv, LinkInv, FileInv
  <2>2. MapsAgree(Loaded(disk)) /\ Loaded(disk) \in State
    BY <2>1, LoadedAgrees DEF CInv, BookInv
  <2>3. QED  BY <2>2, AgreementIsUnique
<1>3. ASSUME NEW k \in Key
      PROVE  /\ Phases[k] \in {"none", "pending", "ready"}
             /\ Addresses[k] \in Addr \cup {NoAddr}
             /\ Links[k] \in {"none", "partial", "complete"}
             /\ Phases[k] = "none" <=> Addresses[k] = NoAddr
             /\ Links[k] # "none" => Phases[k] # "none"
             /\ Addresses[k] # NoAddr
                  => HasEndpoint(Loaded(disk), k)
                     /\ Addresses[k] = Loaded(disk).endpoints[k].ip
  <2>1. /\ Phases[k] = PhaseIn(Entry(k)) /\ Addresses[k] = AddressIn(Entry(k))
        /\ Links[k] = LinkIn(k, Entry(k), pair)
    BY <1>1 DEF Shown
  <2>2. Entry(k) \in Record \cup {NoRecord}  BY <1>2 DEF Entry, State
  <2>3. CASE Entry(k) = NoRecord
    BY <2>1, <2>3 DEF PhaseIn, AddressIn, LinkIn
  <2>4. CASE Entry(k) # NoRecord
    <3>1. Entry(k).ip \in Addr /\ Entry(k).phase \in {"pending", "ready"}
      BY <2>2, <2>4 DEF Record, Phase
    <3>2. NoAddr \notin Addr  BY CloudnetAssumption
    <3>3. LinkIn(k, Entry(k), pair) \in {"none", "partial", "complete"}
      BY DEF LinkIn, LinkOn
    <3>4. HasEndpoint(Loaded(disk), k) /\ Entry(k).ip = Loaded(disk).endpoints[k].ip
      BY <2>4 DEF HasEndpoint, Entry
    <3>5. QED  BY <2>1, <2>4, <3>1, <3>2, <3>3, <3>4 DEF PhaseIn, AddressIn
  <2>5. QED  BY <2>3, <2>4
<1>4. ASSUME NEW j \in Key, NEW k \in Key, Addresses[j] = Addresses[k],
             Addresses[j] # NoAddr
      PROVE  j = k
  BY <1>2, <1>3, <1>4 DEF UniqueAddresses
<1>5. /\ Phases \in [Key -> {"none", "pending", "ready"}]
      /\ Addresses \in [Key -> Addr \cup {NoAddr}]
      /\ Links \in [Key -> {"none", "partial", "complete"}]
  <2>1. /\ Phases = [k \in Key |-> Phases[k]] /\ Addresses = [k \in Key |-> Addresses[k]]
        /\ Links = [k \in Key |-> Links[k]]
    BY DEF Phases, Addresses, Links
  <2>2. Phases \in [Key -> {"none", "pending", "ready"}]  BY <1>3, <2>1
  <2>3. Addresses \in [Key -> Addr \cup {NoAddr}]  BY <1>3, <2>1
  <2>4. Links \in [Key -> {"none", "partial", "complete"}]  BY <1>3, <2>1
  <2>5. QED  BY <2>2, <2>3, <2>4
<1> DEFINE Consistent(ph, ad, li) ==
             /\ ph \in [Key -> {"none", "pending", "ready"}]
             /\ ad \in [Key -> Addr \cup {NoAddr}]
             /\ li \in [Key -> {"none", "partial", "complete"}]
             /\ \A k \in Key : ph[k] = "none" <=> ad[k] = NoAddr
             /\ \A k \in Key : li[k] # "none" => ph[k] # "none"
             /\ \A j, k \in Key : ad[j] = ad[k] /\ ad[j] # NoAddr => j = k
<1>6. Consistent(Phases, Addresses, Links)  BY <1>3, <1>4, <1>5
<1>7. QED  BY <1>6 DEF Book!BookInvariant, Phases, Addresses, Links

(* At every moment, also in the middle of a transaction and after a crash,  *)
(* no address is recorded for two endpoints, and a link exists only for an  *)
(* endpoint with a record: what the book promises, read off file and links  *)
(* (service.go:164-261, 404-417).                                           *)
THEOREM BookAlwaysConsistent ==
  ASSUME {"netns", "drift", "admin", "rename", "lose", "damage"} \cap Faults = {}
  PROVE  Spec => []Book!BookInvariant
<1>1. /\ Undisturbed /\ "rename" \notin Faults /\ "lose" \notin Faults
      /\ "damage" \notin Faults
  BY DEF Undisturbed
<1>2. Spec => []BookInv  BY <1>1, BookInvariants
<1>3. QED  BY <1>2, BookConsistent, PTL
=============================================================================
