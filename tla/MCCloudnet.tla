----------------------------- MODULE MCCloudnet -----------------------------
(* Two endpoints and two addresses. With NameOwn each endpoint has a host  *)
(* interface name of its own; with NameShared the truncated hashes of the  *)
(* two collide. The endpoints are two interfaces with names of their own,  *)
(* so they may meet in one namespace.                                      *)
EXTENDS Cloudnet

CONSTANTS p1, p2, k1, k2, n1, n2, c1, h1, h2

MCProcs == {p1, p2}
MCKey == {k1, k2}
MCNetNS == {n1, n2}
MCConfig == {c1}
MCPool == [c \in MCConfig |-> Addr]

MCNames == {h1, h2}
NameOwn == [k \in Key |-> IF k = k1 THEN h1 ELSE h2]
NameShared == [k \in Key |-> h1]
IfOwn == [k \in Key |-> IF k = k1 THEN "eth0" ELSE "eth1"]

Symmetry == Permutations(MCNetNS)

AllPoints ==
  {"load", "allocate", "persist-pending", "ensure-bridge", "idempotency-check",
   "reconcile-pending", "persist-reconcile", "create-veth", "link-add", "alias-host",
   "alias-peer", "move-peer", "configure", "add-route", "verify-host", "undo-create",
   "undo-by-name", "mark-ready", "persist-ready", "rollback", "persist-release",
   "find-host", "link-del", "stat-peer", "find-peer", "release", "finish", "check",
   "unlock"}

(* All but the moment after LinkAdd, from which there is no recovery.      *)
RecoverablePoints == AllPoints \ {"alias-host", "undo-by-name"}
=============================================================================
