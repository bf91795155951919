------------------------------ MODULE Cloudnet ------------------------------
(***************************************************************************)
(* The CNI plugin: the transactions of ADD, CHECK and DEL                  *)
(* (internal/cni/service.go) on the state store (Store.tla) and on the     *)
(* kernel's veth pairs (internal/network), with the failures of netlink,   *)
(* file system and process, and with what runtime and administrators do    *)
(* in between.                                                             *)
(*                                                                         *)
(* A CNI invocation is a process p. tx[p] is where its transaction stands: *)
(*   pc       the step it takes next; the names follow the phases the      *)
(*            code logs                                                    *)
(*   op, key, ns, config   its arguments                                   *)
(*   undo     the compensations registered on the rollback stack, oldest   *)
(*            first: "release", then the critical "delete"                 *)
(*   caller   what called DeleteEndpoint and goes on after it              *)
(*   fd       the namespace CreateEndpoint holds open                      *)
(*   res      how the callback of WithLock ended                           *)
(*                                                                         *)
(* A veth pair is known by the name of its host end, which is derived from *)
(* the key by a truncated hash, so two keys may share one. `by` is the key *)
(* it was made for, or Admin: history that only properties read. alias and *)
(* peerAlias are the ownership aliases of the two ends, at is where the    *)
(* peer is, addr its address once it is renamed and addressed, routed says *)
(* that the rest of the set-up is in place as well: bridge port, link up,  *)
(* default route, loopback.                                                *)
(***************************************************************************)
EXTENDS Store, SequencesExt

CONSTANTS
  HostName, Name,     \* the host-side interface name of each key
  IfName, Iface,      \* the container-side interface name of each key
  Admin, NoPair, NoAddr, NoNS,
  HostNS, Limbo,      \* the host namespace; a deleted one still held open
  Ops,                \* the CNI commands the runtime uses
  Faults, MaxFaults,  \* what may go wrong, and how often altogether
  CrashPoints         \* the steps before which a process may die


PairAt == NetNS \cup {HostNS, Limbo}

Pair == [by : Key \cup {Admin}, alias : Key \cup {NoKey}, peerAlias : Key \cup {NoKey},
         at : PairAt, addr : Addr \cup {NoAddr}, routed : BOOLEAN]

ASSUME CloudnetAssumption ==
  /\ HostName \in [Key -> Name] /\ IfName \in [Key -> Iface]
  /\ Ops \subseteq {"ADD", "CHECK", "DEL"}
  /\ MaxFaults \in Nat
  /\ NoAddr \notin Addr /\ NoNS \notin NetNS /\ Admin \notin Key /\ NoPair \notin Pair
  /\ {HostNS, Limbo} \cap NetNS = {} /\ HostNS # Limbo

VARIABLES
  tx,
  pair,       \* pair[h]: the veth pair whose host end is named h
  stray,      \* pairs whose host end somebody renamed
  nsUp,       \* nsUp[n]: the namespace path n exists
  foreign,    \* <<n, i>>: an interface i in n that is not the plugin's
  budget      \* faults left

kernelVars == <<pair, stray, nsUp, foreign>>
vars == <<lock, disk, active, mem, dirty, tx, pair, stray, nsUp, foreign, budget>>

Idle == [pc |-> "idle", op |-> "none", key |-> NoKey, ns |-> NoNS, config |-> NoConfig,
         undo |-> <<>>, caller |-> "none", fd |-> NoNS, res |-> "none"]

Init ==
  /\ StoreInit
  /\ tx = [p \in Proc |-> Idle]
  /\ pair = [h \in Name |-> NoPair]
  /\ stray = {}
  /\ nsUp = [n \in NetNS |-> TRUE]
  /\ foreign = {}
  /\ budget = MaxFaults
-----------------------------------------------------------------------------
(* Steps, faults and the local state.                                      *)

NoFault == UNCHANGED budget
Fault(f) == f \in Faults /\ budget > 0 /\ budget' = budget - 1

At(p, pc) == tx[p].pc = pc
Become(p, t) == tx' = [tx EXCEPT ![p] = t]
Goto(p, pc) == Become(p, [tx[p] EXCEPT !.pc = pc])

Ended(p, res) == [tx[p] EXCEPT !.pc = "unlock", !.res = res]

Key_(p) == tx[p].key
Host(p) == HostName[Key_(p)]
RecordOf(p) == mem[p].endpoints[Key_(p)]

(* Commit, and how the transaction goes on after its success or failure.   *)
CommitThen(p, done, failed) ==
  \/ (CommitClean(p) \/ CommitWritten(p)) /\ NoFault /\ Become(p, done)
  \/ CommitRefused(p) /\ NoFault /\ Become(p, failed)
  \/ CommitUnwritten(p) /\ Fault("write") /\ Become(p, failed)
  \/ CommitRenamed(p) /\ Fault("fsync") /\ Become(p, failed)

(* Closing the last reference to a deleted namespace destroys it, and with *)
(* it the pairs that reach into it.                                        *)
AfterClose(pairs) ==
  [h \in Name |-> IF pairs[h] # NoPair /\ pairs[h].at = Limbo THEN NoPair ELSE pairs[h]]
-----------------------------------------------------------------------------
(* What the kernel shows.                                                  *)

(* VerifyVethOwnership of a host end: only the full alias proves it.       *)
OwnedIgnoringAlias(h, k) == pair[h] # NoPair
Owned(h, k) == pair[h] # NoPair /\ pair[h].alias = k

(* The pair this CreateEndpoint made, which it holds by interface index.   *)
Made(p) == pair[Host(p)] # NoPair /\ pair[Host(p)].by = Key_(p)

(* The named pairs in a namespace, those with a renamed host end included. *)
PairsIn(n) ==
  {q \in {pair[h] : h \in Name} \ {NoPair} : q.at = n /\ q.addr # NoAddr}
    \cup {q \in stray : q.at = n}

Occupied(n, i) ==
  <<n, i>> \in foreign \/ \E q \in PairsIn(n) : IfName[q.by] = i

HasDefaultRoute(n) == \E q \in PairsIn(n) : q.routed

(* CheckEndpoint against the record of the endpoint and a namespace path.  *)
EndpointOK(k, r, n) ==
  LET q == pair[HostName[k]]
  IN  /\ Owned(HostName[k], k)
      /\ n \in NetNS /\ nsUp[n]
      /\ q.at = n /\ q.peerAlias = k /\ q.addr = r.ip /\ q.routed
-----------------------------------------------------------------------------
(* Invocation, lock and load.                                              *)

(* ValidateRuntime: only DEL does without a namespace path.                *)
InvokeAs(p, op, k) ==
  /\ tx[p] = Idle /\ op \in Ops
  /\ \E n \in NetNS \cup {NoNS}, c \in Config :
       /\ op # "DEL" => n # NoNS
       /\ Become(p, [Idle EXCEPT !.pc = "lock", !.op = op, !.key = k, !.ns = n,
                                 !.config = c])
  /\ UNCHANGED <<storeVars, kernelVars, budget>>

Invoke(p) == \E op \in Ops, k \in Key : InvokeAs(p, op, k)

Lock(p) ==
  /\ At(p, "lock") /\ flockExclusive(p)
  /\ Goto(p, "load")
  /\ UNCHANGED <<kernelVars, budget>>

(* DEL starts with GetEndpoint and DeleteEndpoint.                         *)
Load(p) ==
  /\ At(p, "load") /\ loadState(p)
  /\ Become(p, CASE tx[p].op = "ADD" -> [tx[p] EXCEPT !.pc = "allocate"]
                 [] tx[p].op = "CHECK" -> [tx[p] EXCEPT !.pc = "check"]
                 [] tx[p].op = "DEL" -> [tx[p] EXCEPT !.pc = "find-host",
                                                      !.caller = "delete-endpoint"])
  /\ UNCHANGED <<kernelVars, budget>>

(* A mistake: a damaged file is taken for an empty network. *)
LoadFailsFresh(p) ==
  /\ At(p, "load") /\ ~Loadable
  /\ active' = [active EXCEPT ![p] = TRUE] /\ mem' = [mem EXCEPT ![p] = newPersistedState]
  /\ Goto(p, IF tx[p].op = "ADD" THEN "allocate" ELSE "unlock")
  /\ UNCHANGED <<lock, disk, dirty, kernelVars, budget>>

LoadFails(p) ==
  /\ At(p, "load") /\ ~Loadable
  /\ Unlock(p) /\ Become(p, Idle)
  /\ UNCHANGED <<kernelVars, budget>>

(* The end of WithLock when its callback succeeded: the final Commit.      *)
Finish(p) ==
  /\ At(p, "finish")
  /\ CommitThen(p, Ended(p, "ok"), Ended(p, "err"))
  /\ UNCHANGED kernelVars

(* A mistake: an invocation that failed keeps the lock. *)
ReturnLocked(p) ==
  /\ At(p, "unlock") /\ IF tx[p].res = "ok" THEN Unlock(p) ELSE UNCHANGED storeVars
  /\ Become(p, Idle)
  /\ UNCHANGED <<kernelVars, budget>>

Return(p) ==
  /\ At(p, "unlock") /\ Unlock(p)
  /\ Become(p, Idle)
  /\ UNCHANGED <<kernelVars, budget>>
-----------------------------------------------------------------------------
(* ADD up to the creation of the veth pair.                                *)

(* A record that is already pending may come from an ADD that died, so its *)
(* remains are deleted first; it is released again if this ADD fails.      *)
AddAllocate(p) ==
  /\ At(p, "allocate")
  /\ Allocate(p, Key_(p), tx[p].config, tx[p].ns)
  /\ LET created == ~HasEndpoint(mem[p], Key_(p))
         pending == ~created /\ RecordOf(p).phase = "pending"
     IN  Become(p, IF created THEN [tx[p] EXCEPT !.pc = "persist-pending"]
                   ELSE IF pending
                     THEN [tx[p] EXCEPT !.pc = "find-host", !.caller = "recover-pending",
                                        !.undo = <<"release">>]
                     ELSE [tx[p] EXCEPT !.pc = "ensure-bridge"])
  /\ UNCHANGED <<kernelVars, budget>>

AddAllocateFails(p) ==
  /\ At(p, "allocate")
  /\ ~AllocateAllowed(mem[p], Key_(p), tx[p].config)
  /\ Become(p, Ended(p, "err"))
  /\ UNCHANGED <<storeVars, kernelVars, budget>>

(* A mistake: a new endpoint is committed without its compensation. *)
PersistPendingOnly(p) ==
  /\ At(p, "persist-pending")
  /\ CommitThen(p, [tx[p] EXCEPT !.pc = "ensure-bridge"], Ended(p, "err"))
  /\ UNCHANGED kernelVars

PersistPending(p) ==
  /\ At(p, "persist-pending")
  /\ CommitThen(p, [tx[p] EXCEPT !.pc = "ensure-bridge", !.undo = <<"release">>],
                   Ended(p, "err"))
  /\ UNCHANGED kernelVars

(* The bridge itself is not part of this module.                           *)
AddEnsureBridge(p) ==
  /\ At(p, "ensure-bridge")
  /\ \/ /\ NoFault
        /\ Goto(p, IF RecordOf(p).phase = "ready" THEN "idempotency-check"
                                                  ELSE "create-veth")
     \/ Fault("netlink") /\ Goto(p, "rollback")
  /\ UNCHANGED <<storeVars, kernelVars>>

(* A ready endpoint that checks out is reused. Any failure of the check,   *)
(* also a passing one of netlink, starts its reconstruction.               *)
IdempotencyCheck(p) ==
  /\ At(p, "idempotency-check")
  /\ \/ /\ EndpointOK(Key_(p), RecordOf(p), tx[p].ns) /\ NoFault
        /\ Become(p, [tx[p] EXCEPT !.pc = "finish", !.undo = <<>>])
     \/ /\ \/ ~EndpointOK(Key_(p), RecordOf(p), tx[p].ns) /\ NoFault
           \/ Fault("netlink")
        /\ Goto(p, "reconcile-pending")
  /\ UNCHANGED <<storeVars, kernelVars>>

ReconcilePending(p) ==
  /\ At(p, "reconcile-pending")
  /\ MarkPhase(p, Key_(p), "pending")
  /\ Goto(p, "persist-reconcile")
  /\ UNCHANGED <<kernelVars, budget>>

(* A mistake: the old pair is deleted before the phase is on disk. *)
PersistReconcileLate(p) ==
  /\ At(p, "persist-reconcile") /\ active[p]
  /\ Become(p, [tx[p] EXCEPT !.pc = "find-host", !.caller = "reconcile-delete"])
  /\ UNCHANGED <<storeVars, kernelVars, budget>>

PersistReconcile(p) ==
  /\ At(p, "persist-reconcile")
  /\ CommitThen(p, [tx[p] EXCEPT !.pc = "find-host", !.caller = "reconcile-delete"],
                   Ended(p, "err"))
  /\ UNCHANGED kernelVars
-----------------------------------------------------------------------------
(* CreateEndpoint, called with its deletion already on the rollback stack. *)

Preflight(p) ==
  LET n == tx[p].ns
      armed == [tx[p] EXCEPT !.undo = Append(@, "delete")]
      clear == nsUp[n] /\ ~Occupied(n, IfName[Key_(p)]) /\ pair[Host(p)] = NoPair
  IN  /\ At(p, "create-veth")
      /\ \/ /\ clear /\ NoFault
            /\ Become(p, [armed EXCEPT !.pc = "link-add", !.fd = n])
         \/ /\ (~clear /\ NoFault) \/ Fault("netlink")
            /\ Become(p, [armed EXCEPT !.pc = "rollback"])
      /\ UNCHANGED <<storeVars, kernelVars>>

(* The failure of a step after LinkAdd: first the pair, then the rollback. *)
CreateFails(p, possible) ==
  /\ (~possible /\ NoFault) \/ Fault("netlink")
  /\ Goto(p, "undo-create")
  /\ UNCHANGED kernelVars

LinkAdd(p) ==
  /\ At(p, "link-add")
  /\ \/ /\ pair[Host(p)] = NoPair /\ NoFault
        /\ pair' = [pair EXCEPT ![Host(p)] =
                      [by |-> Key_(p), alias |-> NoKey, peerAlias |-> NoKey,
                       at |-> HostNS, addr |-> NoAddr, routed |-> FALSE]]
        /\ Goto(p, "alias-host")
     \/ /\ (pair[Host(p)] # NoPair /\ NoFault) \/ Fault("netlink")
        /\ pair' = AfterClose(pair)
        /\ Become(p, [tx[p] EXCEPT !.pc = "rollback", !.fd = NoNS])
  /\ UNCHANGED <<storeVars, stray, nsUp, foreign>>

(* A step that changes the pair, when it can.                              *)
CreateStep(p, from, to, possible, changed) ==
  /\ At(p, from)
  /\ \/ /\ possible /\ NoFault
        /\ pair' = [pair EXCEPT ![Host(p)] = changed]
        /\ Goto(p, to)
        /\ UNCHANGED <<stray, nsUp, foreign>>
     \/ CreateFails(p, possible)
  /\ UNCHANGED storeVars

(* The first look-up of the new pair, by name, and the alias of its host   *)
(* end. If this step fails, the failure closure goes by the name as well.  *)
AliasHost(p) ==
  /\ At(p, "alias-host")
  /\ \/ /\ Made(p) /\ NoFault
        /\ pair' = [pair EXCEPT ![Host(p)].alias = Key_(p)]
        /\ Goto(p, "alias-peer")
     \/ /\ (~Made(p) /\ NoFault) \/ Fault("netlink")
        /\ Goto(p, "undo-by-name")
        /\ UNCHANGED pair
  /\ UNCHANGED <<storeVars, stray, nsUp, foreign>>

AliasPeer(p) ==
  CreateStep(p, "alias-peer", "move-peer", Made(p),
             [pair[Host(p)] EXCEPT !.peerAlias = Key_(p)])

MovePeer(p) ==
  CreateStep(p, "move-peer", "configure", Made(p),
             [pair[Host(p)] EXCEPT !.at = tx[p].fd])

(* Bridge port and UP on the host side, then name and address inside.      *)
ConfigureAddress(p) ==
  CreateStep(p, "configure", "add-route",
             Made(p) /\ Owned(Host(p), Key_(p)) /\ ~Occupied(tx[p].fd, IfName[Key_(p)]),
             [pair[Host(p)] EXCEPT !.addr = RecordOf(p).ip])

AddRoute(p) ==
  CreateStep(p, "add-route", "verify-host", Made(p) /\ ~HasDefaultRoute(tx[p].fd),
             [pair[Host(p)] EXCEPT !.routed = TRUE])

(* checkHostEndpoint, then the deferred close of the namespace.            *)
VerifyHost(p) ==
  /\ At(p, "verify-host")
  /\ \/ /\ Owned(Host(p), Key_(p)) /\ NoFault
        /\ pair' = AfterClose(pair)
        /\ Become(p, [tx[p] EXCEPT !.pc = "mark-ready", !.fd = NoNS])
        /\ UNCHANGED <<stray, nsUp, foreign>>
     \/ CreateFails(p, Owned(Host(p), Key_(p)))
  /\ UNCHANGED storeVars

(* The failure closure: delete the pair just made, whatever its alias. It  *)
(* is known by its index once the first look-up has succeeded.             *)
UndoTarget(p) ==
  \/ At(p, "undo-create") /\ Made(p)
  \/ At(p, "undo-by-name") /\ pair[Host(p)] # NoPair

UndoCreate(p) ==
  /\ At(p, "undo-create") \/ At(p, "undo-by-name")
  /\ \/ /\ NoFault
        /\ pair' = AfterClose(IF UndoTarget(p) THEN [pair EXCEPT ![Host(p)] = NoPair]
                                               ELSE pair)
     \/ /\ UndoTarget(p) /\ Fault("netlink")
        /\ pair' = AfterClose(pair)
  /\ Become(p, [tx[p] EXCEPT !.pc = "rollback", !.fd = NoNS])
  /\ UNCHANGED <<storeVars, stray, nsUp, foreign>>

AddMarkReady(p) ==
  /\ At(p, "mark-ready")
  /\ MarkPhase(p, Key_(p), "ready")
  /\ Goto(p, "persist-ready")
  /\ UNCHANGED <<kernelVars, budget>>

PersistReady(p) ==
  /\ At(p, "persist-ready")
  /\ CommitThen(p, [tx[p] EXCEPT !.pc = "finish", !.undo = <<>>],
                   [tx[p] EXCEPT !.pc = "rollback"])
  /\ UNCHANGED kernelVars
-----------------------------------------------------------------------------
(* Stack.Rollback: newest compensation first. The deletion is critical: if *)
(* it fails, the address is not released.                                  *)

RollbackDelete(p) ==
  /\ At(p, "rollback") /\ tx[p].undo # <<>> /\ Last(tx[p].undo) = "delete"
  /\ Become(p, [tx[p] EXCEPT !.pc = "find-host", !.caller = "rollback"])
  /\ UNCHANGED <<storeVars, kernelVars, budget>>

RollbackRelease(p) ==
  /\ At(p, "rollback") /\ tx[p].undo # <<>> /\ Last(tx[p].undo) = "release"
  /\ Release(p, Key_(p))
  /\ Become(p, [tx[p] EXCEPT !.pc = "persist-release", !.undo = Front(@)])
  /\ UNCHANGED <<kernelVars, budget>>

PersistRelease(p) ==
  /\ At(p, "persist-release")
  /\ CommitThen(p, [tx[p] EXCEPT !.pc = "rollback"], [tx[p] EXCEPT !.pc = "rollback"])
  /\ UNCHANGED kernelVars

RollbackEnds(p) ==
  /\ At(p, "rollback") /\ tx[p].undo = <<>>
  /\ Become(p, Ended(p, "err"))
  /\ UNCHANGED <<storeVars, kernelVars, budget>>
-----------------------------------------------------------------------------
(* DeleteEndpoint and what its callers do next.                            *)

(* A mistake: recovery registers the release a second time. *)
DeletedTwice(p) ==
  CASE tx[p].caller = "recover-pending" -> [tx[p] EXCEPT !.pc = "ensure-bridge",
                                                         !.undo = Append(@, "release")]
    [] tx[p].caller = "reconcile-delete" -> [tx[p] EXCEPT !.pc = "create-veth",
                                                          !.undo = Append(@, "release")]
    [] tx[p].caller = "rollback" -> [tx[p] EXCEPT !.pc = "rollback", !.undo = Front(@)]
    [] tx[p].caller = "delete-endpoint" -> [tx[p] EXCEPT !.pc = "release"]

Deleted(p) ==
  CASE tx[p].caller = "recover-pending" -> [tx[p] EXCEPT !.pc = "ensure-bridge"]
    [] tx[p].caller = "reconcile-delete" -> [tx[p] EXCEPT !.pc = "create-veth",
                                                          !.undo = Append(@, "release")]
    [] tx[p].caller = "rollback" -> [tx[p] EXCEPT !.pc = "rollback", !.undo = Front(@)]
    [] tx[p].caller = "delete-endpoint" -> [tx[p] EXCEPT !.pc = "release"]

(* A mistake: a failed deletion does not stop the rollback. *)
NotDeletedContinue(p) ==
  IF tx[p].caller = "rollback"
    THEN [tx[p] EXCEPT !.pc = "rollback", !.undo = Front(@)]
    ELSE Ended(p, "err")

NotDeleted(p) ==
  IF tx[p].caller = "rollback"
    THEN [tx[p] EXCEPT !.pc = "rollback", !.undo = <<>>]
    ELSE Ended(p, "err")

(* The namespace path of the DeleteSpec: ADD never looks inside one.       *)
DeleteNS(p) == IF tx[p].op = "DEL" THEN tx[p].ns ELSE NoNS

(* A mistake: a link that is not owned counts as missing. *)
FindHostUnowned(p) ==
  /\ At(p, "find-host") /\ NoFault
  /\ IF Owned(Host(p), Key_(p)) THEN Goto(p, "link-del") ELSE Become(p, Deleted(p))
  /\ UNCHANGED <<storeVars, kernelVars>>

FindHost(p) ==
  LET h == Host(p)
  IN  /\ At(p, "find-host")
      /\ \/ Owned(h, Key_(p)) /\ NoFault /\ Goto(p, "link-del")
         \/ pair[h] # NoPair /\ ~Owned(h, Key_(p)) /\ NoFault /\ Become(p, NotDeleted(p))
         \/ /\ pair[h] = NoPair /\ NoFault
            /\ IF DeleteNS(p) = NoNS THEN Become(p, Deleted(p)) ELSE Goto(p, "stat-peer")
         \/ Fault("netlink") /\ Become(p, NotDeleted(p))
      /\ UNCHANGED <<storeVars, kernelVars>>

(* The link found may be gone by now, which LinkDel reports as an error.   *)
LinkDel(p) ==
  LET h == Host(p)
  IN  /\ At(p, "link-del")
      /\ \/ /\ Owned(h, Key_(p)) /\ NoFault
            /\ pair' = [pair EXCEPT ![h] = NoPair]
            /\ Become(p, Deleted(p))
         \/ /\ (~Owned(h, Key_(p)) /\ NoFault) \/ Fault("netlink")
            /\ Become(p, NotDeleted(p))
            /\ UNCHANGED pair
      /\ UNCHANGED <<storeVars, stray, nsUp, foreign>>

(* A mistake: a namespace that is gone is an error. *)
StatPeerStrict(p) ==
  /\ At(p, "stat-peer") /\ NoFault
  /\ IF nsUp[DeleteNS(p)] THEN Goto(p, "find-peer") ELSE Become(p, NotDeleted(p))
  /\ UNCHANGED <<storeVars, kernelVars>>

(* Without a host end: is there still a namespace to look into?            *)
StatPeer(p) ==
  /\ At(p, "stat-peer")
  /\ \/ NoFault /\ IF nsUp[DeleteNS(p)] THEN Goto(p, "find-peer") ELSE Become(p, Deleted(p))
     \/ Fault("netlink") /\ Become(p, NotDeleted(p))
  /\ UNCHANGED <<storeVars, kernelVars>>

(* A mistake: a namespace that disappears after it was seen is an error. *)
FindPeerStrict(p) ==
  LET n == DeleteNS(p)
      mine == {q \in stray : q.at = n /\ q.peerAlias = Key_(p)}
  IN  /\ At(p, "find-peer") /\ NoFault
      /\ IF nsUp[n] /\ (mine # {} \/ ~Occupied(n, IfName[Key_(p)]))
           THEN Become(p, Deleted(p)) /\ stray' = stray \ mine
           ELSE Become(p, NotDeleted(p)) /\ UNCHANGED stray
      /\ UNCHANGED <<storeVars, pair, nsUp, foreign>>

(* The namespace is opened, unless it has disappeared since, and the       *)
(* interface in it deleted, if it is owned.                                *)
FindPeer(p) ==
  LET n == DeleteNS(p)
      i == IfName[Key_(p)]
      mine == {q \in stray : q.at = n /\ q.peerAlias = Key_(p)}
  IN  /\ At(p, "find-peer")
      /\ \/ /\ (~nsUp[n] \/ ~Occupied(n, i)) /\ NoFault
            /\ Become(p, Deleted(p)) /\ UNCHANGED stray
         \/ /\ nsUp[n] /\ mine # {} /\ NoFault
            /\ stray' = stray \ mine
            /\ Become(p, Deleted(p))
         \/ /\ nsUp[n] /\ Occupied(n, i) /\ mine = {} /\ NoFault
            /\ Become(p, NotDeleted(p)) /\ UNCHANGED stray
         \/ Fault("netlink") /\ Become(p, NotDeleted(p)) /\ UNCHANGED stray
      /\ UNCHANGED <<storeVars, pair, nsUp, foreign>>

DelRelease(p) ==
  /\ At(p, "release")
  /\ Release(p, Key_(p))
  /\ Goto(p, "finish")
  /\ UNCHANGED <<kernelVars, budget>>
-----------------------------------------------------------------------------
(* CHECK reads; the final Commit of WithLock finds nothing to write.       *)
Check(p) ==
  LET r == RecordOf(p)
      matches == /\ HasEndpoint(mem[p], Key_(p))
                 /\ r.phase = "ready" /\ r.netns = tx[p].ns /\ r.config = tx[p].config
                 /\ EndpointOK(Key_(p), r, tx[p].ns)
  IN  /\ At(p, "check")
      /\ \/ matches /\ NoFault /\ Goto(p, "finish")
         \/ ((~matches /\ NoFault) \/ Fault("netlink")) /\ Become(p, Ended(p, "err"))
      /\ UNCHANGED <<storeVars, kernelVars>>
-----------------------------------------------------------------------------
(* What happens around an invocation.                                      *)

(* A process dies: flock and namespace reference go with it.               *)
Crash(p) ==
  /\ tx[p].pc \in CrashPoints /\ Fault("crash")
  /\ unlock(p)
  /\ pair' = AfterClose(pair)
  /\ Become(p, Idle)
  /\ UNCHANGED <<stray, nsUp, foreign>>

(* The runtime removes a namespace path. A namespace that is held open     *)
(* lives on without a path until the holder closes it.                     *)
HeldOpen(n) == \E p \in Proc : tx[p].fd = n

NamespaceGone(n) ==
  /\ Fault("netns") /\ nsUp[n]
  /\ nsUp' = [nsUp EXCEPT ![n] = FALSE]
  /\ pair' = [h \in Name |->
       IF pair[h] = NoPair \/ pair[h].at # n THEN pair[h]
       ELSE IF HeldOpen(n) THEN [pair[h] EXCEPT !.at = Limbo] ELSE NoPair]
  /\ stray' = {q \in stray : q.at # n}
  /\ foreign' = {f \in foreign : f[1] # n}
  /\ tx' = [p \in Proc |-> IF tx[p].fd = n THEN [tx[p] EXCEPT !.fd = Limbo] ELSE tx[p]]
  /\ UNCHANGED storeVars

NamespaceMade(n) ==
  /\ ~nsUp[n] /\ NoFault
  /\ nsUp' = [nsUp EXCEPT ![n] = TRUE]
  /\ UNCHANGED <<storeVars, tx, pair, stray, foreign>>

(* Something inside the container breaks a working endpoint.               *)
Drift(h) ==
  /\ pair[h] # NoPair /\ pair[h].routed /\ Fault("drift")
  /\ pair' = [pair EXCEPT ![h].routed = FALSE]
  /\ UNCHANGED <<storeVars, tx, stray, nsUp, foreign>>

(* An administrator makes a link of that name, or deletes a link.          *)
AdminAdds(h) ==
  /\ pair[h] = NoPair /\ Fault("admin")
  /\ pair' = [pair EXCEPT ![h] = [by |-> Admin, alias |-> NoKey, peerAlias |-> NoKey,
                                  at |-> HostNS, addr |-> NoAddr, routed |-> FALSE]]
  /\ UNCHANGED <<storeVars, tx, stray, nsUp, foreign>>

AdminDeletes(h) ==
  /\ pair[h] # NoPair /\ Fault("admin")
  /\ pair' = [pair EXCEPT ![h] = NoPair]
  /\ UNCHANGED <<storeVars, tx, stray, nsUp, foreign>>

(* Between two invocations somebody renames the host end of a pair.        *)
HostRenamed(h) ==
  /\ lock = NoProc /\ pair[h] # NoPair /\ pair[h].addr # NoAddr /\ Fault("rename")
  /\ stray' = stray \cup {pair[h]}
  /\ pair' = [pair EXCEPT ![h] = NoPair]
  /\ UNCHANGED <<storeVars, tx, nsUp, foreign>>

(* Another plugin puts an interface into a namespace.                      *)
ForeignInterface(n, i) ==
  /\ nsUp[n] /\ ~Occupied(n, i) /\ Fault("foreign")
  /\ foreign' = foreign \cup {<<n, i>>}
  /\ UNCHANGED <<storeVars, tx, pair, stray, nsUp>>

(* The state directory is removed, or the file damaged, between two        *)
(* invocations.                                                            *)
StateLost == LoseState /\ Fault("lose") /\ UNCHANGED <<tx, kernelVars>>
StateDamaged == DamageState /\ Fault("damage") /\ UNCHANGED <<tx, kernelVars>>

AddNext(p) ==
  \/ AddAllocate(p) \/ AddAllocateFails(p) \/ PersistPending(p) \/ AddEnsureBridge(p)
  \/ IdempotencyCheck(p) \/ ReconcilePending(p) \/ PersistReconcile(p)
  \/ Preflight(p) \/ LinkAdd(p) \/ AliasHost(p) \/ AliasPeer(p) \/ MovePeer(p)
  \/ ConfigureAddress(p) \/ AddRoute(p) \/ VerifyHost(p) \/ UndoCreate(p)
  \/ AddMarkReady(p) \/ PersistReady(p)
  \/ RollbackDelete(p) \/ RollbackRelease(p) \/ PersistRelease(p) \/ RollbackEnds(p)

DeleteNext(p) ==
  FindHost(p) \/ LinkDel(p) \/ StatPeer(p) \/ FindPeer(p) \/ DelRelease(p)

(* What the process of an invocation does once it runs.                    *)
Run(p) ==
  \/ Load(p) \/ LoadFails(p) \/ AddNext(p) \/ DeleteNext(p) \/ Check(p)
  \/ Finish(p) \/ Return(p)

Environment ==
  \/ \E n \in NetNS : NamespaceGone(n) \/ NamespaceMade(n)
  \/ \E h \in Name : Drift(h) \/ AdminAdds(h) \/ AdminDeletes(h) \/ HostRenamed(h)
  \/ \E n \in NetNS, i \in Iface : ForeignInterface(n, i)
  \/ StateLost \/ StateDamaged

Next ==
  \/ \E p \in Proc : Invoke(p) \/ Lock(p) \/ Run(p) \/ Crash(p)
  \/ Environment

Spec == Init /\ [][Next]_vars

(***************************************************************************)
(* Fairness. The process of a running invocation goes on; the kernel hands *)
(* a free flock to a waiter, so none waits for ever. And the runtime keeps *)
(* deleting: CNI asks it to repeat a DEL until it succeeds.                *)
(***************************************************************************)
Progress == \A p \in Proc : WF_vars(Run(p)) /\ SF_vars(Lock(p))
RepeatedDel == \A k \in Key : SF_vars(\E p \in Proc : InvokeAs(p, "DEL", k))

FairSpec == Spec /\ Progress /\ RepeatedDel
-----------------------------------------------------------------------------
(* The phases of an ADD: those of CreateEndpoint after its preflight, those *)
(* that work with the record in the copy, and those of DeleteEndpoint.      *)
Creating == {"link-add", "alias-host", "alias-peer", "move-peer", "configure",
             "add-route", "verify-host", "undo-create", "undo-by-name"}

Holding == Creating \cup {"persist-pending", "ensure-bridge", "idempotency-check",
             "reconcile-pending", "persist-reconcile", "create-veth", "mark-ready",
             "persist-ready"}

Deleting == {"find-host", "link-del", "stat-peer", "find-peer"}

Steps == Holding \cup Deleting \cup {"idle", "lock", "load", "allocate", "check", "rollback",
           "persist-release", "release", "finish", "unlock"}

Callers == {"recover-pending", "reconcile-delete", "rollback", "delete-endpoint"}

Tx == [pc : Steps, op : Ops \cup {"none"}, key : Key \cup {NoKey},
       ns : NetNS \cup {NoNS}, config : Config \cup {NoConfig},
       undo : {<<>>, <<"release">>, <<"release", "delete">>},
       caller : Callers \cup {"none"}, fd : NetNS \cup {NoNS, Limbo},
       res : {"none", "ok", "err"}]

KernelTypeOK ==
  /\ pair \in [Name -> Pair \cup {NoPair}] /\ stray \subseteq Pair
  /\ nsUp \in [NetNS -> BOOLEAN]
  /\ foreign \subseteq NetNS \X Iface
  /\ budget \in 0..MaxFaults

(* Every variable has its type; above all, a rollback stack is one of the  *)
(* three that ADD can build (service.go:164-260).                          *)
CloudnetTypeOK == StoreTypeOK /\ tx \in [Proc -> Tx] /\ KernelTypeOK

(* What is known of a transaction t that works on the copy m: the stack,   *)
(* the arguments and the record that belong to the step t has reached.     *)
Recovering(t) == t.pc \in Deleting /\ t.caller \in {"recover-pending", "reconcile-delete"}

Armed(t) ==
  \/ t.pc \in Creating \cup {"mark-ready", "persist-ready"}
  \/ t.pc \in Deleting /\ t.caller = "rollback"

Registered(t, m) ==
  /\ Armed(t) => t.undo = <<"release", "delete">>
  /\ t.pc = "create-veth" => t.undo = <<"release">>
  /\ t.pc = "ensure-bridge" =>
       IF m.endpoints[t.key].phase = "ready" THEN t.undo = <<>> ELSE t.undo = <<"release">>
  /\ t.pc \in Deleting /\ t.caller = "recover-pending" => t.undo = <<"release">>
  /\ t.pc \in Deleting /\ t.caller \in {"reconcile-delete", "delete-endpoint"}
       => t.undo = <<>>
  /\ t.pc \in {"idle", "lock", "load", "allocate", "check", "persist-pending",
                "idempotency-check", "reconcile-pending", "persist-reconcile",
                "persist-release", "release", "finish"} => t.undo = <<>>

Sound(t, m) ==
  /\ Registered(t, m)
  /\ t.pc # "idle" => /\ t.op \in Ops /\ t.key \in Key /\ t.config \in Config
                      /\ t.op # "DEL" => t.ns \in NetNS
  /\ (t.pc = "allocate" \/ t.pc \in Holding \/ Recovering(t)) => t.op = "ADD"
  /\ t.pc \in Deleting => t.caller \in Callers
  /\ (t.pc \in Holding \/ Recovering(t)) => m.endpoints[t.key] \in Record
  /\ (t.pc = "persist-pending" \/ (Recovering(t) /\ t.caller = "recover-pending"))
       => m.endpoints[t.key].phase = "pending"
  /\ t.pc \in Creating => t.fd \in NetNS \cup {Limbo}

(* Where a transaction stands determines what its rollback will do: the    *)
(* release of the address is registered exactly once, and only for a       *)
(* record that this ADD made or found pending or has put back to pending;  *)
(* the deletion of the link comes on top of it before the first link is    *)
(* made, and nothing is registered when the callback succeeds              *)
(* (service.go:164-260).                                                   *)
RollbackFollows == \A p \in Proc : Sound(tx[p], mem[p])

(* A process without the lock has no copy.                                 *)
CopyNeedsLock ==
  \A p \in Proc : lock # p => /\ ~active[p] /\ ~dirty[p]
                             /\ mem[p] = newPersistedState

(* The parts of the invariant that relates lock, file, copy and links to   *)
(* the step of each transaction; the proofs of what follows rest on them.  *)

(* Past the wait for the lock an invocation holds it; past the load it has *)
(* a copy.                                                                 *)
InCallback(t) == t.pc \notin {"idle", "lock", "load"}

Serial == \A p \in Proc : /\ tx[p].pc \notin {"idle", "lock"} => lock = p
                          /\ InCallback(tx[p]) => active[p]

(* The end of an invocation that will report success, or has.              *)
Succeeding(t, op) ==
  t.op = op /\ (t.pc = "finish" \/ (t.pc = "unlock" /\ t.res = "ok"))

(* The steps of an ADD at which the file says that the endpoint is pending, *)
(* and those at which it still says that it is ready.                      *)
Quarantined(t) ==
  \/ t.pc \in Creating \cup {"create-veth", "mark-ready", "persist-ready"}
  \/ Recovering(t)
  \/ t.pc = "ensure-bridge" /\ t.undo # <<>>

Reusing(t) ==
  \/ t.pc \in {"idempotency-check", "reconcile-pending", "persist-reconcile"}
  \/ t.pc = "ensure-bridge" /\ t.undo = <<>>

(* Which command a step belongs to. *)
Commanded(t) ==
  /\ t.pc = "check" => t.op = "CHECK"
  /\ t.pc = "release" \/ (t.pc \in Deleting /\ t.caller = "delete-endpoint") => t.op = "DEL"
  /\ t.pc \in {"rollback", "persist-release"} => t.op = "ADD"
  /\ t.pc \in Deleting /\ t.caller = "rollback" => t.op = "ADD"

(* The copy m of transaction t against the file d; changed: m was changed  *)
(* since the last commit.                                                  *)
Agrees(t, m, d, changed) ==
  LET k == t.key
      new == m.endpoints[k]
      old == d.endpoints[k]
  IN  /\ InCallback(t) => \A j \in Key \ {k} : m.endpoints[j] = d.endpoints[j]
      /\ (\/ t.pc \in {"allocate", "check", "release"}
          \/ t.pc \in Deleting /\ t.caller = "delete-endpoint"
          \/ t.pc = "finish" /\ t.op = "CHECK"
          \/ t.pc = "unlock" /\ t.res = "ok")
           => ~changed
      /\ t.pc = "persist-pending" => old = NoRecord /\ new.netns = t.ns
      /\ (Quarantined(t) \/ Reusing(t) \/ Succeeding(t, "ADD"))
           => /\ {old, new} \subseteq Record /\ new.ip = old.ip /\ new.netns = t.ns
              /\ old.phase = IF Quarantined(t) THEN "pending" ELSE "ready"
              /\ new.phase = CASE t.pc = "persist-ready" -> "ready"
                               [] t.pc = "persist-reconcile" -> "pending"
                               [] OTHER -> old.phase
      /\ t.pc = "persist-release" \/ Succeeding(t, "DEL") => new = NoRecord

Ledger == \A p \in Proc :
  Commanded(tx[p]) /\ Agrees(tx[p], mem[p], Loaded(disk), dirty[p])

(* The links: a pair has the host name of the key it was made for and no   *)
(* alias but that of this key.                                             *)
Attributed(links) ==
  \A h \in Name : links[h] # NoPair =>
    /\ links[h].by # Admin => h = HostName[links[h].by]
    /\ links[h].alias \in {NoKey, links[h].by}

NoLinkOf(k, links) == \A h \in Name : links[h] # NoPair => links[h].by # k

(* After LinkAdd the name is taken by the new pair or an administrator's;  *)
(* before it, and once DeleteEndpoint has succeeded, no pair is left.      *)
Taken(t, links) ==
  /\ t.pc \in Creating \ {"link-add"} =>
       LET q == links[HostName[t.key]] IN q # NoPair => q.by \in {t.key, Admin}
  /\ t.pc \in {"link-add", "stat-peer", "find-peer", "release"} \/ Succeeding(t, "DEL")
       => NoLinkOf(t.key, links)

LinksFollow == Attributed(pair) /\ \A p \in Proc : Taken(tx[p], pair)

(* As long as nobody removes the state directory, no link lacks a record   *)
(* while the file can be read, so an ADD that finds no record or has freed *)
(* the address has no link either.                                         *)
Unlinked(t) ==
  \/ t.pc \in {"persist-pending", "create-veth", "persist-release"}
  \/ t.pc \in {"ensure-bridge", "rollback"} /\ t.undo = <<"release">>

NoOrphans ==
  /\ disk # Corrupt => \A h \in Name : pair[h] # NoPair /\ pair[h].by # Admin
                          => HasEndpoint(Loaded(disk), pair[h].by)
  /\ \A p \in Proc : Unlinked(tx[p]) => NoLinkOf(tx[p].key, pair)

(* As long as nobody interferes with namespaces and links, the new pair    *)
(* gets one property after the other and keeps them.                       *)
Complete(t) == t.pc \in {"mark-ready", "persist-ready"} \/ Succeeding(t, "ADD")

Built(t, m, links) ==
  LET k == t.key
      q == links[HostName[k]]
      from(pcs) == t.pc \in pcs \/ Complete(t)
  IN  /\ t.pc \in Creating => t.fd = t.ns
      /\ from(Creating \ {"link-add", "undo-create", "undo-by-name"})
           => q # NoPair /\ q.by = k /\ q.routed = (t.pc = "verify-host" \/ Complete(t))
      /\ from({"alias-peer", "move-peer", "configure", "add-route", "verify-host"})
           => q.alias = k
      /\ from({"move-peer", "configure", "add-route", "verify-host"}) => q.peerAlias = k
      /\ from({"configure", "add-route", "verify-host"}) => q.at = t.ns
      /\ from({"add-route", "verify-host"}) => q.addr = m.endpoints[k].ip

AllBuilt ==
  /\ \A n \in NetNS : nsUp[n]
  /\ \A h \in Name : pair[h] # NoPair => pair[h].by # Admin /\ pair[h].at # Limbo
  /\ \A p \in Proc : Built(tx[p], mem[p], pair)

Pairs == ({pair[h] : h \in Name} \ {NoPair}) \cup stray
LinksOf(k) == {q \in Pairs : q.by = k}
Recorded(k) == disk \notin {Absent, Corrupt} /\ HasEndpoint(disk, k)
RecordOnDisk(k) == disk.endpoints[k]

(* The end of an invocation that reports success.                          *)
Succeeds(p, op) == At(p, "unlock") /\ tx[p].op = op /\ tx[p].res = "ok"

(* An ADD that returns success leaves on disk a ready record with the      *)
(* namespace it was called with, and in the kernel the complete link that  *)
(* CHECK would accept, whatever an earlier ADD that failed or died had     *)
(* left (service.go:137-261).                                              *)
AddDelivers ==
  \A p \in Proc : Succeeds(p, "ADD") =>
    /\ Recorded(Key_(p))
    /\ RecordOnDisk(Key_(p)).phase = "ready"
    /\ RecordOnDisk(Key_(p)).netns = tx[p].ns
    /\ EndpointOK(Key_(p), RecordOnDisk(Key_(p)), tx[p].ns)

(* A DEL that returns success leaves neither a record nor a link of its    *)
(* endpoint (service.go:384-417).                                          *)
DelCleans ==
  \A p \in Proc : Succeeds(p, "DEL") => ~Recorded(Key_(p)) /\ LinksOf(Key_(p)) = {}

(* As long as requests work and nobody else makes links, a DEL fails only  *)
(* in writing the file, or because the link that it found disappears with  *)
(* its namespace before it is deleted; either way no link is left. A       *)
(* namespace that disappears after its stat, and a file that is lost, are  *)
(* no obstacles (cleanup.go:17-60, service.go:384-417).                    *)
DelFailsLate ==
  [][ \A p \in Proc :
        (tx[p].op = "DEL" /\ tx[p].res # "err" /\ tx'[p].res = "err")
          => /\ LinksOf(Key_(p)) = {}
             /\ mem[p].endpoints[Key_(p)] = NoRecord \/ At(p, "link-del") ]_vars

(* Outside the rollback of its own creation, ADD deletes the link of an    *)
(* endpoint only while the file says that the endpoint is pending: if it   *)
(* dies there, nobody finds a ready record of a link it destroyed          *)
(* (service.go:219-231, endpoint/state.go:21-25).                          *)
QuarantinedBeforeDelete ==
  [][ \A p \in Proc :
        (At(p, "link-del") /\ tx[p].op = "ADD" /\ tx[p].caller # "rollback" /\ pair' # pair)
          => Recorded(Key_(p)) /\ RecordOnDisk(Key_(p)).phase = "pending" ]_vars

(* The plugin deletes a link only if it made it for the endpoint it works  *)
(* on, whatever names collide and whatever administrators create, with one *)
(* exception: the failure closure of CreateEndpoint goes by the name alone *)
(* until it has looked up the new link (cleanup.go:27, ownership.go:11-24, *)
(* veth.go:47-60).                                                         *)
OnlyOwnLinksDeleted ==
  [][ \A p \in Proc, h \in Name :
        (Run(p) /\ pair[h] # NoPair /\ pair'[h] # pair[h] /\ pair'[h] = NoPair)
          => \/ pair[h].by = Key_(p)
             \/ At(p, "undo-by-name") /\ pair[h].by = Admin
             \/ pair[h].at = Limbo ]_vars

(* An invocation takes an address out of the file only when no link under  *)
(* its host name carries it any more, also if namespaces, links and        *)
(* foreign interfaces come and go meanwhile and the file is damaged        *)
(* (service.go:160-175, 404-417, rollback.go:109-130).                     *)
ReleasedAfterDelete ==
  [][ lock # NoProc => \A k \in Key :
        (Recorded(k) /\ disk' # disk /\ disk'.endpoints[k] = NoRecord)
          => \A h \in Name : pair[h] # NoPair => pair[h].by # k ]_vars

(* Every invocation returns.                                               *)
EveryInvocationReturns == \A p \in Proc : (tx[p] # Idle) ~> (tx[p] = Idle)

(* A container that is deleted as often as it takes gives its address and  *)
(* its link back, whatever its ADDs left behind.                           *)
Reclaimed == \A k \in Key : []<>(~Recorded(k) /\ LinksOf(k) = {})

(* Each step of the plugin is a step of the state store, so what           *)
(* StoreProofs proves of the store holds here.                             *)
ImplementsStore == StoreSpec

(* The plugin keeps the address book.                                      *)
LinkState(k) ==
  IF LinksOf(k) = {} THEN "none"
  ELSE IF \A q \in LinksOf(k) : q.alias = k /\ q.peerAlias = k /\ q.routed
                                /\ q.addr = RecordOnDisk(k).ip
    THEN "complete" ELSE "partial"

Book == INSTANCE AddressBook WITH
  phase <- [k \in Key |-> IF Recorded(k) THEN RecordOnDisk(k).phase ELSE "none"],
  ip <- [k \in Key |-> IF Recorded(k) THEN RecordOnDisk(k).ip ELSE NoAddr],
  link <- [k \in Key |-> LinkState(k)]

ImplementsAddressBook == Book!BookSpec
-----------------------------------------------------------------------------
(* What docs and comments say and the program does not do.                 *)

(* docs/design-v1.md:152: if ADD dies after the veth pair was made, alias  *)
(* and pending record together are the evidence to recover from.           *)
RecoveryEvidence ==
  lock = NoProc => \A h \in Name :
    pair[h] # NoPair => pair[h].alias = pair[h].by /\ Recorded(pair[h].by)

(* README.md:125: if the clean-up of a failed ADD fails, its allocation is *)
(* quarantined as pending, also if it was the ready state that could not   *)
(* be persisted.                                                           *)
QuarantinedAsPending ==
  \A p \in Proc :
    (At(p, "unlock") /\ tx[p].caller = "rollback" /\ LinksOf(Key_(p)) # {})
      => Recorded(Key_(p)) /\ RecordOnDisk(Key_(p)).phase = "pending"

(* internal/cni/service.go:162-163: a leftover link never conflicts with a *)
(* new endpoint that was given the same address.                           *)
NoAddressConflict ==
  \A q, r \in Pairs : q.addr = r.addr /\ q.addr # NoAddr => q.by = r.by
=============================================================================
