----------------------------- MODULE LinkProofs -----------------------------
(***************************************************************************)
(* What ADD and DEL promise of the file and the links together, for any    *)
(* number of invocations, endpoints, names, namespaces and faults: the     *)
(* plugin deletes only its own links, deletes a ready endpoint only after  *)
(* the file says that it is pending, releases an address only after its    *)
(* link, and reports success only when the work is done.                   *)
(***************************************************************************)
EXTENDS CloudnetProofs

(* How a transaction moves on: to a step, to a failed end, with the rest   *)
(* of its record kept.                                                     *)
Turn(p, pc) == tx'[p].pc = pc /\ Same(tx[p], tx'[p])
Fails(p) == Turn(p, "unlock") /\ tx'[p].res = "err"
Kept(p) == /\ tx'[p].undo = tx[p].undo /\ tx'[p].caller = tx[p].caller
           /\ tx'[p].fd = tx[p].fd

CommitDone(p) == CommitClean(p) \/ CommitWritten(p)
CommitNotDone(p) == CommitRefused(p) \/ CommitUnwritten(p) \/ CommitRenamed(p)

LEMMA Becomes ==
  ASSUME CInv, NEW p \in Proc, NEW t, Become(p, t)
  PROVE  tx'[p] = t /\ tx[p] \in Tx /\ \A q \in Proc : q # p => tx'[q] = tx[q]
  BY DEF Become, CInv, TxInv

LEMMA Turns ==
  ASSUME CInv, NEW p \in Proc, NEW pc \in Steps, Goto(p, pc)
  PROVE  Turn(p, pc) /\ Kept(p) /\ tx'[p].res = tx[p].res
<1>1. tx'[p] = [tx[p] EXCEPT !.pc = pc] /\ tx[p] \in Tx  BY Becomes DEF Goto
<1>2. QED  BY <1>1 DEF Tx, Turn, Kept, Same

LEMMA Ends ==
  ASSUME CInv, NEW p \in Proc, NEW res \in {"ok", "err"}, Become(p, Ended(p, res))
  PROVE  Turn(p, "unlock") /\ tx'[p].res = res
<1>1. tx'[p] = Ended(p, res) /\ tx[p] \in Tx  BY Becomes
<1>2. QED  BY <1>1 DEF Tx, Turn, Same, Ended

LEMMA Fetched ==
  ASSUME CInv, NEW p \in Proc, LoadFails(p) \/ Return(p) \/ Crash(p)
  PROVE  tx'[p].pc = "idle"
  BY Becomes DEF LoadFails, Return, Crash, Idle

(* The outcomes of each step, with r the transaction before it and t the    *)
(* one after it.                                                            *)
LEMMA LoadOutcome ==
  ASSUME CInv, NEW p \in Proc, Load(p)
  PROVE  /\ loadState(p) /\ UNCHANGED kernelVars /\ tx[p].pc = "load"
         /\ tx'[p].undo = <<>>
         /\ \/ Turn(p, "allocate") /\ tx[p].op = "ADD"
            \/ Turn(p, "check") /\ tx[p].op = "CHECK"
            \/ Turn(p, "find-host") /\ tx[p].op = "DEL" /\ tx'[p].caller = "delete-endpoint"
<1> DEFINE r == tx[p]
<1>1. /\ loadState(p) /\ UNCHANGED kernelVars /\ r.pc = "load"
      /\ r \in Tx /\ Sound(r, mem[p])
  BY Here DEF Load, At
<1>2. r.op \in {"ADD", "CHECK", "DEL"} /\ r.undo = <<>>
  BY <1>1, CloudnetAssumption DEF Sound, Registered
<1>3. CASE r.op = "ADD"
  <2>1. tx'[p] = [r EXCEPT !.pc = "allocate"]  BY <1>3, Becomes DEF Load
  <2>2. QED  BY <1>1, <1>2, <1>3, <2>1 DEF Tx, Turn, Same
<1>4. CASE r.op = "CHECK"
  <2>1. tx'[p] = [r EXCEPT !.pc = "check"]  BY <1>4, Becomes DEF Load
  <2>2. QED  BY <1>1, <1>2, <1>4, <2>1 DEF Tx, Turn, Same
<1>5. CASE r.op = "DEL"
  <2>1. tx'[p] = [r EXCEPT !.pc = "find-host", !.caller = "delete-endpoint"]
    BY <1>5, Becomes DEF Load
  <2>2. QED  BY <1>1, <1>2, <1>5, <2>1 DEF Tx, Turn, Same
<1>6. QED  BY <1>2, <1>3, <1>4, <1>5

LEMMA AllocateOutcome ==
  ASSUME CInv, NEW p \in Proc, AddAllocate(p)
  PROVE  LET k == tx[p].key IN
         /\ Allocate(p, k, tx[p].config, tx[p].ns)
         /\ UNCHANGED kernelVars /\ tx[p].pc = "allocate"
         /\ \/ ~HasEndpoint(mem[p], k) /\ Turn(p, "persist-pending")
            \/ /\ HasEndpoint(mem[p], k) /\ mem[p].endpoints[k].phase = "pending"
               /\ Turn(p, "find-host") /\ tx'[p].caller = "recover-pending"
               /\ tx'[p].undo = <<"release">>
            \/ /\ HasEndpoint(mem[p], k) /\ mem[p].endpoints[k].phase # "pending"
               /\ Turn(p, "ensure-bridge") /\ tx'[p].undo = <<>>
<1> DEFINE r == tx[p]
           k == r.key
<1>1. /\ Allocate(p, k, r.config, r.ns) /\ UNCHANGED kernelVars /\ r.pc = "allocate"
      /\ r \in Tx /\ Sound(r, mem[p])
  BY Here DEF AddAllocate, At, Key_
<1>2. r.undo = <<>>  BY <1>1 DEF Sound, Registered
<1>3. CASE ~HasEndpoint(mem[p], k)
  <2>1. tx'[p] = [r EXCEPT !.pc = "persist-pending"]
    BY <1>3, Becomes DEF AddAllocate, Key_
  <2>2. QED  BY <1>1, <1>3, <2>1 DEF Tx, Turn, Same
<1>4. CASE HasEndpoint(mem[p], k) /\ mem[p].endpoints[k].phase = "pending"
  <2>1. tx'[p] = [r EXCEPT !.pc = "find-host", !.caller = "recover-pending",
                           !.undo = <<"release">>]
    BY <1>4, Becomes DEF AddAllocate, Key_, RecordOf
  <2>2. QED  BY <1>1, <1>4, <2>1 DEF Tx, Turn, Same
<1>5. CASE HasEndpoint(mem[p], k) /\ mem[p].endpoints[k].phase # "pending"
  <2>1. tx'[p] = [r EXCEPT !.pc = "ensure-bridge"]
    BY <1>5, Becomes DEF AddAllocate, Key_, RecordOf
  <2>2. QED  BY <1>1, <1>2, <1>5, <2>1 DEF Tx, Turn, Same
<1>6. QED  BY <1>1, <1>3, <1>4, <1>5

LEMMA BridgeOutcome ==
  ASSUME CInv, NEW p \in Proc, AddEnsureBridge(p)
  PROVE  /\ UNCHANGED <<storeVars, kernelVars>> /\ tx[p].pc = "ensure-bridge" /\ Kept(p)
         /\ \/ /\ mem[p].endpoints[tx[p].key].phase = "ready"
               /\ tx[p].undo = <<>> /\ Turn(p, "idempotency-check")
            \/ /\ mem[p].endpoints[tx[p].key].phase # "ready"
               /\ tx[p].undo = <<"release">> /\ Turn(p, "create-veth")
            \/ Turn(p, "rollback")
<1>1. /\ UNCHANGED <<storeVars, kernelVars>> /\ tx[p].pc = "ensure-bridge"
      /\ \/ Goto(p, IF mem[p].endpoints[tx[p].key].phase = "ready"
                      THEN "idempotency-check" ELSE "create-veth")
         \/ Goto(p, "rollback")
  BY DEF AddEnsureBridge, At, RecordOf, Key_
<1>2. {"idempotency-check", "create-veth", "rollback"} \subseteq Steps
  BY DEF Steps, Holding
<1>3. Sound(tx[p], mem[p])  BY Here
<1>4. mem[p].endpoints[tx[p].key].phase = "ready" => tx[p].undo = <<>>
  BY <1>1, <1>3 DEF Sound, Registered
<1>5. mem[p].endpoints[tx[p].key].phase # "ready" => tx[p].undo = <<"release">>
  BY <1>1, <1>3 DEF Sound, Registered
<1>6. CASE Goto(p, "rollback")  BY <1>1, <1>2, <1>6, Turns
<1>7. CASE mem[p].endpoints[tx[p].key].phase = "ready" /\ Goto(p, "idempotency-check")
  BY <1>1, <1>2, <1>4, <1>7, Turns
<1>8. CASE mem[p].endpoints[tx[p].key].phase # "ready" /\ Goto(p, "create-veth")
  BY <1>1, <1>2, <1>5, <1>8, Turns
<1>9. QED  BY <1>1, <1>6, <1>7, <1>8

LEMMA IdempotencyOutcome ==
  ASSUME CInv, NEW p \in Proc, IdempotencyCheck(p)
  PROVE  /\ UNCHANGED <<storeVars, kernelVars>> /\ tx[p].pc = "idempotency-check"
         /\ \/ /\ EndpointOK(tx[p].key, mem[p].endpoints[tx[p].key], tx[p].ns)
               /\ Turn(p, "finish")
            \/ Turn(p, "reconcile-pending") /\ Kept(p)
<1>1. /\ UNCHANGED <<storeVars, kernelVars>> /\ tx[p].pc = "idempotency-check"
      /\ \/ /\ EndpointOK(tx[p].key, mem[p].endpoints[tx[p].key], tx[p].ns)
            /\ Become(p, [tx[p] EXCEPT !.pc = "finish", !.undo = <<>>])
         \/ Goto(p, "reconcile-pending")
  BY DEF IdempotencyCheck, At, RecordOf, Key_
<1>2. CASE Goto(p, "reconcile-pending")
  BY <1>1, <1>2, Turns DEF Steps, Holding
<1>3. CASE Become(p, [tx[p] EXCEPT !.pc = "finish", !.undo = <<>>])
  <2>1. tx'[p] = [tx[p] EXCEPT !.pc = "finish", !.undo = <<>>] /\ tx[p] \in Tx
    BY <1>3, Becomes
  <2>2. Turn(p, "finish")  BY <2>1 DEF Tx, Turn, Same
  <2>3. CASE EndpointOK(tx[p].key, mem[p].endpoints[tx[p].key], tx[p].ns)
    BY <1>1, <2>2, <2>3
  <2>4. CASE Goto(p, "reconcile-pending")  BY <1>2, <2>4
  <2>5. QED  BY <1>1, <2>3, <2>4
<1>4. QED  BY <1>1, <1>2, <1>3

LEMMA MarkOutcome ==
  ASSUME CInv, NEW p \in Proc, ReconcilePending(p) \/ AddMarkReady(p)
  PROVE  /\ UNCHANGED kernelVars /\ Kept(p)
         /\ \/ /\ tx[p].pc = "reconcile-pending" /\ MarkPhase(p, tx[p].key, "pending")
               /\ Turn(p, "persist-reconcile")
            \/ /\ tx[p].pc = "mark-ready" /\ MarkPhase(p, tx[p].key, "ready")
               /\ Turn(p, "persist-ready")
<1>1. CASE ReconcilePending(p)
  BY <1>1, Turns DEF ReconcilePending, At, Key_, Steps, Holding
<1>2. CASE AddMarkReady(p)
  BY <1>2, Turns DEF AddMarkReady, At, Key_, Steps, Holding
<1>3. QED  BY <1>1, <1>2

LEMMA PreflightOutcome ==
  ASSUME CInv, NEW p \in Proc, Preflight(p)
  PROVE  /\ UNCHANGED <<storeVars, kernelVars>> /\ tx[p].pc = "create-veth"
         /\ tx'[p].undo = <<"release", "delete">>
         /\ \/ /\ nsUp[tx[p].ns] /\ pair[HostName[tx[p].key]] = NoPair
               /\ Turn(p, "link-add") /\ tx'[p].fd = tx[p].ns
            \/ Turn(p, "rollback")
<1> DEFINE r == tx[p]
           armed == [r EXCEPT !.undo = Append(@, "delete")]
           both == Append(r.undo, "delete")
<1>1. r \in Tx /\ Sound(r, mem[p])  BY Here
<1>2. /\ UNCHANGED <<storeVars, kernelVars>> /\ r.pc = "create-veth"
      /\ \/ /\ nsUp[r.ns] /\ pair[HostName[r.key]] = NoPair
            /\ Become(p, [armed EXCEPT !.pc = "link-add", !.fd = r.ns])
         \/ Become(p, [armed EXCEPT !.pc = "rollback"])
  BY DEF Preflight, At, Host, Key_
<1>3. both = <<"release", "delete">>
  BY <1>1, <1>2, Stacks DEF Sound, Registered
<1>4. armed = [r EXCEPT !.undo = both]  BY <1>1 DEF Tx
<1> HIDE DEF both
<1>5. ASSUME Become(p, [armed EXCEPT !.pc = "link-add", !.fd = r.ns])
      PROVE  /\ Turn(p, "link-add") /\ tx'[p].fd = r.ns
             /\ tx'[p].undo = <<"release", "delete">>
  <2>1. tx'[p] = [armed EXCEPT !.pc = "link-add", !.fd = r.ns]  BY <1>5, Becomes
  <2>2. QED  BY <1>1, <1>3, <1>4, <2>1 DEF Tx, Turn, Same
<1>6. ASSUME Become(p, [armed EXCEPT !.pc = "rollback"])
      PROVE  Turn(p, "rollback") /\ tx'[p].undo = <<"release", "delete">>
  <2>1. tx'[p] = [armed EXCEPT !.pc = "rollback"]  BY <1>6, Becomes
  <2>2. QED  BY <1>1, <1>3, <1>4, <2>1 DEF Tx, Turn, Same
<1>7. QED  BY <1>2, <1>5, <1>6

LEMMA CommitOutcome ==
  ASSUME CInv, NEW p \in Proc, NEW done, NEW failed, CommitThen(p, done, failed)
  PROVE  \/ CommitDone(p) /\ tx'[p] = done
         \/ CommitNotDone(p) /\ tx'[p] = failed
<1>1. \/ CommitDone(p) /\ Become(p, done)
      \/ CommitNotDone(p) /\ Become(p, failed)
  BY DEF CommitThen, CommitDone, CommitNotDone
<1>2. QED  BY <1>1, Becomes

LEMMA PersistOutcome ==
  ASSUME CInv, NEW p \in Proc,
         Finish(p) \/ PersistPending(p) \/ PersistReconcile(p) \/ PersistReady(p)
           \/ PersistRelease(p)
  PROVE  /\ UNCHANGED kernelVars
         /\ \/ /\ tx[p].pc = "finish"
               /\ \/ CommitDone(p) /\ Turn(p, "unlock") /\ tx'[p].res = "ok"
                  \/ CommitNotDone(p) /\ Fails(p)
            \/ /\ tx[p].pc = "persist-pending"
               /\ \/ CommitDone(p) /\ Turn(p, "ensure-bridge") /\ tx'[p].undo = <<"release">>
                  \/ CommitNotDone(p) /\ Fails(p)
            \/ /\ tx[p].pc = "persist-reconcile"
               /\ \/ /\ CommitDone(p) /\ Turn(p, "find-host")
                     /\ tx'[p].caller = "reconcile-delete"
                  \/ CommitNotDone(p) /\ Fails(p)
            \/ /\ tx[p].pc = "persist-ready"
               /\ \/ CommitDone(p) /\ Turn(p, "finish")
                  \/ CommitNotDone(p) /\ Turn(p, "rollback") /\ tx'[p].undo = tx[p].undo
            \/ /\ tx[p].pc = "persist-release"
               /\ CommitDone(p) \/ CommitNotDone(p)
               /\ Turn(p, "rollback") /\ tx'[p].undo = <<>>
<1> DEFINE r == tx[p]
<1>1. r \in Tx /\ Sound(r, mem[p])  BY Here
<1>2. ASSUME NEW res \in {"ok", "err"}, tx'[p] = Ended(p, res)
      PROVE  Turn(p, "unlock") /\ tx'[p].res = res
  BY <1>1, <1>2 DEF Tx, Turn, Same, Ended
<1>3. CASE Finish(p)
  <2>1. /\ UNCHANGED kernelVars /\ r.pc = "finish"
        /\ CommitThen(p, Ended(p, "ok"), Ended(p, "err"))
    BY <1>3 DEF Finish, At
  <2>2. QED  BY <1>2, <2>1, CommitOutcome DEF Fails
<1>4. CASE PersistPending(p)
  <2> DEFINE t == [r EXCEPT !.pc = "ensure-bridge", !.undo = <<"release">>]
  <2>1. /\ UNCHANGED kernelVars /\ r.pc = "persist-pending"
        /\ CommitThen(p, t, Ended(p, "err"))
    BY <1>4 DEF PersistPending, At
  <2>2. tx'[p] = t => Turn(p, "ensure-bridge") /\ tx'[p].undo = <<"release">>
    BY <1>1 DEF Tx, Turn, Same
  <2> HIDE DEF t
  <2>3. QED  BY <1>2, <2>1, <2>2, CommitOutcome DEF Fails
<1>5. CASE PersistReconcile(p)
  <2> DEFINE t == [r EXCEPT !.pc = "find-host", !.caller = "reconcile-delete"]
  <2>1. /\ UNCHANGED kernelVars /\ r.pc = "persist-reconcile"
        /\ CommitThen(p, t, Ended(p, "err"))
    BY <1>5 DEF PersistReconcile, At
  <2>2. tx'[p] = t => Turn(p, "find-host") /\ tx'[p].caller = "reconcile-delete"
    BY <1>1 DEF Tx, Turn, Same
  <2> HIDE DEF t
  <2>3. QED  BY <1>2, <2>1, <2>2, CommitOutcome DEF Fails
<1>6. CASE PersistReady(p)
  <2> DEFINE t == [r EXCEPT !.pc = "finish", !.undo = <<>>]
             f == [r EXCEPT !.pc = "rollback"]
  <2>1. /\ UNCHANGED kernelVars /\ r.pc = "persist-ready" /\ CommitThen(p, t, f)
    BY <1>6 DEF PersistReady, At
  <2>2. tx'[p] = t => Turn(p, "finish")  BY <1>1 DEF Tx, Turn, Same
  <2>3. tx'[p] = f => Turn(p, "rollback") /\ tx'[p].undo = r.undo
    BY <1>1 DEF Tx, Turn, Same
  <2> HIDE DEF t, f
  <2>4. QED  BY <2>1, <2>2, <2>3, CommitOutcome
<1>7. CASE PersistRelease(p)
  <2> DEFINE f == [r EXCEPT !.pc = "rollback"]
  <2>1. /\ UNCHANGED kernelVars /\ r.pc = "persist-release" /\ CommitThen(p, f, f)
    BY <1>7 DEF PersistRelease, At
  <2>2. r.undo = <<>>  BY <1>1, <2>1 DEF Sound, Registered
  <2>3. tx'[p] = f => Turn(p, "rollback") /\ tx'[p].undo = <<>>
    BY <1>1, <2>2 DEF Tx, Turn, Same
  <2> HIDE DEF f
  <2>4. QED  BY <2>1, <2>3, CommitOutcome
<1>8. QED  BY <1>3, <1>4, <1>5, <1>6, <1>7

(* The steps of CreateEndpoint: what they do to the pair, and how they fail. *)
NewPairOf(k) == [by |-> k, alias |-> NoKey, peerAlias |-> NoKey, at |-> HostNS,
                 addr |-> NoAddr, routed |-> FALSE]

(* The transaction goes on and takes its rollback stack with it. *)
Onward(p, pc) == Turn(p, pc) /\ tx'[p].undo = tx[p].undo

LEMMA LinkAddOutcome ==
  ASSUME CInv, NEW p \in Proc, LinkAdd(p)
  PROVE  /\ UNCHANGED <<storeVars, stray, nsUp, foreign>> /\ tx[p].pc = "link-add"
         /\ \/ /\ pair' = [pair EXCEPT ![HostName[tx[p].key]] = NewPairOf(tx[p].key)]
               /\ Turn(p, "alias-host") /\ Kept(p)
            \/ pair' = AfterClose(pair) /\ Onward(p, "rollback")
<1>1. /\ UNCHANGED <<storeVars, stray, nsUp, foreign>> /\ tx[p].pc = "link-add"
      /\ \/ /\ pair' = [pair EXCEPT ![HostName[tx[p].key]] = NewPairOf(tx[p].key)]
            /\ Goto(p, "alias-host")
         \/ /\ pair' = AfterClose(pair)
            /\ Become(p, [tx[p] EXCEPT !.pc = "rollback", !.fd = NoNS])
  BY DEF LinkAdd, At, Host, Key_, NewPairOf
<1>2. Goto(p, "alias-host") => Turn(p, "alias-host") /\ Kept(p)
  BY Turns DEF Steps, Holding, Creating
<1>3. Become(p, [tx[p] EXCEPT !.pc = "rollback", !.fd = NoNS]) => Onward(p, "rollback")
  <2>1. SUFFICES ASSUME Become(p, [tx[p] EXCEPT !.pc = "rollback", !.fd = NoNS])
                 PROVE  Onward(p, "rollback")
    OBVIOUS
  <2>2. tx'[p] = [tx[p] EXCEPT !.pc = "rollback", !.fd = NoNS] /\ tx[p] \in Tx
    BY <2>1, Becomes
  <2>3. QED  BY <2>2 DEF Tx, Turn, Same, Onward
<1>4. QED  BY <1>1, <1>2, <1>3

LEMMA AliasHostOutcome ==
  ASSUME CInv, NEW p \in Proc, AliasHost(p)
  PROVE  LET k == tx[p].key  h == HostName[k] IN
         /\ UNCHANGED <<storeVars, stray, nsUp, foreign>> /\ tx[p].pc = "alias-host"
         /\ Kept(p)
         /\ \/ /\ pair[h] # NoPair /\ pair[h].by = k
               /\ pair' = [pair EXCEPT ![h] = [pair[h] EXCEPT !.alias = k]]
               /\ Turn(p, "alias-peer")
            \/ pair' = pair /\ Turn(p, "undo-by-name")
<1> DEFINE k == tx[p].key
           h == HostName[k]
<1>1. /\ UNCHANGED <<storeVars, stray, nsUp, foreign>> /\ tx[p].pc = "alias-host"
      /\ \/ /\ pair[h] # NoPair /\ pair[h].by = k
            /\ pair' = [pair EXCEPT ![h].alias = k] /\ Goto(p, "alias-peer")
         \/ pair' = pair /\ Goto(p, "undo-by-name")
  BY DEF AliasHost, At, Host, Key_, Made
<1>2. {"alias-peer", "undo-by-name"} \subseteq Steps  BY DEF Steps, Holding, Creating
<1>3. [pair EXCEPT ![h].alias = k] = [pair EXCEPT ![h] = [pair[h] EXCEPT !.alias = k]]
  OBVIOUS
<1>4. QED  BY <1>1, <1>2, <1>3, Turns

LEMMA CreateOutcome ==
  ASSUME CInv, NEW p \in Proc, NEW from, NEW to \in Steps, NEW possible, NEW changed,
         CreateStep(p, from, to, possible, changed)
  PROVE  /\ UNCHANGED <<storeVars, stray, nsUp, foreign>> /\ tx[p].pc = from /\ Kept(p)
         /\ \/ /\ possible /\ pair' = [pair EXCEPT ![HostName[tx[p].key]] = changed]
               /\ Turn(p, to)
            \/ pair' = pair /\ Turn(p, "undo-create")
<1>1. /\ UNCHANGED <<storeVars, stray, nsUp, foreign>> /\ tx[p].pc = from
      /\ \/ /\ possible /\ pair' = [pair EXCEPT ![HostName[tx[p].key]] = changed]
            /\ Goto(p, to)
         \/ pair' = pair /\ Goto(p, "undo-create")
  BY DEF CreateStep, CreateFails, At, Host, Key_, kernelVars
<1>2. "undo-create" \in Steps  BY DEF Steps, Holding, Creating
<1>3. QED  BY <1>1, <1>2, Turns

LEMMA VerifyOutcome ==
  ASSUME CInv, NEW p \in Proc, VerifyHost(p)
  PROVE  /\ UNCHANGED <<storeVars, stray, nsUp, foreign>> /\ tx[p].pc = "verify-host"
         /\ \/ /\ Owned(HostName[tx[p].key], tx[p].key)
               /\ pair' = AfterClose(pair) /\ Onward(p, "mark-ready")
            \/ pair' = pair /\ Turn(p, "undo-create") /\ Kept(p)
<1>1. /\ UNCHANGED <<storeVars, stray, nsUp, foreign>> /\ tx[p].pc = "verify-host"
      /\ \/ /\ Owned(HostName[tx[p].key], tx[p].key) /\ pair' = AfterClose(pair)
            /\ Become(p, [tx[p] EXCEPT !.pc = "mark-ready", !.fd = NoNS])
         \/ pair' = pair /\ Goto(p, "undo-create")
  BY DEF VerifyHost, CreateFails, At, Host, Key_, kernelVars
<1>2. CASE Goto(p, "undo-create") /\ pair' = pair
  BY <1>1, <1>2, Turns DEF Steps, Holding, Creating
<1>3. CASE /\ Owned(HostName[tx[p].key], tx[p].key) /\ pair' = AfterClose(pair)
           /\ Become(p, [tx[p] EXCEPT !.pc = "mark-ready", !.fd = NoNS])
  <2>1. tx'[p] = [tx[p] EXCEPT !.pc = "mark-ready", !.fd = NoNS] /\ tx[p] \in Tx
    BY <1>3, Becomes
  <2>2. Onward(p, "mark-ready")  BY <2>1 DEF Tx, Turn, Same, Onward
  <2>3. QED  BY <1>1, <1>3, <2>2
<1>4. QED  BY <1>1, <1>2, <1>3

LEMMA UndoOutcome ==
  ASSUME CInv, NEW p \in Proc, UndoCreate(p)
  PROVE  LET k == tx[p].key  h == HostName[k] IN
         /\ UNCHANGED <<storeVars, stray, nsUp, foreign>> /\ Onward(p, "rollback")
         /\ tx[p].pc \in {"undo-create", "undo-by-name"}
         /\ \/ pair' = AfterClose(pair)
            \/ /\ pair[h] # NoPair /\ (tx[p].pc = "undo-create" => pair[h].by = k)
               /\ pair' = AfterClose([pair EXCEPT ![h] = NoPair])
<1>1. /\ UNCHANGED <<storeVars, stray, nsUp, foreign>>
      /\ tx[p].pc \in {"undo-create", "undo-by-name"}
      /\ Become(p, [tx[p] EXCEPT !.pc = "rollback", !.fd = NoNS])
  BY DEF UndoCreate, At
<1>2. tx'[p] = [tx[p] EXCEPT !.pc = "rollback", !.fd = NoNS] /\ tx[p] \in Tx
  BY <1>1, Becomes
<1>3. Onward(p, "rollback")  BY <1>2 DEF Tx, Turn, Same, Onward
<1>4. QED  BY <1>1, <1>3 DEF UndoCreate, UndoTarget, At, Made, Host, Key_

(* DeleteEndpoint, with its return to each caller. *)
Returns(p) ==
  \/ /\ tx[p].caller = "recover-pending" /\ Turn(p, "ensure-bridge")
     /\ tx'[p].undo = <<"release">>
  \/ /\ tx[p].caller = "reconcile-delete" /\ Turn(p, "create-veth")
     /\ tx'[p].undo = <<"release">>
  \/ tx[p].caller = "rollback" /\ Turn(p, "rollback") /\ tx'[p].undo = <<"release">>
  \/ tx[p].caller = "delete-endpoint" /\ Turn(p, "release")

GivesUp(p) ==
  \/ Fails(p)
  \/ tx[p].caller = "rollback" /\ Turn(p, "rollback") /\ tx'[p].undo = <<>>

LEMMA ReturnsFrom ==
  ASSUME CInv, NEW p \in Proc, tx[p].pc \in Deleting
  PROVE  /\ Become(p, Deleted(p)) => Returns(p)
         /\ Become(p, NotDeleted(p)) => GivesUp(p)
<1> DEFINE r == tx[p]
<1>1. r \in Tx /\ Sound(r, mem[p])  BY Here
<1>2. r.caller \in Callers  BY <1>1 DEF Sound
<1>3. ASSUME Become(p, Deleted(p)) PROVE Returns(p)
  <2>1. tx'[p] = Deleted(p)  BY <1>3, Becomes
  <2>2. CASE r.caller = "recover-pending"
    <3>1. tx'[p] = [r EXCEPT !.pc = "ensure-bridge"] /\ r.undo = <<"release">>
      BY <1>1, <2>1, <2>2 DEF Deleted, Sound, Registered
    <3>2. QED  BY <1>1, <2>2, <3>1 DEF Tx, Turn, Same, Returns
  <2>3. CASE r.caller = "reconcile-delete"
    <3> DEFINE one == Append(r.undo, "release")
    <3>1. one = <<"release">>  BY <1>1, <2>3, Stacks DEF Sound, Registered
    <3>2. tx'[p] = [r EXCEPT !.pc = "create-veth", !.undo = one]
      BY <1>1, <2>1, <2>3 DEF Deleted, Tx
    <3> HIDE DEF one
    <3>3. QED  BY <1>1, <2>3, <3>1, <3>2 DEF Tx, Turn, Same, Returns
  <2>4. CASE r.caller = "rollback"
    <3> DEFINE one == Front(r.undo)
    <3>1. one = <<"release">>  BY <1>1, <2>4, Stacks DEF Sound, Registered, Armed
    <3>2. tx'[p] = [r EXCEPT !.pc = "rollback", !.undo = one]
      BY <1>1, <2>1, <2>4 DEF Deleted, Tx
    <3> HIDE DEF one
    <3>3. QED  BY <1>1, <2>4, <3>1, <3>2 DEF Tx, Turn, Same, Returns
  <2>5. CASE r.caller = "delete-endpoint"
    <3>1. tx'[p] = [r EXCEPT !.pc = "release"]  BY <2>1, <2>5 DEF Deleted
    <3>2. QED  BY <1>1, <2>5, <3>1 DEF Tx, Turn, Same, Returns
  <2>6. QED  BY <1>2, <2>2, <2>3, <2>4, <2>5 DEF Callers
<1>4. ASSUME Become(p, NotDeleted(p)) PROVE GivesUp(p)
  <2>1. tx'[p] = NotDeleted(p)  BY <1>4, Becomes
  <2>2. CASE r.caller = "rollback"
    <3>1. tx'[p] = [r EXCEPT !.pc = "rollback", !.undo = <<>>]
      BY <2>1, <2>2 DEF NotDeleted
    <3>2. QED  BY <1>1, <2>2, <3>1 DEF Tx, Turn, Same, GivesUp
  <2>3. CASE r.caller # "rollback"
    <3>1. tx'[p] = Ended(p, "err")  BY <2>1, <2>3 DEF NotDeleted
    <3>2. QED  BY <1>1, <3>1 DEF Tx, Turn, Same, GivesUp, Fails, Ended
  <2>4. QED  BY <2>2, <2>3
<1>5. QED  BY <1>3, <1>4

LEMMA DeleteOutcome ==
  ASSUME CInv, NEW p \in Proc, FindHost(p) \/ LinkDel(p) \/ StatPeer(p) \/ FindPeer(p)
  PROVE  LET k == tx[p].key  h == HostName[k] IN
         /\ UNCHANGED <<storeVars, nsUp, foreign>> /\ stray' \subseteq stray
         /\ tx[p].pc \in Deleting
         /\ \/ /\ tx[p].pc = "find-host" /\ Turn(p, "link-del") /\ Kept(p) /\ pair' = pair
            \/ /\ tx[p].pc = "find-host" /\ pair[h] = NoPair
               /\ Turn(p, "stat-peer") /\ Kept(p) /\ pair' = pair
            \/ tx[p].pc = "find-host" /\ pair[h] = NoPair /\ Returns(p) /\ pair' = pair
            \/ /\ tx[p].pc = "link-del" /\ Owned(h, k) /\ Returns(p)
               /\ pair' = [pair EXCEPT ![h] = NoPair]
            \/ tx[p].pc = "stat-peer" /\ Turn(p, "find-peer") /\ Kept(p) /\ pair' = pair
            \/ tx[p].pc \in {"stat-peer", "find-peer"} /\ Returns(p) /\ pair' = pair
            \/ GivesUp(p) /\ pair' = pair
<1> DEFINE h == HostName[tx[p].key]
<1>1. {"link-del", "stat-peer", "find-peer"} \subseteq Steps  BY DEF Steps, Deleting
<1>2. CASE FindHost(p)
  <2>1. /\ UNCHANGED <<storeVars, kernelVars>> /\ tx[p].pc = "find-host"
        /\ \/ Goto(p, "link-del")
           \/ pair[h] = NoPair /\ Goto(p, "stat-peer")
           \/ pair[h] = NoPair /\ Become(p, Deleted(p))
           \/ Become(p, NotDeleted(p))
    BY <1>2 DEF FindHost, At, Host, Key_
  <2>2. UNCHANGED <<nsUp, foreign, stray, pair>>  BY <2>1 DEF kernelVars
  <2>3. tx[p].pc \in Deleting  BY <2>1 DEF Deleting
  <2>4. QED  BY <1>1, <2>1, <2>2, <2>3, Turns, ReturnsFrom
<1>3. CASE LinkDel(p)
  <2>1. /\ UNCHANGED <<storeVars, stray, nsUp, foreign>> /\ tx[p].pc = "link-del"
        /\ \/ /\ Owned(h, tx[p].key) /\ pair' = [pair EXCEPT ![h] = NoPair]
              /\ Become(p, Deleted(p))
           \/ Become(p, NotDeleted(p)) /\ pair' = pair
    BY <1>3 DEF LinkDel, At, Host, Key_
  <2>2. tx[p].pc \in Deleting  BY <2>1 DEF Deleting
  <2>3. QED  BY <2>1, <2>2, ReturnsFrom
<1>4. CASE StatPeer(p)
  <2>1. /\ UNCHANGED <<storeVars, kernelVars>> /\ tx[p].pc = "stat-peer"
        /\ Goto(p, "find-peer") \/ Become(p, Deleted(p)) \/ Become(p, NotDeleted(p))
    BY <1>4 DEF StatPeer, At
  <2>2. UNCHANGED <<nsUp, foreign, stray, pair>>  BY <2>1 DEF kernelVars
  <2>3. tx[p].pc \in Deleting  BY <2>1 DEF Deleting
  <2>4. QED  BY <1>1, <2>1, <2>2, <2>3, Turns, ReturnsFrom
<1>5. CASE FindPeer(p)
  <2>1. /\ UNCHANGED <<storeVars, pair, nsUp, foreign>> /\ tx[p].pc = "find-peer"
        /\ stray' \subseteq stray
        /\ Become(p, Deleted(p)) \/ Become(p, NotDeleted(p))
    BY <1>5 DEF FindPeer, At
  <2>2. tx[p].pc \in Deleting  BY <2>1 DEF Deleting
  <2>3. QED  BY <2>1, <2>2, ReturnsFrom
<1>6. QED  BY <1>2, <1>3, <1>4, <1>5

LEMMA RollbackOutcome ==
  ASSUME CInv, NEW p \in Proc, RollbackDelete(p) \/ RollbackRelease(p) \/ RollbackEnds(p)
  PROVE  /\ UNCHANGED kernelVars /\ tx[p].pc = "rollback"
         /\ \/ /\ UNCHANGED storeVars /\ Turn(p, "find-host")
               /\ tx'[p].caller = "rollback"
            \/ /\ tx[p].undo = <<"release">> /\ Release(p, tx[p].key)
               /\ Turn(p, "persist-release")
            \/ UNCHANGED storeVars /\ Fails(p)
<1> DEFINE r == tx[p]
<1>1. r \in Tx /\ r.undo \in {<<>>, <<"release">>, <<"release", "delete">>}
  BY Here DEF Tx
<1>2. CASE RollbackDelete(p)
  <2>1. /\ UNCHANGED storeVars /\ UNCHANGED kernelVars /\ r.pc = "rollback"
        /\ Become(p, [r EXCEPT !.pc = "find-host", !.caller = "rollback"])
    BY <1>2 DEF RollbackDelete, At
  <2>2. tx'[p] = [r EXCEPT !.pc = "find-host", !.caller = "rollback"]  BY <2>1, Becomes
  <2>3. QED  BY <1>1, <2>1, <2>2 DEF Tx, Turn, Same
<1>3. CASE RollbackRelease(p)
  <2> DEFINE rest == Front(r.undo)
  <2>1. /\ UNCHANGED kernelVars /\ r.pc = "rollback" /\ Release(p, r.key)
        /\ r.undo # <<>> /\ Last(r.undo) = "release"
        /\ Become(p, [r EXCEPT !.pc = "persist-release", !.undo = rest])
    BY <1>1, <1>3 DEF RollbackRelease, At, Key_, Tx
  <2>2. r.undo = <<"release">>  BY <1>1, <2>1, Stacks
  <2>3. tx'[p] = [r EXCEPT !.pc = "persist-release", !.undo = rest]  BY <2>1, Becomes
  <2> HIDE DEF rest
  <2>4. QED  BY <1>1, <2>1, <2>2, <2>3 DEF Tx, Turn, Same
<1>4. CASE RollbackEnds(p)
  <2>1. /\ UNCHANGED storeVars /\ UNCHANGED kernelVars /\ r.pc = "rollback"
        /\ Become(p, Ended(p, "err"))
    BY <1>4 DEF RollbackEnds, At
  <2>2. QED  BY <2>1, Ends DEF Fails
<1>5. QED  BY <1>2, <1>3, <1>4

LEMMA FinalOutcome ==
  ASSUME CInv, NEW p \in Proc, DelRelease(p) \/ Check(p) \/ AddAllocateFails(p)
  PROVE  /\ UNCHANGED kernelVars
         /\ \/ tx[p].pc = "release" /\ Release(p, tx[p].key) /\ Turn(p, "finish")
            \/ tx[p].pc = "check" /\ UNCHANGED storeVars /\ Turn(p, "finish")
            \/ UNCHANGED storeVars /\ Fails(p) /\ tx[p].pc \in {"check", "allocate"}
<1>1. "finish" \in Steps  BY DEF Steps
<1>2. CASE DelRelease(p)
  BY <1>1, <1>2, Turns DEF DelRelease, At, Key_
<1>3. CASE Check(p)
  <2>1. /\ UNCHANGED storeVars /\ UNCHANGED kernelVars /\ tx[p].pc = "check"
        /\ Goto(p, "finish") \/ Become(p, Ended(p, "err"))
    BY <1>3 DEF Check, At
  <2>2. QED  BY <1>1, <2>1, Turns, Ends DEF Fails
<1>4. CASE AddAllocateFails(p)
  BY <1>4, Ends DEF AddAllocateFails, At, Fails
<1>5. QED  BY <1>2, <1>3, <1>4

-----------------------------------------------------------------------------
(* What the operations of the store do to the entries of the copy.          *)
LEMMA AllocateEntries ==
  ASSUME CInv, NEW p \in Proc, NEW k \in Key, NEW c \in Config, NEW n \in NetNS,
         Allocate(p, k, c, n)
  PROVE  LET new == mem'[p].endpoints  old == mem[p].endpoints IN
         /\ \A j \in Key \ {k} : new[j] = old[j]
         /\ new[k] \in Record /\ new[k].netns = n
         /\ HasEndpoint(mem[p], k) => /\ old[k] \in Record /\ new[k].ip = old[k].ip
                                      /\ new[k].phase = old[k].phase
         /\ ~HasEndpoint(mem[p], k) => new[k].phase = "pending"
<1> DEFINE s == mem[p]
<1>1. s \in State /\ mem \in [Proc -> State]  BY Here
<1>2. s.endpoints \in [Key -> Record \cup {NoRecord}]  BY <1>1 DEF State
<1>3. PICK t \in Clock : Update(p, AllocateResult(s, k, c, n, t))  BY DEF Allocate
<1>4. t \in BOOLEAN  BY StoreStateAssumption
<1>5. mem'[p] = AllocateResult(s, k, c, n, t)  BY <1>1, <1>3 DEF Update
<1>6. /\ mem'[p].endpoints[k] \in Record
      /\ mem'[p].endpoints[k].phase =
           IF HasEndpoint(s, k) THEN s.endpoints[k].phase ELSE "pending"
  BY AllocatedRecord
<1>7. CASE HasEndpoint(s, k)
  <2>1. s.endpoints[k] \in Record  BY <1>2, <1>7 DEF HasEndpoint
  <2> DEFINE new == [s.endpoints[k] EXCEPT !.netns = n, !.inOrder = t]
  <2>2. [s EXCEPT !.endpoints[k].netns = n, !.endpoints[k].inOrder = t]
          = [s EXCEPT !.endpoints[k] = new]
    BY <1>1, <2>1 DEF State, Record
  <2>3. [s EXCEPT !.endpoints[k] = new].endpoints = [s.endpoints EXCEPT ![k] = new]
    BY <1>1 DEF State
  <2>4. CASE s.endpoints[k].netns = n
    <3>1. mem'[p] = s  BY <1>5, <1>7, <2>4 DEF AllocateResult, AllocateExisting
    <3>2. QED  BY <1>6, <1>7, <2>1, <2>4, <3>1
  <2>5. CASE s.endpoints[k].netns # n
    <3>1. mem'[p].endpoints = [s.endpoints EXCEPT ![k] = new]
      BY <1>5, <1>7, <2>2, <2>3, <2>5 DEF AllocateResult, AllocateExisting
    <3>2. new.netns = n /\ new.ip = s.endpoints[k].ip  BY <2>1 DEF Record
    <3> HIDE DEF new
    <3>3. mem'[p].endpoints[k] = new /\ \A j \in Key \ {k} : mem'[p].endpoints[j] = s.endpoints[j]
      BY <1>2, <3>1
    <3>4. QED  BY <1>6, <1>7, <2>1, <3>2, <3>3
  <2>6. QED  BY <2>4, <2>5
<1>8. CASE ~HasEndpoint(s, k)
  <2>1. mem'[p].endpoints = [s.endpoints EXCEPT ![k] = NewRecord(s, c, n)]
    BY <1>1, <1>5, <1>8 DEF AllocateResult, AllocateNew, State
  <2>2. NewRecord(s, c, n).netns = n  BY DEF NewRecord
  <2>3. mem'[p].endpoints[k] = NewRecord(s, c, n)  BY <1>2, <2>1
  <2>4. \A j \in Key \ {k} : mem'[p].endpoints[j] = s.endpoints[j]  BY <1>2, <2>1
  <2>5. QED  BY <1>6, <1>8, <2>2, <2>3, <2>4
<1>9. QED  BY <1>7, <1>8

LEMMA MarkEntries ==
  ASSUME CInv, NEW p \in Proc, NEW k \in Key, NEW phase \in Phase, MarkPhase(p, k, phase)
  PROVE  LET new == mem'[p].endpoints  old == mem[p].endpoints IN
         /\ \A j \in Key \ {k} : new[j] = old[j]
         /\ new[k] \in Record /\ old[k] \in Record
         /\ new[k].ip = old[k].ip /\ new[k].netns = old[k].netns /\ new[k].phase = phase
<1> DEFINE s == mem[p]
<1>1. s \in State /\ mem \in [Proc -> State]  BY Here
<1>2. s.endpoints \in [Key -> Record \cup {NoRecord}]  BY <1>1 DEF State
<1>3. s.endpoints[k] \in Record  BY <1>2 DEF MarkPhase, HasEndpoint
<1>4. PICK t \in Clock : Update(p, MarkResult(s, k, phase, t))  BY DEF MarkPhase
<1>5. t \in BOOLEAN  BY StoreStateAssumption
<1>6. mem'[p] = MarkResult(s, k, phase, t)  BY <1>1, <1>4 DEF Update
<1> DEFINE new == [s.endpoints[k] EXCEPT !.phase = phase, !.inOrder = t]
<1>7. [s EXCEPT !.endpoints[k].phase = phase, !.endpoints[k].inOrder = t]
        = [s EXCEPT !.endpoints[k] = new]
  BY <1>1, <1>3 DEF State, Record
<1>8. [s EXCEPT !.endpoints[k] = new].endpoints = [s.endpoints EXCEPT ![k] = new]
  BY <1>1 DEF State
<1>9. /\ new.netns = s.endpoints[k].netns /\ new.ip = s.endpoints[k].ip
      /\ new \in Record /\ new.phase = phase
  BY <1>3, <1>5 DEF Record
<1>10. CASE s.endpoints[k].phase = phase
  <2>1. mem'[p] = s  BY <1>6, <1>10 DEF MarkResult
  <2>2. QED  BY <1>3, <1>10, <2>1
<1>11. CASE s.endpoints[k].phase # phase
  <2>1. mem'[p].endpoints = [s.endpoints EXCEPT ![k] = new]
    BY <1>6, <1>7, <1>8, <1>11 DEF MarkResult
  <2> HIDE DEF new
  <2>2. mem'[p].endpoints[k] = new /\ \A j \in Key \ {k} : mem'[p].endpoints[j] = s.endpoints[j]
    BY <1>2, <2>1
  <2>3. QED  BY <1>3, <1>9, <2>2
<1>12. QED  BY <1>10, <1>11

LEMMA ReleaseEntries ==
  ASSUME CInv, NEW p \in Proc, NEW k \in Key, Release(p, k)
  PROVE  /\ \A j \in Key \ {k} : mem'[p].endpoints[j] = mem[p].endpoints[j]
         /\ mem'[p].endpoints[k] = NoRecord
<1> DEFINE s == mem[p]
<1>1. s \in State /\ mem \in [Proc -> State]  BY Here
<1>2. s.endpoints \in [Key -> Record \cup {NoRecord}]  BY <1>1 DEF State
<1>3. mem'[p] = ReleaseResult(s, k)  BY <1>1 DEF Release, Update
<1>4. CASE ~HasEndpoint(s, k)
  <2>1. mem'[p] = s  BY <1>3, <1>4 DEF ReleaseResult
  <2>2. QED  BY <1>4, <2>1 DEF HasEndpoint
<1>5. CASE HasEndpoint(s, k)
  <2>1. mem'[p].endpoints = [s.endpoints EXCEPT ![k] = NoRecord]
    BY <1>1, <1>3, <1>5 DEF ReleaseResult, State
  <2>2. QED  BY <1>2, <2>1
<1>6. QED  BY <1>4, <1>5

(* A commit that succeeds leaves a clean copy that the file holds; one that *)
(* does not may still have replaced the file.                               *)
LEMMA CommitFile ==
  ASSUME CInv, NEW p \in Proc, CommitDone(p) \/ CommitNotDone(p)
  PROVE  /\ mem' = mem /\ lock' = lock /\ active' = active /\ active[p]
         /\ \/ Loaded(disk)' = Loaded(disk) /\ dirty' = dirty /\ disk' = disk
            \/ Loaded(disk)' = mem[p] /\ disk' = mem[p]
         /\ CommitDone(p) => Loaded(disk)' = mem[p] /\ ~dirty'[p]
<1>1. mem[p] \in State /\ dirty \in [Proc -> BOOLEAN]  BY Here
<1>2. mem[p] # Absent  BY <1>1, StoreAssumption
<1>3. CASE UNCHANGED storeVars /\ active[p]
  <2>1. ~dirty[p] => Loaded(disk) = mem[p]  BY <1>3 DEF CInv, IInv, NoLostUpdate
  <2>2. CommitDone(p) => ~dirty[p]
    BY <1>1, <1>2, <1>3 DEF CommitDone, CommitClean, CommitWritten, storeVars
  <2>3. QED  BY <1>3, <2>1, <2>2 DEF storeVars, Loaded
<1>4. CASE CommitWritten(p)
  BY <1>1, <1>2, <1>4 DEF CommitWritten, Loaded
<1>5. CASE CommitRenamed(p) /\ ~CommitDone(p)
  BY <1>1, <1>2, <1>5 DEF CommitRenamed, Loaded
<1>6. CASE CommitRenamed(p) /\ CommitDone(p)
  <2>1. CommitWritten(p) \/ CommitClean(p)  BY <1>6 DEF CommitDone
  <2>2. ~CommitClean(p)  BY <1>6 DEF CommitRenamed, CommitClean
  <2>3. QED  BY <1>4, <2>1, <2>2
<1>7. QED
  BY <1>3, <1>4, <1>5, <1>6 DEF CommitDone, CommitNotDone, CommitClean, CommitRefused,
                                CommitUnwritten

-----------------------------------------------------------------------------
(* The ledger: file and copy at every step of a transaction.                *)
FileInv == CInv /\ CopyFollowsFile /\ Serial /\ Ledger

TxAgrees(p) == Commanded(tx[p]) /\ Agrees(tx[p], mem[p], Loaded(disk), dirty[p])

(* A transaction outside the callback claims nothing, nor does one that     *)
(* failed, but for the entries of the others.                               *)
LEMMA OutsideAgrees ==
  ASSUME NEW t, t.pc \in {"idle", "lock", "load"}, NEW m, NEW d, NEW c
  PROVE  Commanded(t) /\ Agrees(t, m, d, c)
  BY DEF Commanded, Agrees, InCallback, Quarantined, Reusing, Succeeding, Recovering,
         Creating, Deleting

LEMMA FailureAgrees ==
  ASSUME NEW t, t.pc = "unlock", t.res = "err", NEW m, NEW d, NEW c,
         \A j \in Key \ {t.key} : m.endpoints[j] = d.endpoints[j]
  PROVE  Commanded(t) /\ Agrees(t, m, d, c)
  BY DEF Commanded, Agrees, InCallback, Quarantined, Reusing, Succeeding, Recovering,
         Creating, Deleting

(* What the file and the copy hold before a step. *)
LEMMA HereAgrees ==
  ASSUME FileInv, NEW p \in Proc
  PROVE  /\ tx[p] \in Tx /\ Sound(tx[p], mem[p]) /\ mem[p] \in State
         /\ TxAgrees(p)
         /\ tx[p].pc \notin {"idle", "lock"} => lock = p
         /\ InCallback(tx[p]) => active[p]
         /\ active[p] /\ ~dirty[p] => Loaded(disk) = mem[p]
         /\ tx[p].pc # "idle" => tx[p].key \in Key
  BY Here DEF FileInv, Serial, Ledger, TxAgrees, CInv, IInv, NoLostUpdate, Sound

(* Steps that change neither file nor copy. *)
LEMMA QuietAgrees ==
  ASSUME FileInv, NEW p \in Proc, UNCHANGED storeVars,
         Commanded(tx'[p]) /\ Agrees(tx'[p], mem[p], Loaded(disk), dirty[p])
  PROVE  TxAgrees(p)'
<1>1. mem' = mem /\ dirty' = dirty /\ disk' = disk  BY DEF storeVars
<1>2. Loaded(disk)' = Loaded(disk)  BY <1>1 DEF Loaded
<1>3. QED  BY <1>1, <1>2 DEF TxAgrees

LEMMA AddAgrees ==
  ASSUME FileInv, NEW p \in Proc, AddEnsureBridge(p) \/ IdempotencyCheck(p) \/ Preflight(p)
  PROVE  TxAgrees(p)'
<1> USE DEF Commanded, Agrees, InCallback, Quarantined, Reusing, Succeeding, Recovering,
            Creating, Deleting, TxAgrees, Turn, Same, Kept
<1>1. TxAgrees(p) /\ CInv /\ Sound(tx[p], mem[p])  BY HereAgrees DEF FileInv
<1>2. CASE AddEnsureBridge(p)
  <2>1. UNCHANGED storeVars  BY <1>1, <1>2, BridgeOutcome
  <2>2. tx[p].op = "ADD"  BY <1>1, <1>2, BridgeOutcome DEF Sound, Holding
  <2>3. Commanded(tx'[p]) /\ Agrees(tx'[p], mem[p], Loaded(disk), dirty[p])
    BY <1>1, <1>2, <2>2, BridgeOutcome
  <2>4. QED  BY <2>1, <2>3, QuietAgrees
<1>3. CASE IdempotencyCheck(p)
  <2>1. UNCHANGED storeVars  BY <1>1, <1>3, IdempotencyOutcome
  <2>2. tx[p].op = "ADD"  BY <1>1, <1>3, IdempotencyOutcome DEF Sound, Holding
  <2>3. Commanded(tx'[p]) /\ Agrees(tx'[p], mem[p], Loaded(disk), dirty[p])
    BY <1>1, <1>3, <2>2, IdempotencyOutcome
  <2>4. QED  BY <2>1, <2>3, QuietAgrees
<1>4. CASE Preflight(p)
  <2>1. UNCHANGED storeVars  BY <1>1, <1>4, PreflightOutcome
  <2>2. tx[p].op = "ADD"  BY <1>1, <1>4, PreflightOutcome DEF Sound, Holding
  <2>3. Commanded(tx'[p]) /\ Agrees(tx'[p], mem[p], Loaded(disk), dirty[p])
    BY <1>1, <1>4, <2>2, PreflightOutcome
  <2>4. QED  BY <2>1, <2>3, QuietAgrees
<1>5. QED  BY <1>2, <1>3, <1>4

LEMMA EntryAgrees ==
  ASSUME FileInv, NEW p \in Proc,
         Invoke(p) \/ Lock(p) \/ Load(p) \/ LoadFails(p) \/ Return(p) \/ Crash(p)
  PROVE  TxAgrees(p)'
<1>1. CInv /\ tx[p] \in Tx  BY HereAgrees DEF FileInv
<1>2. CASE Invoke(p) \/ Lock(p) \/ LoadFails(p) \/ Return(p) \/ Crash(p)
  <2>1. CASE Invoke(p)
    <3>1. PICK op \in Ops, k \in Key : InvokeAs(p, op, k)  BY <2>1 DEF Invoke
    <3>2. PICK n, c : Become(p, [Idle EXCEPT !.pc = "lock", !.op = op, !.key = k, !.ns = n,
                                             !.config = c])
      BY <3>1 DEF InvokeAs
    <3> DEFINE t == [Idle EXCEPT !.pc = "lock", !.op = op, !.key = k, !.ns = n, !.config = c]
    <3>3. t.pc = "lock"  BY DEF Idle
    <3> HIDE DEF t
    <3>4. tx'[p] = t  BY <1>1, <3>2, Becomes DEF t
    <3>5. QED  BY <3>3, <3>4, OutsideAgrees DEF TxAgrees
  <2>2. CASE Lock(p)
    <3>1. tx'[p].pc = "load"  BY <1>1, <2>2, Turns DEF Lock, Steps, Turn
    <3>2. QED  BY <3>1, OutsideAgrees DEF TxAgrees
  <2>3. CASE LoadFails(p) \/ Return(p) \/ Crash(p)
    <3>1. tx'[p].pc = "idle"  BY <1>1, <2>3, Fetched
    <3>2. QED  BY <3>1, OutsideAgrees DEF TxAgrees
  <2>4. QED  BY <1>2, <2>1, <2>2, <2>3
<1>3. CASE Load(p)
  <2>1. loadState(p)  BY <1>1, <1>3, LoadOutcome
  <2>2. mem'[p] = Loaded(disk) /\ ~dirty'[p] /\ disk' = disk
    BY <1>1, <2>1, Here DEF loadState, Loadable
  <2>3. Loaded(disk)' = mem'[p]  BY <2>2 DEF Loaded
  <2>4. \/ tx'[p].pc = "allocate"
        \/ tx'[p].pc = "check" /\ tx'[p].op = "CHECK"
        \/ tx'[p].pc = "find-host" /\ tx'[p].op = "DEL" /\ tx'[p].caller = "delete-endpoint"
    BY <1>1, <1>3, LoadOutcome DEF Turn, Same
  <2>5. QED
    BY <2>2, <2>3, <2>4
    DEF TxAgrees, Commanded, Agrees, InCallback, Quarantined, Reusing, Succeeding,
        Recovering, Creating, Deleting
<1>4. QED  BY <1>2, <1>3

LEMMA AllocateAgrees ==
  ASSUME FileInv, NEW p \in Proc, AddAllocate(p)
  PROVE  TxAgrees(p)'
<1> DEFINE r == tx[p]
           t == tx'[p]
           k == r.key
           old == Loaded(disk).endpoints[k]
           new == mem'[p].endpoints[k]
<1>1. CInv /\ TxAgrees(p) /\ Sound(r, mem[p]) /\ r \in Tx /\ mem[p] \in State
  BY HereAgrees DEF FileInv
<1>2. r.pc = "allocate" /\ Allocate(p, k, r.config, r.ns)  BY <1>1, AllocateOutcome
<1>3. k \in Key /\ r.config \in Config /\ r.ns \in NetNS
  BY <1>1, <1>2, CloudnetAssumption DEF Sound, Holding, Recovering
<1>4. active[p] /\ disk' = disk  BY <1>2 DEF Allocate, Update
<1>5. ~dirty[p]  BY <1>1, <1>2 DEF TxAgrees, Agrees
<1>6. mem[p] = Loaded(disk)  BY <1>4, <1>5, HereAgrees
<1>7. Loaded(disk)' = Loaded(disk)  BY <1>4 DEF Loaded
<1>8. /\ \A j \in Key \ {k} : mem'[p].endpoints[j] = Loaded(disk).endpoints[j]
      /\ new \in Record /\ new.netns = r.ns
      /\ HasEndpoint(mem[p], k) => /\ old \in Record /\ new.ip = old.ip
                                   /\ new.phase = old.phase
  BY <1>1, <1>2, <1>3, <1>6, AllocateEntries
<1>9. t.key = k /\ t.ns = r.ns /\ t.op = "ADD"
  BY <1>1, <1>2, AllocateOutcome DEF Turn, Same, Sound
<1>10. \/ ~HasEndpoint(mem[p], k) /\ t.pc = "persist-pending"
       \/ /\ HasEndpoint(mem[p], k) /\ old.phase = "pending" /\ t.pc = "find-host"
          /\ t.caller = "recover-pending"
       \/ /\ HasEndpoint(mem[p], k) /\ old.phase # "pending" /\ t.pc = "ensure-bridge"
          /\ t.undo = <<>>
  BY <1>1, <1>6, AllocateOutcome DEF Turn
<1>11. HasEndpoint(mem[p], k) => old.phase \in {"pending", "ready"}
  BY <1>8 DEF Record, Phase
<1>12. ~HasEndpoint(mem[p], k) => old = NoRecord  BY <1>6 DEF HasEndpoint
<1> HIDE DEF r, t, old, new
<1>13. Commanded(t) /\ Agrees(t, mem'[p], Loaded(disk), dirty'[p])
  BY <1>3, <1>8, <1>9, <1>10, <1>11, <1>12
  DEF Commanded, Agrees, InCallback, Quarantined, Reusing, Succeeding,
      Recovering, Creating, Deleting, old, new
<1>14. QED  BY <1>7, <1>13 DEF TxAgrees, t

LEMMA PhaseAgrees ==
  ASSUME FileInv, NEW p \in Proc, ReconcilePending(p) \/ AddMarkReady(p)
  PROVE  TxAgrees(p)'
<1> DEFINE r == tx[p]
           t == tx'[p]
           k == r.key
           old == Loaded(disk).endpoints[k]
           was == mem[p].endpoints[k]
           new == mem'[p].endpoints[k]
<1>1. CInv /\ TxAgrees(p) /\ Sound(r, mem[p]) /\ r \in Tx
  BY HereAgrees DEF FileInv
<1>2. /\ t.key = k /\ t.ns = r.ns /\ t.op = r.op /\ t.undo = r.undo
      /\ \/ /\ r.pc = "reconcile-pending" /\ MarkPhase(p, k, "pending")
            /\ t.pc = "persist-reconcile"
         \/ r.pc = "mark-ready" /\ MarkPhase(p, k, "ready") /\ t.pc = "persist-ready"
  BY <1>1, MarkOutcome DEF Turn, Same, Kept
<1>3. r.op = "ADD" /\ k \in Key  BY <1>1, <1>2 DEF Sound, Holding
<1>4. disk' = disk  BY <1>2 DEF MarkPhase, Update
<1>5. Loaded(disk)' = Loaded(disk)  BY <1>4 DEF Loaded
<1>6. {"pending", "ready"} \subseteq Phase  BY DEF Phase
<1>7. /\ \A j \in Key \ {k} : mem'[p].endpoints[j] = mem[p].endpoints[j]
      /\ new \in Record /\ new.ip = was.ip /\ new.netns = was.netns
      /\ \/ r.pc = "reconcile-pending" /\ new.phase = "pending"
         \/ r.pc = "mark-ready" /\ new.phase = "ready"
  BY <1>1, <1>2, <1>3, <1>6, MarkEntries
<1>8. /\ \A j \in Key \ {k} : mem[p].endpoints[j] = Loaded(disk).endpoints[j]
      /\ old \in Record /\ was.ip = old.ip /\ was.netns = r.ns
      /\ \/ r.pc = "reconcile-pending" /\ old.phase = "ready"
         \/ r.pc = "mark-ready" /\ old.phase = "pending"
  BY <1>1, <1>2 DEF TxAgrees, Agrees, InCallback, Quarantined, Reusing, Recovering,
                    Creating, Deleting
<1> HIDE DEF r, t, old, new, was
<1>9. Commanded(t) /\ Agrees(t, mem'[p], Loaded(disk), dirty'[p])
  BY <1>2, <1>3, <1>7, <1>8
  DEF Commanded, Agrees, InCallback, Quarantined, Reusing, Succeeding,
      Recovering, Creating, Deleting, old, new
<1>10. QED  BY <1>5, <1>9 DEF TxAgrees, t

LEMMA CommitAgrees ==
  ASSUME FileInv, NEW p \in Proc,
         Finish(p) \/ PersistPending(p) \/ PersistReconcile(p) \/ PersistReady(p)
           \/ PersistRelease(p)
  PROVE  TxAgrees(p)'
<1> DEFINE r == tx[p]
           t == tx'[p]
           k == r.key
           m == mem[p]
           d == Loaded(disk)
           e == Loaded(disk)'
<1>1. CInv /\ TxAgrees(p) /\ Sound(r, m) /\ r \in Tx
  BY HereAgrees DEF FileInv
<1>2. CommitDone(p) \/ CommitNotDone(p)  BY <1>1, PersistOutcome
<1>3. /\ mem' = mem
      /\ e = d \/ e = m
      /\ CommitDone(p) => e = m /\ ~dirty'[p]
  BY <1>1, <1>2, CommitFile
<1>4. r.pc \in {"finish", "persist-pending", "persist-reconcile", "persist-ready",
                "persist-release"}
  BY <1>1, PersistOutcome
<1>5. \A j \in Key \ {k} : m.endpoints[j] = d.endpoints[j]
  BY <1>1, <1>4 DEF TxAgrees, Agrees, InCallback
<1>6. \A j \in Key \ {k} : m.endpoints[j] = e.endpoints[j]  BY <1>3, <1>5
<1>7. t.key = k /\ t.ns = r.ns /\ t.op = r.op
  BY <1>1, PersistOutcome DEF Turn, Same, Fails
<1>8. CASE Fails(p)
  <2>1. t.pc = "unlock" /\ t.res = "err"  BY <1>8 DEF Fails, Turn
  <2>2. QED  BY <1>3, <1>6, <1>7, <2>1, FailureAgrees DEF TxAgrees
<1>9. CASE r.pc = "finish" /\ CommitDone(p) /\ t.pc = "unlock" /\ t.res = "ok"
  <2>1. /\ r.op = "ADD" => /\ m.endpoints[k] \in Record /\ m.endpoints[k].netns = r.ns
                           /\ m.endpoints[k].phase = "ready"
        /\ r.op = "DEL" => m.endpoints[k] = NoRecord
    BY <1>1, <1>9 DEF TxAgrees, Agrees, Quarantined, Succeeding, Recovering, Creating,
                      Deleting
  <2> HIDE DEF t, r, m, e
  <2>2. Commanded(t) /\ Agrees(t, m, e, dirty'[p])
    BY <1>3, <1>6, <1>7, <1>9, <2>1
    DEF Commanded, Agrees, InCallback, Quarantined, Reusing, Succeeding, Recovering,
        Creating, Deleting
  <2>3. QED  BY <1>3, <2>2 DEF TxAgrees, t, m, e
<1>10. CASE /\ r.pc = "persist-pending" /\ CommitDone(p) /\ t.pc = "ensure-bridge"
            /\ t.undo = <<"release">>
  <2>1. /\ m.endpoints[k] \in Record /\ m.endpoints[k].netns = r.ns
        /\ m.endpoints[k].phase = "pending" /\ r.op = "ADD"
    BY <1>1, <1>10 DEF TxAgrees, Agrees, Sound, Holding
  <2>2. t.undo # <<>>  BY <1>10, Stacks
  <2> HIDE DEF t, r, m, e
  <2>3. Commanded(t) /\ Agrees(t, m, e, dirty'[p])
    BY <1>3, <1>6, <1>7, <1>10, <2>1, <2>2
    DEF Commanded, Agrees, InCallback, Quarantined, Reusing, Succeeding, Recovering,
        Creating, Deleting
  <2>4. QED  BY <1>3, <2>3 DEF TxAgrees, t, m, e
<1>11. CASE /\ r.pc = "persist-reconcile" /\ CommitDone(p) /\ t.pc = "find-host"
            /\ t.caller = "reconcile-delete"
  <2>1. /\ m.endpoints[k] \in Record /\ m.endpoints[k].netns = r.ns
        /\ m.endpoints[k].phase = "pending" /\ r.op = "ADD"
    BY <1>1, <1>11 DEF TxAgrees, Agrees, Sound, Holding, Reusing
  <2> HIDE DEF t, r, m, e
  <2>2. Commanded(t) /\ Agrees(t, m, e, dirty'[p])
    BY <1>3, <1>6, <1>7, <1>11, <2>1
    DEF Commanded, Agrees, InCallback, Quarantined, Reusing, Succeeding, Recovering,
        Creating, Deleting
  <2>3. QED  BY <1>3, <2>2 DEF TxAgrees, t, m, e
<1>12. CASE r.pc = "persist-ready" /\ CommitDone(p) /\ t.pc = "finish"
  <2>1. /\ m.endpoints[k] \in Record /\ m.endpoints[k].netns = r.ns
        /\ m.endpoints[k].phase = "ready" /\ r.op = "ADD"
    BY <1>1, <1>12 DEF TxAgrees, Agrees, Sound, Holding, Quarantined
  <2> HIDE DEF t, r, m, e
  <2>2. Commanded(t) /\ Agrees(t, m, e, dirty'[p])
    BY <1>3, <1>6, <1>7, <1>12, <2>1
    DEF Commanded, Agrees, InCallback, Quarantined, Reusing, Succeeding, Recovering,
        Creating, Deleting
  <2>3. QED  BY <1>3, <2>2 DEF TxAgrees, t, m, e
<1>13. CASE r.pc \in {"persist-ready", "persist-release"} /\ t.pc = "rollback"
  <2>1. r.op = "ADD"
    BY <1>1, <1>13 DEF TxAgrees, Commanded, Sound, Holding
  <2> HIDE DEF t, r, m, e
  <2>2. Commanded(t) /\ Agrees(t, m, e, dirty'[p])
    BY <1>6, <1>7, <1>13, <2>1
    DEF Commanded, Agrees, InCallback, Quarantined, Reusing, Succeeding, Recovering,
        Creating, Deleting
  <2>3. QED  BY <1>3, <2>2 DEF TxAgrees, t, m, e
<1>14. QED  BY <1>1, <1>8, <1>9, <1>10, <1>11, <1>12, <1>13, PersistOutcome DEF Turn

(* CreateEndpoint only moves between steps at which the file says pending. *)
LEMMA CreateShape ==
  ASSUME CInv, NEW p \in Proc,
         \/ LinkAdd(p) \/ AliasHost(p) \/ AliasPeer(p) \/ MovePeer(p)
         \/ ConfigureAddress(p) \/ AddRoute(p) \/ VerifyHost(p) \/ UndoCreate(p)
  PROVE  /\ UNCHANGED <<storeVars, stray, nsUp, foreign>> /\ tx[p].pc \in Creating
         /\ tx'[p].pc \in Creating \cup {"mark-ready", "rollback"}
         /\ Same(tx[p], tx'[p]) /\ tx'[p].undo = tx[p].undo
<1>1. CASE LinkAdd(p)  BY <1>1, LinkAddOutcome DEF Turn, Onward, Kept, Creating
<1>2. CASE AliasHost(p)  BY <1>2, AliasHostOutcome DEF Turn, Kept, Creating
<1>3. Creating \subseteq Steps  BY DEF Steps, Holding
<1>4. ASSUME NEW from \in Creating, NEW to \in Creating, NEW possible, NEW changed,
             CreateStep(p, from, to, possible, changed)
      PROVE  /\ UNCHANGED <<storeVars, stray, nsUp, foreign>> /\ tx[p].pc \in Creating
             /\ tx'[p].pc \in Creating
             /\ Same(tx[p], tx'[p]) /\ tx'[p].undo = tx[p].undo
  <2>1. to \in Steps  BY <1>3
  <2>2. "undo-create" \in Creating  BY DEF Creating
  <2>3. /\ UNCHANGED <<storeVars, stray, nsUp, foreign>> /\ tx[p].pc = from /\ Kept(p)
        /\ Turn(p, to) \/ Turn(p, "undo-create")
    BY <1>4, <2>1, CreateOutcome
  <2>4. QED  BY <2>2, <2>3 DEF Turn, Kept
<1>5. CASE AliasPeer(p)  BY <1>4, <1>5 DEF AliasPeer, Creating
<1>6. CASE MovePeer(p)  BY <1>4, <1>6 DEF MovePeer, Creating
<1>7. CASE ConfigureAddress(p)  BY <1>4, <1>7 DEF ConfigureAddress, Creating
<1>8. CASE AddRoute(p)  BY <1>4, <1>8 DEF AddRoute, Creating
<1>9. CASE VerifyHost(p)  BY <1>9, VerifyOutcome DEF Turn, Onward, Kept, Creating
<1>10. CASE UndoCreate(p)  BY <1>10, UndoOutcome DEF Turn, Onward, Creating
<1>11. QED  BY <1>1, <1>2, <1>5, <1>6, <1>7, <1>8, <1>9, <1>10

LEMMA CreateAgrees ==
  ASSUME FileInv, NEW p \in Proc,
         \/ LinkAdd(p) \/ AliasHost(p) \/ AliasPeer(p) \/ MovePeer(p)
         \/ ConfigureAddress(p) \/ AddRoute(p) \/ VerifyHost(p) \/ UndoCreate(p)
  PROVE  TxAgrees(p)'
<1> DEFINE r == tx[p]
           t == tx'[p]
<1>1. CInv /\ TxAgrees(p) /\ Sound(r, mem[p])  BY HereAgrees DEF FileInv
<1>2. /\ UNCHANGED storeVars /\ r.pc \in Creating
      /\ t.pc \in Creating \cup {"mark-ready", "rollback"} /\ Same(r, t)
  BY <1>1, CreateShape
<1>3. r.op = "ADD"  BY <1>1, <1>2 DEF Sound, Holding
<1> HIDE DEF r, t
<1>4. Commanded(t) /\ Agrees(t, mem[p], Loaded(disk), dirty[p])
  BY <1>1, <1>2, <1>3
  DEF Commanded, Agrees, InCallback, Quarantined, Reusing, Succeeding, Recovering,
      Creating, Deleting, TxAgrees, Same, r
<1>5. QED  BY <1>2, <1>4, QuietAgrees DEF t

LEMMA DeleteAgrees ==
  ASSUME FileInv, NEW p \in Proc, FindHost(p) \/ LinkDel(p) \/ StatPeer(p) \/ FindPeer(p)
  PROVE  TxAgrees(p)'
<1> DEFINE r == tx[p]
           t == tx'[p]
<1>1. CInv /\ TxAgrees(p) /\ Sound(r, mem[p])  BY HereAgrees DEF FileInv
<1>2. /\ UNCHANGED storeVars /\ r.pc \in Deleting /\ Same(r, t)
      /\ \/ t.pc \in Deleting /\ t.caller = r.caller
         \/ Returns(p) \/ GivesUp(p)
  BY <1>1, DeleteOutcome DEF Turn, Deleting, Kept, Returns, GivesUp, Fails
<1>3. r.caller \in Callers  BY <1>1, <1>2 DEF Sound
<1>4. r.caller # "delete-endpoint" => r.op = "ADD"
  BY <1>1, <1>2, <1>3 DEF Sound, Recovering, Callers, TxAgrees, Commanded
<1>5. r.caller = "delete-endpoint" => r.op = "DEL"
  BY <1>1, <1>2 DEF TxAgrees, Commanded
<1>6. <<"release">> # <<>>  BY Stacks
<1>7. \/ t.pc \in Deleting /\ t.caller = r.caller
      \/ r.caller = "recover-pending" /\ t.pc = "ensure-bridge" /\ t.undo # <<>>
      \/ r.caller = "reconcile-delete" /\ t.pc = "create-veth"
      \/ r.caller = "rollback" /\ t.pc = "rollback"
      \/ r.caller = "delete-endpoint" /\ t.pc = "release"
      \/ t.pc = "unlock" /\ t.res = "err"
  BY <1>2, <1>6 DEF Returns, GivesUp, Fails, Turn
<1> HIDE DEF r, t
<1>8. Commanded(t) /\ Agrees(t, mem[p], Loaded(disk), dirty[p])
  BY <1>1, <1>2, <1>3, <1>4, <1>5, <1>7
  DEF Commanded, Agrees, InCallback, Quarantined, Reusing, Succeeding, Recovering,
      Creating, Deleting, TxAgrees, Same, r
<1>9. QED  BY <1>2, <1>8, QuietAgrees DEF t

LEMMA RollbackAgrees ==
  ASSUME FileInv, NEW p \in Proc,
         \/ RollbackDelete(p) \/ RollbackRelease(p) \/ RollbackEnds(p)
         \/ DelRelease(p) \/ Check(p) \/ AddAllocateFails(p)
  PROVE  TxAgrees(p)'
<1> DEFINE r == tx[p]
           t == tx'[p]
           k == r.key
           d == Loaded(disk)
<1>1. CInv /\ TxAgrees(p) /\ Sound(r, mem[p])  BY HereAgrees DEF FileInv
<1>2. \/ /\ UNCHANGED storeVars /\ Fails(p) /\ r.pc \in {"rollback", "check", "allocate"}
      \/ /\ UNCHANGED storeVars /\ r.pc = "rollback" /\ Turn(p, "find-host")
         /\ t.caller = "rollback"
      \/ UNCHANGED storeVars /\ r.pc = "check" /\ Turn(p, "finish")
      \/ r.pc = "rollback" /\ Release(p, k) /\ Turn(p, "persist-release")
      \/ r.pc = "release" /\ Release(p, k) /\ Turn(p, "finish")
  BY <1>1, RollbackOutcome, FinalOutcome
<1>3. r.pc # "idle" /\ InCallback(r)  BY <1>2 DEF InCallback
<1>4. \A j \in Key \ {k} : mem[p].endpoints[j] = d.endpoints[j]
  BY <1>1, <1>3 DEF TxAgrees, Agrees
<1>5. /\ r.pc = "rollback" => r.op = "ADD"
      /\ r.pc = "check" => r.op = "CHECK" /\ ~dirty[p]
      /\ r.pc = "release" => r.op = "DEL"
  BY <1>1 DEF TxAgrees, Commanded, Agrees
<1>6. CASE UNCHANGED storeVars
  <2>1. /\ t.key = k /\ t.op = r.op /\ t.ns = r.ns
        /\ \/ t.pc = "unlock" /\ t.res = "err"
           \/ r.pc = "rollback" /\ t.pc = "find-host" /\ t.caller = "rollback"
           \/ r.pc = "check" /\ t.pc = "finish"
           \/ r.pc = "rollback" /\ Release(p, k) /\ t.pc = "persist-release"
           \/ r.pc = "release" /\ Release(p, k) /\ t.pc = "finish"
    BY <1>2 DEF Fails, Turn, Same
  <2>2. Release(p, k) => mem[p].endpoints[k] = NoRecord
    BY <1>1, <1>3, <1>6, ReleaseEntries DEF Sound, storeVars
  <2> HIDE DEF r, t
  <2>3. Commanded(t) /\ Agrees(t, mem[p], Loaded(disk), dirty[p])
    BY <1>4, <1>5, <2>1, <2>2
    DEF Commanded, Agrees, InCallback, Quarantined, Reusing, Succeeding, Recovering,
        Creating, Deleting, k
  <2>4. QED  BY <1>6, <2>3, QuietAgrees DEF t
<1>7. CASE \/ r.pc = "rollback" /\ Release(p, k) /\ Turn(p, "persist-release")
           \/ r.pc = "release" /\ Release(p, k) /\ Turn(p, "finish")
  <2>1. k \in Key  BY <1>1, <1>3 DEF Sound
  <2>2. /\ \A j \in Key \ {k} : mem'[p].endpoints[j] = d.endpoints[j]
        /\ mem'[p].endpoints[k] = NoRecord
    BY <1>1, <1>4, <1>7, <2>1, ReleaseEntries
  <2>3. Loaded(disk)' = d  BY <1>7 DEF Release, Update, Loaded
  <2>4. /\ t.key = k /\ t.op = r.op /\ t.ns = r.ns
        /\ \/ r.pc = "rollback" /\ t.pc = "persist-release"
           \/ r.pc = "release" /\ t.pc = "finish"
    BY <1>7 DEF Turn, Same
  <2> HIDE DEF r, t, d
  <2>5. Commanded(t) /\ Agrees(t, mem'[p], d, dirty'[p])
    BY <1>5, <2>2, <2>4
    DEF Commanded, Agrees, InCallback, Quarantined, Reusing, Succeeding, Recovering,
        Creating, Deleting, k
  <2>6. QED  BY <2>3, <2>5 DEF TxAgrees, t, d
<1>8. QED  BY <1>2, <1>6, <1>7

(* What an invocation does with a loaded copy. *)
Work(p) == AddNext(p) \/ DeleteNext(p) \/ Check(p) \/ Finish(p)

LEMMA OneMoves ==
  ASSUME CInv, NEW p \in Proc, Invoke(p) \/ Lock(p) \/ Run(p) \/ Crash(p),
         NEW q \in Proc, q # p
  PROVE  tx'[q] = tx[q]
<1>1. ASSUME NEW t, Become(p, t) PROVE tx'[q] = tx[q]  BY <1>1, Becomes
<1>2. ASSUME NEW pc, Goto(p, pc) PROVE tx'[q] = tx[q]  BY <1>1, <1>2 DEF Goto
<1>3. ASSUME NEW done, NEW failed, CommitThen(p, done, failed) PROVE tx'[q] = tx[q]
  BY <1>1, <1>3 DEF CommitThen
<1>4. CASE Invoke(p) \/ Crash(p)  BY <1>1, <1>4 DEF Invoke, InvokeAs, Crash
<1>5. CASE Lock(p) \/ Load(p) \/ LoadFails(p) \/ Return(p)
  BY <1>1, <1>2, <1>5 DEF Lock, Load, LoadFails, Return
<1>6. CASE \/ Finish(p) \/ PersistPending(p) \/ PersistReconcile(p) \/ PersistReady(p)
           \/ PersistRelease(p)
  BY <1>3, <1>6 DEF Finish, PersistPending, PersistReconcile, PersistReady, PersistRelease
<1>7. CASE \/ AddAllocate(p) \/ AddAllocateFails(p) \/ AddEnsureBridge(p)
           \/ IdempotencyCheck(p) \/ ReconcilePending(p) \/ Preflight(p)
  BY <1>1, <1>2, <1>7 DEF AddAllocate, AddAllocateFails, AddEnsureBridge, IdempotencyCheck,
                          ReconcilePending, Preflight
<1>8. CASE \/ LinkAdd(p) \/ AliasHost(p) \/ AliasPeer(p) \/ MovePeer(p)
           \/ ConfigureAddress(p) \/ AddRoute(p) \/ VerifyHost(p) \/ UndoCreate(p)
           \/ AddMarkReady(p)
  BY <1>1, <1>2, <1>8 DEF LinkAdd, AliasHost, AliasPeer, MovePeer, ConfigureAddress, AddRoute,
                          VerifyHost, UndoCreate, AddMarkReady, CreateStep, CreateFails
<1>9. CASE \/ RollbackDelete(p) \/ RollbackRelease(p) \/ RollbackEnds(p)
           \/ FindHost(p) \/ LinkDel(p) \/ StatPeer(p) \/ FindPeer(p) \/ DelRelease(p) \/ Check(p)
  BY <1>1, <1>2, <1>9 DEF RollbackDelete, RollbackRelease, RollbackEnds, FindHost, LinkDel,
                          StatPeer, FindPeer, DelRelease, Check
<1>10. QED  BY <1>4, <1>5, <1>6, <1>7, <1>8, <1>9 DEF Run, AddNext, DeleteNext

(* Working steps are those of the callback; they keep the lock and the copy. *)
LEMMA WorkKeeps ==
  ASSUME CInv, NEW p \in Proc, Work(p)
  PROVE  lock' = lock /\ active' = active /\ InCallback(tx[p])
<1>1. UNCHANGED storeVars => lock' = lock /\ active' = active  BY DEF storeVars
<1>2. CASE \/ Finish(p) \/ PersistPending(p) \/ PersistReconcile(p) \/ PersistReady(p)
           \/ PersistRelease(p)
  <2>1. CommitDone(p) \/ CommitNotDone(p)  BY <1>2, PersistOutcome
  <2>2. InCallback(tx[p])  BY <1>2, PersistOutcome DEF InCallback
  <2>3. QED  BY <2>1, <2>2, CommitFile
<1>3. CASE \/ AddAllocate(p) \/ ReconcilePending(p) \/ AddMarkReady(p)
  BY <1>3 DEF AddAllocate, ReconcilePending, AddMarkReady, Allocate, MarkPhase,
              Update, At, InCallback
<1>4. CASE \/ AddAllocateFails(p) \/ AddEnsureBridge(p) \/ IdempotencyCheck(p)
           \/ Preflight(p)
  BY <1>1, <1>4 DEF AddAllocateFails, AddEnsureBridge, IdempotencyCheck, Preflight, At,
                    InCallback
<1>5. CASE \/ LinkAdd(p) \/ AliasHost(p) \/ AliasPeer(p) \/ MovePeer(p)
           \/ ConfigureAddress(p) \/ AddRoute(p) \/ VerifyHost(p) \/ UndoCreate(p)
  BY <1>1, <1>5, CreateShape DEF InCallback, Creating
<1>6. CASE FindHost(p) \/ LinkDel(p) \/ StatPeer(p) \/ FindPeer(p)
  BY <1>1, <1>6, DeleteOutcome DEF InCallback, Deleting
<1>7. Release(p, tx[p].key) => lock' = lock /\ active' = active  BY DEF Release, Update
<1>8. CASE RollbackDelete(p) \/ RollbackRelease(p) \/ RollbackEnds(p)
  BY <1>1, <1>7, <1>8, RollbackOutcome DEF InCallback
<1>9. CASE DelRelease(p) \/ Check(p)
  BY <1>1, <1>7, <1>9, FinalOutcome DEF InCallback
<1>10. QED
  BY <1>2, <1>3, <1>4, <1>5, <1>6, <1>8, <1>9 DEF Work, AddNext, DeleteNext

LEMMA SelfAgrees ==
  ASSUME FileInv, NEW p \in Proc, Invoke(p) \/ Lock(p) \/ Run(p) \/ Crash(p)
  PROVE  TxAgrees(p)'
  BY EntryAgrees, AllocateAgrees, PhaseAgrees, CommitAgrees, CreateAgrees, DeleteAgrees,
     RollbackAgrees, AddAgrees
  DEF Run, AddNext, DeleteNext

LEMMA SelfSerial ==
  ASSUME FileInv, NEW p \in Proc, Invoke(p) \/ Lock(p) \/ Run(p) \/ Crash(p)
  PROVE  /\ tx'[p].pc \notin {"idle", "lock"} => lock' = p
         /\ InCallback(tx'[p]) => active'[p]
<1>1. CInv  BY DEF FileInv
<1>2. CASE Invoke(p)
  <2>1. PICK op, k, n, c : Become(p, [Idle EXCEPT !.pc = "lock", !.op = op, !.key = k,
                                                  !.ns = n, !.config = c])
    BY <1>2 DEF Invoke, InvokeAs
  <2> DEFINE t == [Idle EXCEPT !.pc = "lock", !.op = op, !.key = k, !.ns = n, !.config = c]
  <2>2. t.pc = "lock"  BY DEF Idle
  <2> HIDE DEF t
  <2>3. tx'[p] = t  BY <1>1, <2>1, Becomes DEF t
  <2>4. QED  BY <2>2, <2>3 DEF InCallback
<1>3. CASE Lock(p)
  <2>1. tx'[p].pc = "load" /\ lock' = p
    BY <1>1, <1>3, Turns DEF Lock, Steps, Turn, flockExclusive
  <2>2. QED  BY <2>1 DEF InCallback
<1>4. CASE LoadFails(p) \/ Return(p) \/ Crash(p)
  <2>1. tx'[p].pc = "idle"  BY <1>1, <1>4, Fetched
  <2>2. QED  BY <2>1 DEF InCallback
<1>5. CASE Load(p)
  <2>1. loadState(p)  BY <1>1, <1>5, LoadOutcome
  <2>2. lock' = p /\ active'[p]  BY <1>1, <2>1, Here DEF loadState
  <2>3. QED  BY <2>2
<1>6. CASE Work(p)
  <2>1. lock' = lock /\ active' = active /\ InCallback(tx[p])  BY <1>1, <1>6, WorkKeeps
  <2>2. lock = p /\ active[p]  BY <2>1, HereAgrees DEF InCallback
  <2>3. QED  BY <2>1, <2>2
<1>7. QED  BY <1>2, <1>3, <1>4, <1>5, <1>6 DEF Run, Work

(* The others stand still meanwhile; the file may change for those only     *)
(* that do not hold the lock, and a file that changes for them is not one   *)
(* they work with.                                                          *)
LEMMA OthersStand ==
  ASSUME FileInv, NEW p \in Proc, Invoke(p) \/ Lock(p) \/ Run(p) \/ Crash(p),
         NEW q \in Proc, q # p
  PROVE  /\ tx'[q] = tx[q] /\ active'[q] = active[q] /\ mem'[q] = mem[q]
         /\ dirty'[q] = dirty[q]
         /\ tx[q].pc \in {"idle", "lock"} \/ (disk' = disk /\ lock' = lock)
<1>1. CInv /\ ProcStep(p)  BY InvocationStep DEF FileInv
<1>2. tx'[q] = tx[q]  BY <1>1, OneMoves
<1>3. tx[q].pc \notin {"idle", "lock"} => lock = q  BY DEF FileInv, Serial
<1>4. /\ active \in [Proc -> BOOLEAN] /\ mem \in [Proc -> State]
      /\ dirty \in [Proc -> BOOLEAN]
  BY <1>1, Here
<1>5. active[p] => lock = p  BY <1>1 DEF CInv, IInv, CallbackHoldsLock
<1> DEFINE Goal == /\ active'[q] = active[q] /\ mem'[q] = mem[q] /\ dirty'[q] = dirty[q]
                   /\ lock # q \/ (disk' = disk /\ lock' = lock)
<1>6. CASE UNCHANGED storeVars  BY <1>2, <1>6 DEF storeVars
<1>7. CASE flockExclusive(p)
  <2>1. Goal  BY <1>7, StoreAssumption DEF flockExclusive, LockFree
  <2>2. QED  BY <1>2, <1>3, <2>1
<1>8. CASE loadState(p) \/ Unlock(p) \/ CommitRenamed(p) \/ CommitWritten(p)
  <2>1. Goal  BY <1>4, <1>5, <1>8 DEF loadState, Unlock, unlock, CommitRenamed, CommitWritten
  <2>2. QED  BY <1>2, <1>3, <2>1
<1>9. ASSUME NEW s, Update(p, s) PROVE Goal  BY <1>4, <1>9 DEF Update
<1>10. CASE \E k \in Key, c \in Config, n \in NetNS : Allocate(p, k, c, n)
  <2>1. Goal  BY <1>9, <1>10 DEF Allocate
  <2>2. QED  BY <1>2, <1>3, <2>1
<1>11. CASE \E k \in Key, phase \in Phase : MarkPhase(p, k, phase)
  <2>1. Goal  BY <1>9, <1>11 DEF MarkPhase
  <2>2. QED  BY <1>2, <1>3, <2>1
<1>12. CASE \E k \in Key : Release(p, k)
  <2>1. Goal  BY <1>9, <1>12 DEF Release
  <2>2. QED  BY <1>2, <1>3, <2>1
<1>13. QED  BY <1>1, <1>6, <1>7, <1>8, <1>10, <1>11, <1>12 DEF ProcStep, ProcNext

(* The surroundings reach a transaction only through the namespace it holds *)
(* open, and the file only while no invocation has the lock.                *)
LEMMA EnvironmentMoves ==
  ASSUME FileInv, Environment, NEW q \in Proc
  PROVE  /\ \E fd : tx'[q] = [tx[q] EXCEPT !.fd = fd]
         /\ lock' = lock /\ active' = active /\ mem' = mem /\ dirty' = dirty
         /\ disk' = disk \/ lock = NoProc
<1>1. tx[q] \in Tx  BY HereAgrees
<1>2. tx[q] = [tx[q] EXCEPT !.fd = tx[q].fd]  BY <1>1 DEF Tx
<1>3. UNCHANGED storeVars => /\ lock' = lock /\ active' = active /\ mem' = mem
                             /\ dirty' = dirty /\ disk' = disk
  BY DEF storeVars
<1>4. ASSUME NEW n \in NetNS, NamespaceGone(n)
      PROVE  UNCHANGED storeVars /\ \E fd : tx'[q] = [tx[q] EXCEPT !.fd = fd]
  <2>1. tx'[q] = IF tx[q].fd = n THEN [tx[q] EXCEPT !.fd = Limbo] ELSE tx[q]
    BY <1>4 DEF NamespaceGone
  <2>2. QED  BY <1>2, <1>4, <2>1 DEF NamespaceGone
<1>5. CASE UNCHANGED <<storeVars, tx>>  BY <1>2, <1>3, <1>5
<1>6. CASE StateLost \/ StateDamaged
  BY <1>2, <1>6 DEF StateLost, StateDamaged, LoseState, DamageState
<1>7. ASSUME NEW n \in NetNS, NamespaceMade(n) PROVE UNCHANGED <<storeVars, tx>>
  BY <1>7 DEF NamespaceMade
<1>8. ASSUME NEW h \in Name, Drift(h) \/ AdminAdds(h) \/ AdminDeletes(h) \/ HostRenamed(h)
      PROVE  UNCHANGED <<storeVars, tx>>
  BY <1>8 DEF Drift, AdminAdds, AdminDeletes, HostRenamed
<1>9. ASSUME NEW n \in NetNS, NEW i \in Iface, ForeignInterface(n, i)
      PROVE  UNCHANGED <<storeVars, tx>>
  BY <1>9 DEF ForeignInterface
<1>10. QED  BY <1>3, <1>4, <1>5, <1>6, <1>7, <1>8, <1>9 DEF Environment

LEMMA LedgerStep ==
  ASSUME FileInv, [Next]_vars
  PROVE  Serial' /\ Ledger'
<1>1. ASSUME NEW p \in Proc, Invoke(p) \/ Lock(p) \/ Run(p) \/ Crash(p), NEW q \in Proc
      PROVE  /\ tx'[q].pc \notin {"idle", "lock"} => lock' = q
             /\ InCallback(tx'[q]) => active'[q]
             /\ TxAgrees(q)'
  <2>1. CASE q = p  BY <1>1, <2>1, SelfSerial, SelfAgrees
  <2>2. CASE q # p
    <3>1. /\ tx'[q] = tx[q] /\ active'[q] = active[q] /\ mem'[q] = mem[q]
          /\ dirty'[q] = dirty[q]
          /\ tx[q].pc \in {"idle", "lock"} \/ (disk' = disk /\ lock' = lock)
      BY <1>1, <2>2, OthersStand
    <3>2. TxAgrees(q) /\ (tx[q].pc \notin {"idle", "lock"} => lock = q)
          /\ (InCallback(tx[q]) => active[q])
      BY HereAgrees
    <3>3. CASE tx[q].pc \in {"idle", "lock"}
      <4>1. TxAgrees(q)'  BY <3>1, <3>3, OutsideAgrees DEF TxAgrees
      <4>2. QED  BY <3>1, <3>3, <4>1 DEF InCallback
    <3>4. CASE disk' = disk /\ lock' = lock
      <4>1. TxAgrees(q)'  BY <3>1, <3>2, <3>4 DEF TxAgrees, Loaded
      <4>2. QED  BY <3>1, <3>2, <3>4, <4>1
    <3>5. QED  BY <3>1, <3>3, <3>4
  <2>3. QED  BY <2>1, <2>2
<1>2. ASSUME Environment, NEW q \in Proc
      PROVE  /\ tx'[q].pc \notin {"idle", "lock"} => lock' = q
             /\ InCallback(tx'[q]) => active'[q]
             /\ TxAgrees(q)'
  <2>1. /\ \E fd : tx'[q] = [tx[q] EXCEPT !.fd = fd]
        /\ lock' = lock /\ active' = active /\ mem' = mem /\ dirty' = dirty
        /\ disk' = disk \/ lock = NoProc
    BY <1>2, EnvironmentMoves
  <2>2. /\ tx[q] \in Tx /\ TxAgrees(q) /\ (tx[q].pc \notin {"idle", "lock"} => lock = q)
        /\ (InCallback(tx[q]) => active[q])
    BY HereAgrees
  <2>3. PICK fd : tx'[q] = [tx[q] EXCEPT !.fd = fd]  BY <2>1
  <2>4. /\ tx'[q].pc = tx[q].pc /\ tx'[q].undo = tx[q].undo /\ tx'[q].res = tx[q].res
        /\ tx'[q].caller = tx[q].caller /\ tx'[q].op = tx[q].op /\ tx'[q].key = tx[q].key
        /\ tx'[q].ns = tx[q].ns
    BY <2>2, <2>3 DEF Tx
  <2>5. CASE tx[q].pc \in {"idle", "lock"}
    <3>1. TxAgrees(q)'  BY <2>4, <2>5, OutsideAgrees DEF TxAgrees
    <3>2. QED  BY <2>4, <2>5, <3>1 DEF InCallback
  <2>6. CASE disk' = disk
    <3>1. TxAgrees(q)'
      BY <2>1, <2>2, <2>4, <2>6
      DEF TxAgrees, Loaded, Commanded, Agrees, InCallback, Quarantined, Reusing, Succeeding,
          Recovering
    <3>2. QED  BY <2>1, <2>2, <2>4, <3>1 DEF InCallback
  <2>7. QED  BY <2>1, <2>2, <2>5, <2>6, StoreAssumption
<1>3. CASE UNCHANGED vars
  BY <1>3 DEF vars, FileInv, Serial, Ledger, Loaded
<1>4. QED  BY <1>1, <1>2, <1>3 DEF Next, Serial, Ledger, TxAgrees

(* From the start to every later state: where a transaction stands tells    *)
(* what the file and its copy hold.                                         *)
LEMMA FileStep == FileInv /\ [Next]_vars => FileInv'
<1> SUFFICES ASSUME FileInv, [Next]_vars PROVE FileInv'  OBVIOUS
<1>1. CInv' /\ [StoreNext]_storeVars  BY PluginStep DEF FileInv
<1>2. CopyFollowsFile'  BY <1>1, FollowsStep DEF FileInv, CInv
<1>3. QED  BY <1>1, <1>2, LedgerStep DEF FileInv

LEMMA FileInit == Init => FileInv
<1> SUFFICES ASSUME Init PROVE FileInv  OBVIOUS
<1>1. CInv /\ StoreInit  BY PluginInit
<1>2. CopyFollowsFile  BY <1>1 DEF StoreInit, CopyFollowsFile
<1>3. ASSUME NEW p \in Proc PROVE tx[p].pc = "idle"  BY <1>3 DEF Init, Idle
<1>4. Serial  BY <1>3 DEF Serial, InCallback
<1>5. Ledger  BY <1>3, OutsideAgrees DEF Ledger
<1>6. QED  BY <1>1, <1>2, <1>4, <1>5 DEF FileInv

LEMMA FileInvariant == Spec => []FileInv
  BY FileInit, FileStep, PTL DEF Spec

(* A record in what a load would yield is a record in the file. *)
LEMMA RecordInFile ==
  ASSUME FileInv, NEW p \in Proc, InCallback(tx[p]), NEW k \in Key,
         Loaded(disk).endpoints[k] \in Record
  PROVE  /\ Recorded(k) /\ disk = Loaded(disk) /\ RecordOnDisk(k) = Loaded(disk).endpoints[k]
<1>1. active[p] /\ disk # Corrupt  BY HereAgrees DEF FileInv, CopyFollowsFile
<1>2. newPersistedState.endpoints[k] = NoRecord  BY DEF newPersistedState
<1>3. disk # Absent  BY <1>2, StoreStateAssumption DEF Loaded
<1>4. QED  BY <1>1, <1>3, StoreStateAssumption DEF Loaded, Recorded, RecordOnDisk, HasEndpoint

(* Outside the rollback of its own creation, an ADD that deletes the link   *)
(* of an endpoint finds in the file that the endpoint is pending, whatever  *)
(* fails, dies, is lost or is changed by others around it: there is no      *)
(* moment at which a ready record has lost its link to an ADD               *)
(* (service.go:219-231).                                                    *)
THEOREM PendingBeforeDelete == Spec => QuarantinedBeforeDelete
<1>1. ASSUME FileInv, NEW p \in Proc, tx[p].pc = "link-del", tx[p].op = "ADD",
             tx[p].caller # "rollback"
      PROVE  Recorded(Key_(p)) /\ RecordOnDisk(Key_(p)).phase = "pending"
  <2> DEFINE k == tx[p].key
  <2>1. /\ Sound(tx[p], mem[p]) /\ TxAgrees(p) /\ k \in Key
    BY <1>1, HereAgrees
  <2>2. tx[p].pc \in Deleting  BY <1>1 DEF Deleting
  <2>3. tx[p].caller \in {"recover-pending", "reconcile-delete"}
    BY <1>1, <2>1, <2>2 DEF Sound, Callers, TxAgrees, Commanded
  <2>4. Quarantined(tx[p])  BY <2>2, <2>3 DEF Quarantined, Recovering
  <2>5. Loaded(disk).endpoints[k] \in Record /\ Loaded(disk).endpoints[k].phase = "pending"
    BY <2>1, <2>4 DEF TxAgrees, Agrees
  <2>6. InCallback(tx[p])  BY <1>1 DEF InCallback
  <2>7. QED  BY <1>1, <2>1, <2>5, <2>6, RecordInFile DEF Key_
<1>2. FileInv /\ [Next]_vars =>
        [ \A p \in Proc :
            (At(p, "link-del") /\ tx[p].op = "ADD" /\ tx[p].caller # "rollback" /\ pair' # pair)
              => Recorded(Key_(p)) /\ RecordOnDisk(Key_(p)).phase = "pending" ]_vars
  BY <1>1 DEF At
<1>3. QED  BY <1>2, FileInvariant, PTL DEF Spec, QuarantinedBeforeDelete

-----------------------------------------------------------------------------
(* The links: who made them, and which are there at every step.             *)
LinkInv == FileInv /\ KernelTypeOK /\ LinksFollow

LEMMA SetUpOutcome ==
  ASSUME CInv, NEW p \in Proc,
         AliasPeer(p) \/ MovePeer(p) \/ ConfigureAddress(p) \/ AddRoute(p)
  PROVE  LET k == tx[p].key  h == HostName[k]  l == pair[h]
             becomes(q) == pair' = [pair EXCEPT ![h] = q]
         IN
         /\ UNCHANGED <<storeVars, stray, nsUp, foreign>> /\ Kept(p)
         /\ tx[p].pc \in {"alias-peer", "move-peer", "configure", "add-route"}
         /\ \/ pair' = pair /\ Turn(p, "undo-create")
            \/ /\ l # NoPair /\ l.by = k
               /\ \/ /\ tx[p].pc = "alias-peer" /\ Turn(p, "move-peer")
                     /\ becomes([l EXCEPT !.peerAlias = k])
                  \/ /\ tx[p].pc = "move-peer" /\ Turn(p, "configure")
                     /\ becomes([l EXCEPT !.at = tx[p].fd])
                  \/ /\ tx[p].pc = "configure" /\ Turn(p, "add-route") /\ l.alias = k
                     /\ becomes([l EXCEPT !.addr = mem[p].endpoints[k].ip])
                  \/ /\ tx[p].pc = "add-route" /\ Turn(p, "verify-host")
                     /\ becomes([l EXCEPT !.routed = TRUE])
<1>1. {"move-peer", "configure", "add-route", "verify-host"} \subseteq Steps
  BY DEF Steps, Holding, Creating
<1>2. CASE AliasPeer(p)
  <2> DEFINE able == Made(p)
  <2>1. CreateStep(p, "alias-peer", "move-peer", able,
                   [pair[HostName[tx[p].key]] EXCEPT !.peerAlias = tx[p].key])
    BY <1>2 DEF AliasPeer, Host, Key_
  <2>2. able => /\ pair[HostName[tx[p].key]] # NoPair
                /\ pair[HostName[tx[p].key]].by = tx[p].key
    BY DEF Made, Host, Key_
  <2> HIDE DEF able
  <2>3. QED  BY <1>1, <2>1, <2>2, CreateOutcome
<1>3. CASE MovePeer(p)
  <2> DEFINE able == Made(p)
  <2>1. CreateStep(p, "move-peer", "configure", able,
                   [pair[HostName[tx[p].key]] EXCEPT !.at = tx[p].fd])
    BY <1>3 DEF MovePeer, Host, Key_
  <2>2. able => /\ pair[HostName[tx[p].key]] # NoPair
                /\ pair[HostName[tx[p].key]].by = tx[p].key
    BY DEF Made, Host, Key_
  <2> HIDE DEF able
  <2>3. QED  BY <1>1, <2>1, <2>2, CreateOutcome
<1>4. CASE ConfigureAddress(p)
  <2> DEFINE able == Made(p) /\ Owned(HostName[tx[p].key], tx[p].key)
                     /\ ~Occupied(tx[p].fd, IfName[tx[p].key])
             q == [pair[HostName[tx[p].key]] EXCEPT !.addr = mem[p].endpoints[tx[p].key].ip]
  <2>1. CreateStep(p, "configure", "add-route", able, q)
    BY <1>4 DEF ConfigureAddress, Host, Key_, RecordOf
  <2>2. able => /\ pair[HostName[tx[p].key]] # NoPair
                /\ pair[HostName[tx[p].key]].by = tx[p].key
                /\ pair[HostName[tx[p].key]].alias = tx[p].key
    BY DEF Made, Owned, Host, Key_
  <2> HIDE DEF able
  <2>3. QED  BY <1>1, <2>1, <2>2, CreateOutcome
<1>5. CASE AddRoute(p)
  <2> DEFINE able == Made(p) /\ ~HasDefaultRoute(tx[p].fd)
  <2>1. CreateStep(p, "add-route", "verify-host", able,
                   [pair[HostName[tx[p].key]] EXCEPT !.routed = TRUE])
    BY <1>5 DEF AddRoute, Host, Key_
  <2>2. able => /\ pair[HostName[tx[p].key]] # NoPair
                /\ pair[HostName[tx[p].key]].by = tx[p].key
    BY DEF Made, Host, Key_
  <2> HIDE DEF able
  <2>3. QED  BY <1>1, <2>1, <2>2, CreateOutcome
<1>6. QED  BY <1>2, <1>3, <1>4, <1>5

(* From `old` to `new` no link of the plugin is made or changes hands. *)
Unmade(old, new) ==
  \A h \in Name : new[h] # NoPair =>
    \/ new[h].by = Admin /\ new[h].alias = NoKey
    \/ old[h] # NoPair /\ new[h].by = old[h].by /\ new[h].alias = old[h].alias

LEMMA UnmadeFollows ==
  ASSUME NEW old, NEW new, Unmade(old, new)
  PROVE  /\ Attributed(old) => Attributed(new)
         /\ \A k \in Key : NoLinkOf(k, old) => NoLinkOf(k, new)
         /\ \A t, u : /\ Taken(t, old) /\ t.key \in Key
                      /\ u.pc = t.pc /\ u.op = t.op /\ u.key = t.key /\ u.res = t.res
                      => Taken(u, new)
<1>1. Attributed(old) => Attributed(new)  BY DEF Unmade, Attributed
<1>2. \A k \in Key : NoLinkOf(k, old) => NoLinkOf(k, new)
  BY CloudnetAssumption DEF Unmade, NoLinkOf
<1>3. ASSUME NEW t, NEW u, Taken(t, old), t.key \in Key,
             u.pc = t.pc, u.op = t.op, u.key = t.key, u.res = t.res
      PROVE  Taken(u, new)
  <2>1. HostName[t.key] \in Name  BY <1>3, CloudnetAssumption
  <2>2. QED  BY <1>2, <1>3, <2>1 DEF Taken, Unmade, Succeeding
<1>4. QED  BY <1>1, <1>2, <1>3

LEMMA CloseUnmade ==
  ASSUME NEW links \in [Name -> Pair \cup {NoPair}]
  PROVE  /\ Unmade(links, links) /\ Unmade(links, AfterClose(links))
         /\ \A h \in Name : /\ Unmade(links, [links EXCEPT ![h] = NoPair])
                            /\ Unmade(links, AfterClose([links EXCEPT ![h] = NoPair]))
  BY DEF Unmade, AfterClose

(* Without a pair of its host name an endpoint has no link. *)
LEMMA NameFree ==
  ASSUME NEW links, Attributed(links), NEW k \in Key, links[HostName[k]] = NoPair
  PROVE  NoLinkOf(k, links)
  BY CloudnetAssumption DEF Attributed, NoLinkOf

LEMMA HereLinks ==
  ASSUME LinkInv, NEW p \in Proc
  PROVE  /\ CInv /\ FileInv /\ TxAgrees(p) /\ tx[p] \in Tx /\ Sound(tx[p], mem[p])
         /\ pair \in [Name -> Pair \cup {NoPair}] /\ Attributed(pair) /\ Taken(tx[p], pair)
         /\ tx[p].pc # "idle" => tx[p].key \in Key /\ HostName[tx[p].key] \in Name
<1>1. FileInv /\ KernelTypeOK /\ Attributed(pair) /\ Taken(tx[p], pair)
  BY DEF LinkInv, LinksFollow
<1>2. TxAgrees(p) /\ tx[p] \in Tx /\ Sound(tx[p], mem[p])
      /\ (tx[p].pc # "idle" => tx[p].key \in Key)
  BY <1>1, HereAgrees
<1>3. QED  BY <1>1, <1>2, CloudnetAssumption DEF FileInv, KernelTypeOK

(* CreateEndpoint alone makes a link or changes its owner: that of the new  *)
(* link, which it names after its key.                                      *)
Renewed(p) ==
  /\ tx[p].pc \in Creating /\ tx'[p].pc \in Creating \ {"link-add"} /\ Same(tx[p], tx'[p])
  /\ \E q \in Pair : /\ q.by = tx[p].key /\ q.alias \in {NoKey, tx[p].key}
                     /\ pair' = [pair EXCEPT ![HostName[tx[p].key]] = q]

LEMMA CreateLinks ==
  ASSUME LinkInv, NEW p \in Proc,
         \/ LinkAdd(p) \/ AliasHost(p) \/ AliasPeer(p) \/ MovePeer(p)
         \/ ConfigureAddress(p) \/ AddRoute(p) \/ VerifyHost(p) \/ UndoCreate(p)
  PROVE  /\ Unmade(pair, pair') \/ Renewed(p)
         /\ Taken(tx'[p], pair')
<1> DEFINE r == tx[p]
           t == tx'[p]
           k == r.key
           h == HostName[k]
           l == pair[h]
<1>1. /\ CInv /\ Sound(r, mem[p]) /\ r \in Tx /\ mem[p] \in State
      /\ pair \in [Name -> Pair \cup {NoPair}] /\ Attributed(pair) /\ Taken(r, pair)
  BY HereLinks, Here
<1>2. /\ r.pc \in Creating /\ t.pc \in Creating \cup {"mark-ready", "rollback"}
      /\ Same(r, t)
  BY <1>1, CreateShape
<1>3. r.pc # "idle"  BY <1>2 DEF Creating
<1>4. k \in Key /\ h \in Name /\ r.op = "ADD"
  BY <1>1, <1>2, <1>3, HereLinks DEF Sound, Holding
<1>5. r.fd \in PairAt /\ mem[p].endpoints[k].ip \in Addr
  BY <1>1, <1>2 DEF Sound, Holding, Record, PairAt
<1>6. l # NoPair => l \in Pair /\ l.alias \in {NoKey, l.by}
  BY <1>1, <1>4 DEF Attributed
<1>7. ASSUME NEW q \in Pair, q.by = k, q.alias \in {NoKey, k},
             pair' = [pair EXCEPT ![h] = q], t.pc \in Creating \ {"link-add"}
      PROVE  Renewed(p) /\ Taken(t, pair')
  <2>1. Renewed(p)  BY <1>2, <1>7 DEF Renewed
  <2>2. pair'[h] = q  BY <1>1, <1>4, <1>7
  <2>3. t.key = k  BY <1>2 DEF Same
  <2>4. t.pc \notin {"link-add", "stat-peer", "find-peer", "release"} /\ ~Succeeding(t, "DEL")
    BY <1>7 DEF Creating, Succeeding
  <2>5. QED  BY <1>7, <2>1, <2>2, <2>3, <2>4 DEF Taken
<1>8. ASSUME Unmade(pair, pair'), t.pc \in {"mark-ready", "rollback"} PROVE Taken(t, pair')
  BY <1>8 DEF Taken, Creating, Succeeding
<1>9. ASSUME pair' = pair, t.pc \in {"undo-create", "undo-by-name"},
             r.pc \in Creating \ {"link-add"}
      PROVE  Unmade(pair, pair') /\ Taken(t, pair')
  BY <1>1, <1>2, <1>9, CloseUnmade DEF Taken, Creating, Succeeding, Same
<1>10. CASE LinkAdd(p)
  <2>1. \/ pair' = [pair EXCEPT ![h] = NewPairOf(k)] /\ t.pc = "alias-host"
        \/ pair' = AfterClose(pair) /\ t.pc = "rollback"
    BY <1>1, <1>10, LinkAddOutcome DEF Turn, Onward
  <2>2. NewPairOf(k) \in Pair /\ NewPairOf(k).by = k /\ NewPairOf(k).alias = NoKey
    BY <1>4, NewPair DEF NewPairOf
  <2>3. "alias-host" \in Creating \ {"link-add"}  BY DEF Creating
  <2>4. QED  BY <1>1, <1>7, <1>8, <2>1, <2>2, <2>3, CloseUnmade
<1>11. CASE AliasHost(p)
  <2>1. /\ r.pc = "alias-host"
        /\ \/ /\ l # NoPair /\ l.by = k /\ pair' = [pair EXCEPT ![h] = [l EXCEPT !.alias = k]]
              /\ t.pc = "alias-peer"
           \/ pair' = pair /\ t.pc = "undo-by-name"
    BY <1>1, <1>11, AliasHostOutcome DEF Turn
  <2>2. l # NoPair => /\ [l EXCEPT !.alias = k] \in Pair /\ [l EXCEPT !.alias = k].by = l.by
                      /\ [l EXCEPT !.alias = k].alias = k
    BY <1>4, <1>6, PairChanges DEF Pair
  <2>3. {"alias-host", "alias-peer"} \subseteq Creating \ {"link-add"}  BY DEF Creating
  <2>4. QED  BY <1>7, <1>9, <2>1, <2>2, <2>3
<1>12. CASE AliasPeer(p) \/ MovePeer(p) \/ ConfigureAddress(p) \/ AddRoute(p)
  <2>1. ASSUME l \in Pair, NEW q \in Pair, q.by = l.by, q.alias = l.alias, l.by = k,
               pair' = [pair EXCEPT ![h] = q],
               t.pc \in {"move-peer", "configure", "add-route", "verify-host"}
        PROVE  Renewed(p) /\ Taken(t, pair')
    <3>1. q.alias \in {NoKey, k} /\ l # NoPair  BY <1>6, <2>1, CloudnetAssumption
    <3>2. t.pc \in Creating \ {"link-add"}  BY <2>1 DEF Creating
    <3>3. QED  BY <1>7, <2>1, <3>1, <3>2
  <2>2. r.pc \in Creating \ {"link-add"}  BY <1>1, <1>12, SetUpOutcome DEF Creating
  <2>3. CASE pair' = pair /\ t.pc = "undo-create"  BY <1>9, <2>2, <2>3
  <2>4. CASE /\ l # NoPair /\ l.by = k /\ t.pc = "move-peer"
             /\ pair' = [pair EXCEPT ![h] = [l EXCEPT !.peerAlias = k]]
    <3>1. l \in Pair /\ [l EXCEPT !.peerAlias = k] \in Pair
          /\ [l EXCEPT !.peerAlias = k].by = l.by
          /\ [l EXCEPT !.peerAlias = k].alias = l.alias
      BY <1>4, <1>6, <2>4, PairChanges DEF Pair
    <3>2. QED  BY <2>1, <2>4, <3>1
  <2>5. CASE /\ l # NoPair /\ l.by = k /\ t.pc = "configure"
             /\ pair' = [pair EXCEPT ![h] = [l EXCEPT !.at = r.fd]]
    <3>1. l \in Pair /\ [l EXCEPT !.at = r.fd] \in Pair
          /\ [l EXCEPT !.at = r.fd].by = l.by
          /\ [l EXCEPT !.at = r.fd].alias = l.alias
      BY <1>5, <1>6, <2>5 DEF Pair
    <3>2. QED  BY <2>1, <2>5, <3>1
  <2>6. CASE /\ l # NoPair /\ l.by = k /\ t.pc = "add-route"
             /\ pair' = [pair EXCEPT ![h] = [l EXCEPT !.addr = mem[p].endpoints[k].ip]]
    <3> DEFINE a == mem[p].endpoints[k].ip
    <3>1. l \in Pair /\ [l EXCEPT !.addr = a] \in Pair
          /\ [l EXCEPT !.addr = a].by = l.by /\ [l EXCEPT !.addr = a].alias = l.alias
      BY <1>5, <1>6, <2>6, PairChanges DEF Pair
    <3>2. QED  BY <2>1, <2>6, <3>1
  <2>7. CASE /\ l # NoPair /\ l.by = k /\ t.pc = "verify-host"
             /\ pair' = [pair EXCEPT ![h] = [l EXCEPT !.routed = TRUE]]
    <3>1. l \in Pair /\ [l EXCEPT !.routed = TRUE] \in Pair
          /\ [l EXCEPT !.routed = TRUE].by = l.by
          /\ [l EXCEPT !.routed = TRUE].alias = l.alias
      BY <1>6, <2>7, PairChanges DEF Pair
    <3>2. QED  BY <2>1, <2>7, <3>1
  <2>8. QED
    BY <1>1, <1>12, <2>3, <2>4, <2>5, <2>6, <2>7, SetUpOutcome DEF Turn
<1>13. CASE VerifyHost(p)
  <2>1. r.pc \in Creating \ {"link-add"}  BY <1>1, <1>13, VerifyOutcome DEF Creating
  <2>2. \/ pair' = AfterClose(pair) /\ t.pc = "mark-ready"
        \/ pair' = pair /\ t.pc = "undo-create"
    BY <1>1, <1>13, VerifyOutcome DEF Turn, Onward
  <2>3. QED  BY <1>1, <1>8, <1>9, <2>1, <2>2, CloseUnmade
<1>14. CASE UndoCreate(p)
  <2>1. /\ t.pc = "rollback"
        /\ \/ pair' = AfterClose(pair)
           \/ pair' = AfterClose([pair EXCEPT ![h] = NoPair])
    BY <1>1, <1>14, UndoOutcome DEF Turn, Onward
  <2>2. QED  BY <1>1, <1>4, <1>8, <2>1, CloseUnmade
<1>15. QED  BY <1>10, <1>11, <1>12, <1>13, <1>14

LEMMA DeleteLinks ==
  ASSUME LinkInv, NEW p \in Proc, FindHost(p) \/ LinkDel(p) \/ StatPeer(p) \/ FindPeer(p)
  PROVE  /\ Unmade(pair, pair') /\ Taken(tx'[p], pair')
         /\ Returns(p) => NoLinkOf(tx[p].key, pair')
<1> DEFINE r == tx[p]
           t == tx'[p]
           k == r.key
           h == HostName[k]
<1>1. /\ CInv /\ Sound(r, mem[p]) /\ r \in Tx
      /\ pair \in [Name -> Pair \cup {NoPair}] /\ Attributed(pair) /\ Taken(r, pair)
  BY HereLinks
<1>2. /\ r.pc \in Deleting
      /\ \/ r.pc = "find-host" /\ Turn(p, "link-del") /\ pair' = pair
         \/ r.pc = "find-host" /\ pair[h] = NoPair /\ Turn(p, "stat-peer") /\ pair' = pair
         \/ r.pc = "stat-peer" /\ Turn(p, "find-peer") /\ pair' = pair
         \/ r.pc = "find-host" /\ pair[h] = NoPair /\ Returns(p) /\ pair' = pair
         \/ r.pc = "link-del" /\ Owned(h, k) /\ Returns(p) /\ pair' = [pair EXCEPT ![h] = NoPair]
         \/ r.pc \in {"stat-peer", "find-peer"} /\ Returns(p) /\ pair' = pair
         \/ GivesUp(p) /\ pair' = pair
  BY <1>1, DeleteOutcome
<1>3. k \in Key /\ h \in Name  BY <1>2, HereLinks DEF Deleting
<1>4. Unmade(pair, pair')  BY <1>1, <1>2, <1>3, CloseUnmade
<1>5. pair[h] = NoPair => NoLinkOf(k, pair)  BY <1>1, <1>3, NameFree
<1>6. pair' = [pair EXCEPT ![h] = NoPair] => NoLinkOf(k, pair')
  <2>1. SUFFICES ASSUME pair' = [pair EXCEPT ![h] = NoPair] PROVE NoLinkOf(k, pair')
    OBVIOUS
  <2>2. Attributed(pair')  BY <1>1, <1>4, UnmadeFollows
  <2>3. pair'[h] = NoPair  BY <1>1, <1>3, <2>1
  <2>4. QED  BY <1>3, <2>2, <2>3, NameFree
<1>7. r.pc \in {"stat-peer", "find-peer"} => NoLinkOf(k, pair)  BY <1>1 DEF Taken
<1>8. t.key = k  BY <1>2 DEF Turn, Same, Returns, GivesUp, Fails
<1>9. \/ t.pc \in {"link-del", "ensure-bridge", "create-veth", "rollback"}
      \/ t.pc = "unlock" /\ t.res = "err"
      \/ t.pc \in {"stat-peer", "find-peer", "release"} /\ NoLinkOf(k, pair')
  BY <1>2, <1>5, <1>6, <1>7 DEF Turn, Returns, GivesUp, Fails
<1>10. Returns(p) => NoLinkOf(k, pair')
  <2>1. Returns(p) => ~GivesUp(p)  BY Stacks DEF Turn, Returns, GivesUp, Fails
  <2>2. QED  BY <1>2, <1>5, <1>6, <1>7, <2>1 DEF Turn, Returns
<1>11. QED  BY <1>4, <1>8, <1>9, <1>10 DEF Taken, Creating, Succeeding

(* All other steps of an invocation leave the links alone, but a process    *)
(* that dies closes the namespace it holds.                                 *)
LEMMA OtherLinks ==
  ASSUME LinkInv, NEW p \in Proc,
         \/ Invoke(p) \/ Lock(p) \/ Load(p) \/ LoadFails(p) \/ Return(p) \/ Crash(p)
         \/ AddAllocate(p) \/ AddAllocateFails(p) \/ AddEnsureBridge(p) \/ IdempotencyCheck(p)
         \/ ReconcilePending(p) \/ Preflight(p) \/ AddMarkReady(p)
         \/ Finish(p) \/ PersistPending(p) \/ PersistReconcile(p) \/ PersistReady(p)
         \/ PersistRelease(p)
         \/ RollbackDelete(p) \/ RollbackRelease(p) \/ RollbackEnds(p)
         \/ DelRelease(p) \/ Check(p)
  PROVE  /\ pair' = pair \/ (Crash(p) /\ pair' = AfterClose(pair))
         /\ stray' = stray
         /\ Unmade(pair, pair') /\ Taken(tx'[p], pair')
<1> DEFINE r == tx[p]
           t == tx'[p]
           k == r.key
           h == HostName[k]
           Plain == t.pc \notin Creating \cup {"stat-peer", "find-peer", "release", "finish",
                                              "unlock"}
<1>1. /\ CInv /\ Sound(r, mem[p]) /\ TxAgrees(p) /\ r \in Tx /\ Attributed(pair)
      /\ pair \in [Name -> Pair \cup {NoPair}] /\ Taken(r, pair)
  BY HereLinks
<1>2. UNCHANGED kernelVars => pair' = pair /\ stray' = stray  BY DEF kernelVars
<1>3. Plain => Taken(t, pair')  BY DEF Taken, Succeeding, Creating
<1>4. t.pc = "unlock" /\ t.res = "err" => Taken(t, pair')
  BY DEF Taken, Succeeding, Creating
<1>5. t.pc \in {"finish", "unlock"} /\ t.op # "DEL" => Taken(t, pair')
  BY DEF Taken, Succeeding, Creating
<1>6. pair' = pair => Unmade(pair, pair')  BY <1>1, CloseUnmade
<1>7. CASE Invoke(p)
  <2>1. PICK op, c, n, j :
          /\ Become(p, [Idle EXCEPT !.pc = "lock", !.op = op, !.key = j, !.ns = n,
                                    !.config = c])
          /\ UNCHANGED kernelVars
    BY <1>7 DEF Invoke, InvokeAs
  <2> DEFINE u == [Idle EXCEPT !.pc = "lock", !.op = op, !.key = j, !.ns = n, !.config = c]
  <2>2. u.pc = "lock"  BY DEF Idle
  <2> HIDE DEF u
  <2>3. t = u  BY <1>1, <2>1, Becomes DEF u
  <2>4. Plain  BY <2>2, <2>3 DEF Creating
  <2>5. QED  BY <1>2, <1>3, <1>6, <2>1, <2>4
<1>8. CASE Lock(p)
  <2>1. t.pc = "load"  BY <1>1, <1>8, Turns DEF Lock, Steps, Turn
  <2>2. UNCHANGED kernelVars  BY <1>8 DEF Lock
  <2>3. QED  BY <1>2, <1>3, <1>6, <2>1, <2>2 DEF Creating
<1>9. CASE Load(p)
  <2>1. UNCHANGED kernelVars /\ t.pc \in {"allocate", "check", "find-host"}
    BY <1>1, <1>9, LoadOutcome DEF Turn
  <2>2. QED  BY <1>2, <1>3, <1>6, <2>1 DEF Creating
<1>10. CASE LoadFails(p) \/ Return(p) \/ Crash(p)
  <2>1. t.pc = "idle"  BY <1>1, <1>10, Fetched
  <2>2. stray' = stray /\ (pair' = pair \/ (Crash(p) /\ pair' = AfterClose(pair)))
    BY <1>2, <1>10 DEF LoadFails, Return, Crash
  <2>3. QED  BY <1>1, <1>3, <2>1, <2>2, CloseUnmade DEF Creating
<1>11. CASE AddAllocate(p)
  <2>1. UNCHANGED kernelVars /\ t.pc \in {"persist-pending", "find-host", "ensure-bridge"}
    BY <1>1, <1>11, AllocateOutcome DEF Turn
  <2>2. QED  BY <1>2, <1>3, <1>6, <2>1 DEF Creating
<1>12. CASE AddEnsureBridge(p)
  <2>1. /\ UNCHANGED kernelVars
        /\ t.pc \in {"idempotency-check", "create-veth", "rollback"}
    BY <1>1, <1>12, BridgeOutcome DEF Turn
  <2>2. QED  BY <1>2, <1>3, <1>6, <2>1 DEF Creating
<1>13. CASE IdempotencyCheck(p)
  <2>1. UNCHANGED kernelVars /\ t.op = "ADD" /\ t.pc \in {"finish", "reconcile-pending"}
    BY <1>1, <1>13, IdempotencyOutcome DEF Turn, Same, Sound, Holding
  <2>2. QED  BY <1>2, <1>3, <1>5, <1>6, <2>1 DEF Creating
<1>14. CASE ReconcilePending(p) \/ AddMarkReady(p)
  <2>1. UNCHANGED kernelVars /\ t.pc \in {"persist-reconcile", "persist-ready"}
    BY <1>1, <1>14, MarkOutcome DEF Turn
  <2>2. QED  BY <1>2, <1>3, <1>6, <2>1 DEF Creating
<1>15. CASE Preflight(p)
  <2>1. /\ UNCHANGED kernelVars /\ r.pc = "create-veth" /\ t.key = k
        /\ t.pc = "rollback" \/ (t.pc = "link-add" /\ pair[h] = NoPair)
    BY <1>1, <1>15, PreflightOutcome DEF Turn, Same
  <2>2. k \in Key  BY <2>1, HereLinks
  <2>3. t.pc = "link-add" => NoLinkOf(k, pair)  BY <1>1, <2>1, <2>2, NameFree
  <2>4. t.pc = "link-add" => Taken(t, pair')
    BY <1>2, <2>1, <2>3 DEF Taken, Succeeding, Creating
  <2>5. QED  BY <1>2, <1>3, <1>6, <2>1, <2>4 DEF Creating
<1>16. CASE \/ Finish(p) \/ PersistPending(p) \/ PersistReconcile(p) \/ PersistReady(p)
            \/ PersistRelease(p)
  <2>1. /\ UNCHANGED kernelVars /\ Same(r, t)
        /\ \/ r.pc = "finish" /\ t.pc = "unlock" /\ t.res = "ok"
           \/ t.pc = "unlock" /\ t.res = "err"
           \/ t.pc \in {"ensure-bridge", "find-host", "rollback"}
           \/ r.pc = "persist-ready" /\ t.pc = "finish"
    BY <1>1, <1>16, PersistOutcome DEF Turn, Fails
  <2>2. CASE r.pc = "finish" /\ t.pc = "unlock" /\ t.res = "ok"
    <3>1. Taken(t, pair')
      BY <1>1, <1>2, <2>1, <2>2 DEF Taken, Succeeding, Same, Creating
    <3>2. QED  BY <1>2, <1>6, <2>1, <3>1
  <2>3. CASE r.pc = "persist-ready" /\ t.pc = "finish"
    <3>1. t.op = "ADD"  BY <1>1, <2>1, <2>3 DEF Sound, Holding, Same
    <3>2. QED  BY <1>2, <1>5, <1>6, <2>1, <2>3, <3>1
  <2>4. QED  BY <1>2, <1>3, <1>4, <1>6, <2>1, <2>2, <2>3 DEF Creating
<1>17. CASE RollbackDelete(p) \/ RollbackRelease(p) \/ RollbackEnds(p)
  <2>1. /\ UNCHANGED kernelVars
        /\ t.pc \in {"find-host", "persist-release"} \/ (t.pc = "unlock" /\ t.res = "err")
    BY <1>1, <1>17, RollbackOutcome DEF Turn, Fails
  <2>2. QED  BY <1>2, <1>3, <1>4, <1>6, <2>1 DEF Creating
<1>18. CASE DelRelease(p) \/ Check(p) \/ AddAllocateFails(p)
  <2>1. /\ UNCHANGED kernelVars
        /\ \/ r.pc \in {"release", "check"} /\ t.pc = "finish" /\ Same(r, t)
           \/ t.pc = "unlock" /\ t.res = "err"
    BY <1>1, <1>18, FinalOutcome DEF Turn, Fails
  <2>2. CASE r.pc = "release" /\ t.pc = "finish" /\ Same(r, t)
    <3>1. Taken(t, pair')
      BY <1>1, <1>2, <2>1, <2>2 DEF Taken, Succeeding, Same, Creating
    <3>2. QED  BY <1>2, <1>6, <2>1, <3>1
  <2>3. CASE r.pc = "check" /\ t.pc = "finish" /\ Same(r, t)
    <3>1. t.op = "CHECK"  BY <1>1, <2>3 DEF TxAgrees, Commanded, Same
    <3>2. QED  BY <1>2, <1>5, <1>6, <2>1, <2>3, <3>1
  <2>4. QED  BY <1>2, <1>4, <1>6, <2>1, <2>2, <2>3
<1>19. QED
  BY <1>7, <1>8, <1>9, <1>10, <1>11, <1>12, <1>13, <1>14, <1>15, <1>16, <1>17, <1>18

LEMMA InvocationLinkage ==
  ASSUME LinkInv, NEW p \in Proc, Invoke(p) \/ Lock(p) \/ Run(p) \/ Crash(p)
  PROVE  (Unmade(pair, pair') \/ Renewed(p)) /\ Taken(tx'[p], pair')
  BY CreateLinks, DeleteLinks, OtherLinks DEF Run, AddNext, DeleteNext

(* At a step of the callback of p all others wait or are idle. *)
LEMMA Alone ==
  ASSUME FileInv, NEW p \in Proc, tx[p].pc \notin {"idle", "lock"}, NEW q \in Proc, q # p
  PROVE  tx[q].pc \in {"idle", "lock"}
  BY DEF FileInv, Serial

LEMMA WaitingTaken ==
  ASSUME NEW t, t.pc \in {"idle", "lock"}, NEW links
  PROVE  Taken(t, links)
  BY DEF Taken, Creating, Succeeding

LEMMA EnvironmentUnmade ==
  ASSUME LinkInv, Environment
  PROVE  Unmade(pair, pair')
<1>1. pair \in [Name -> Pair \cup {NoPair}]  BY DEF LinkInv, KernelTypeOK
<1>2. ASSUME NEW n \in NetNS, NamespaceGone(n) PROVE Unmade(pair, pair')
  <2>1. ASSUME NEW h \in Name, pair'[h] # NoPair
        PROVE  /\ pair[h] # NoPair /\ pair'[h].by = pair[h].by
               /\ pair'[h].alias = pair[h].alias
    <3>1. pair'[h] = IF pair[h] = NoPair \/ pair[h].at # n THEN pair[h]
                     ELSE IF HeldOpen(n) THEN [pair[h] EXCEPT !.at = Limbo] ELSE NoPair
      BY <1>2 DEF NamespaceGone
    <3>2. pair[h] # NoPair => pair[h] \in Pair  BY <1>1
    <3>3. pair[h] # NoPair => /\ [pair[h] EXCEPT !.at = Limbo].by = pair[h].by
                              /\ [pair[h] EXCEPT !.at = Limbo].alias = pair[h].alias
      BY <3>2 DEF Pair
    <3>4. QED  BY <2>1, <3>1, <3>3
  <2>2. QED  BY <2>1 DEF Unmade
<1>3. ASSUME NEW h \in Name, Drift(h) PROVE Unmade(pair, pair')
  <2>1. /\ pair[h] \in Pair /\ pair[h] # NoPair
        /\ pair' = [pair EXCEPT ![h] = [pair[h] EXCEPT !.routed = FALSE]]
    BY <1>1, <1>3 DEF Drift
  <2> DEFINE q == [pair[h] EXCEPT !.routed = FALSE]
  <2>2. q.by = pair[h].by /\ q.alias = pair[h].alias  BY <2>1 DEF Pair
  <2> HIDE DEF q
  <2>3. pair' = [pair EXCEPT ![h] = q]  BY <2>1 DEF q
  <2>4. QED  BY <1>1, <2>1, <2>2, <2>3 DEF Unmade
<1>4. ASSUME NEW h \in Name, AdminAdds(h) PROVE Unmade(pair, pair')
  <2> DEFINE q == [by |-> Admin, alias |-> NoKey, peerAlias |-> NoKey,
                   at |-> HostNS, addr |-> NoAddr, routed |-> FALSE]
  <2>1. pair' = [pair EXCEPT ![h] = q] /\ q.by = Admin /\ q.alias = NoKey
    BY <1>4 DEF AdminAdds
  <2> HIDE DEF q
  <2>2. QED  BY <1>1, <2>1 DEF Unmade
<1>5. ASSUME NEW h \in Name, AdminDeletes(h) \/ HostRenamed(h) PROVE Unmade(pair, pair')
  BY <1>1, <1>5, CloseUnmade DEF AdminDeletes, HostRenamed
<1>6. CASE pair' = pair  BY <1>1, <1>6, CloseUnmade
<1>7. ASSUME NEW n \in NetNS, NamespaceMade(n) PROVE pair' = pair
  BY <1>7 DEF NamespaceMade
<1>8. ASSUME NEW n \in NetNS, NEW i \in Iface, ForeignInterface(n, i) PROVE pair' = pair
  BY <1>8 DEF ForeignInterface
<1>9. StateLost \/ StateDamaged => pair' = pair  BY DEF StateLost, StateDamaged, kernelVars
<1>10. QED  BY <1>2, <1>3, <1>4, <1>5, <1>6, <1>7, <1>8, <1>9 DEF Environment

LEMMA LinkStep == LinkInv /\ [Next]_vars => LinkInv'
<1> SUFFICES ASSUME LinkInv, [Next]_vars PROVE LinkInv'  OBVIOUS
<1>1. FileInv' /\ KernelTypeOK'
  BY FileStep, KernelStep DEF LinkInv, FileInv
<1>2. FileInv /\ CInv /\ pair \in [Name -> Pair \cup {NoPair}] /\ Attributed(pair)
  BY DEF LinkInv, LinksFollow, FileInv, KernelTypeOK
<1>3. ASSUME NEW p \in Proc, Invoke(p) \/ Lock(p) \/ Run(p) \/ Crash(p)
      PROVE  LinksFollow'
  <2>1. (Unmade(pair, pair') \/ Renewed(p)) /\ Taken(tx'[p], pair')
    BY <1>3, InvocationLinkage
  <2>2. \A q \in Proc \ {p} : tx'[q] = tx[q]  BY <1>2, <1>3, OneMoves
  <2>3. CASE Unmade(pair, pair')
    <3>1. Attributed(pair')  BY <1>2, <2>3, UnmadeFollows
    <3>2. ASSUME NEW q \in Proc, q # p PROVE Taken(tx'[q], pair')
      <4>1. tx'[q] = tx[q] /\ Taken(tx[q], pair) /\ (tx[q].pc # "idle" => tx[q].key \in Key)
        BY <2>2, <3>2, HereLinks
      <4>2. CASE tx[q].pc \in {"idle", "lock"}  BY <4>1, <4>2, WaitingTaken
      <4>3. CASE tx[q].pc # "idle"  BY <2>3, <4>1, <4>3, UnmadeFollows
      <4>4. QED  BY <4>2, <4>3
    <3>3. QED  BY <2>1, <3>1, <3>2 DEF LinksFollow
  <2>4. CASE Renewed(p)
    <3> DEFINE k == tx[p].key
    <3>1. PICK q \in Pair : /\ q.by = k /\ q.alias \in {NoKey, k}
                            /\ pair' = [pair EXCEPT ![HostName[k]] = q]
      BY <2>4 DEF Renewed
    <3>2. tx[p].pc \notin {"idle", "lock"}  BY <2>4 DEF Renewed, Creating
    <3>3. Attributed(pair')  BY <1>2, <3>1 DEF Attributed
    <3>4. ASSUME NEW j \in Proc, j # p PROVE Taken(tx'[j], pair')
      BY <1>2, <2>2, <3>2, <3>4, Alone, WaitingTaken
    <3>5. QED  BY <2>1, <3>3, <3>4 DEF LinksFollow
  <2>5. QED  BY <2>1, <2>3, <2>4
<1>4. CASE Environment
  <2>1. Unmade(pair, pair')  BY <1>4, EnvironmentUnmade
  <2>2. Attributed(pair')  BY <1>2, <2>1, UnmadeFollows
  <2>3. ASSUME NEW q \in Proc PROVE Taken(tx'[q], pair')
    <3>1. tx[q] \in Tx /\ Taken(tx[q], pair) /\ (tx[q].pc # "idle" => tx[q].key \in Key)
      BY HereLinks
    <3>2. PICK fd : tx'[q] = [tx[q] EXCEPT !.fd = fd]  BY <1>2, <1>4, EnvironmentMoves
    <3>3. /\ tx'[q].pc = tx[q].pc /\ tx'[q].op = tx[q].op /\ tx'[q].key = tx[q].key
          /\ tx'[q].res = tx[q].res
      BY <3>1, <3>2 DEF Tx
    <3>4. CASE tx[q].pc = "idle"  BY <3>3, <3>4, WaitingTaken
    <3>5. CASE tx[q].pc # "idle"  BY <2>1, <3>1, <3>3, <3>5, UnmadeFollows
    <3>6. QED  BY <3>4, <3>5
  <2>4. LinksFollow'  BY <2>2, <2>3 DEF LinksFollow
  <2>5. QED  BY <1>1, <2>4 DEF LinkInv
<1>5. CASE UNCHANGED vars
  <2>1. pair' = pair /\ tx' = tx  BY <1>5 DEF vars
  <2>2. LinksFollow'  BY <2>1 DEF LinkInv, LinksFollow
  <2>3. QED  BY <1>1, <2>2 DEF LinkInv
<1>6. QED  BY <1>1, <1>3, <1>4, <1>5 DEF Next, LinkInv

LEMMA LinkInit == Init => LinkInv
<1> SUFFICES ASSUME Init PROVE LinkInv  OBVIOUS
<1>1. KernelTypeOK  BY CloudnetAssumption DEF Init, KernelTypeOK
<1>2. Attributed(pair)  BY DEF Init, Attributed
<1>3. ASSUME NEW p \in Proc PROVE tx[p].pc = "idle"  BY <1>3 DEF Init, Idle
<1>4. QED  BY <1>1, <1>2, <1>3, FileInit, WaitingTaken DEF LinkInv, LinksFollow

LEMMA LinkInvariant == Spec => []LinkInv
  BY LinkInit, LinkStep, PTL DEF Spec

(* What an invocation deletes is a link that it made itself for the         *)
(* endpoint it works on, or that a deleted namespace takes with it, or,     *)
(* while CreateEndpoint has not yet looked up the link it just made, the    *)
(* one an administrator put under the same name meanwhile: whatever names   *)
(* collide, processes die and administrators do (cleanup.go:27,             *)
(* ownership.go:11-24, veth.go:47-60).                                      *)
THEOREM PluginDeletesOwnLinks == Spec => OnlyOwnLinksDeleted
<1> DEFINE Mine(p, h) == \/ pair[h].by = Key_(p)
                         \/ At(p, "undo-by-name") /\ pair[h].by = Admin
                         \/ pair[h].at = Limbo
<1>1. ASSUME LinkInv, NEW p \in Proc, NEW h \in Name, Run(p), pair[h] # NoPair,
             pair'[h] # pair[h], pair'[h] = NoPair
      PROVE  Mine(p, h)
  <2> DEFINE r == tx[p]
             k == r.key
             g == HostName[k]
  <2>1. /\ CInv /\ FileInv /\ pair \in [Name -> Pair \cup {NoPair}] /\ Attributed(pair)
        /\ Taken(r, pair)
    BY <1>1, HereLinks
  <2>2. pair' = AfterClose(pair) => Mine(p, h)  BY <1>1 DEF AfterClose
  <2>3. Unmade(pair, pair') \/ Renewed(p)  BY <1>1, InvocationLinkage
  <2>4. CASE Renewed(p)
    <3>1. PICK q \in Pair : pair' = [pair EXCEPT ![g] = q]  BY <2>4 DEF Renewed
    <3>2. q # NoPair  BY CloudnetAssumption
    <3>3. QED  BY <1>1, <2>1, <3>1, <3>2
  <2>5. CASE UndoCreate(p)
    <3>1. /\ r.pc \in {"undo-create", "undo-by-name"}
          /\ \/ pair' = AfterClose(pair)
             \/ /\ pair[g] # NoPair /\ (r.pc = "undo-create" => pair[g].by = k)
                /\ pair' = AfterClose([pair EXCEPT ![g] = NoPair])
      BY <2>1, <2>5, UndoOutcome
    <3>2. pair[g] # NoPair => pair[g].by \in {k, Admin}
      BY <2>1, <3>1 DEF Taken, Creating
    <3>3. ASSUME pair' = AfterClose([pair EXCEPT ![g] = NoPair]), h # g PROVE pair[h].at = Limbo
      BY <1>1, <2>1, <3>3 DEF AfterClose
    <3>4. QED  BY <2>2, <3>1, <3>2, <3>3 DEF At, Key_
  <2>6. CASE LinkAdd(p) \/ VerifyHost(p)
    <3>1. LinkAdd(p) => Renewed(p) \/ pair' = AfterClose(pair)
      <4>1. SUFFICES ASSUME LinkAdd(p), pair' # AfterClose(pair) PROVE Renewed(p)
        OBVIOUS
      <4>2. /\ r.pc = "link-add" /\ Turn(p, "alias-host")
            /\ pair' = [pair EXCEPT ![g] = NewPairOf(k)]
        BY <2>1, <4>1, LinkAddOutcome
      <4>3. k \in Key  BY <1>1, <4>2, HereLinks
      <4>4. NewPairOf(k) \in Pair /\ NewPairOf(k).by = k /\ NewPairOf(k).alias = NoKey
        BY <4>3, NewPair DEF NewPairOf
      <4>5. QED  BY <4>2, <4>4 DEF Renewed, Turn, Creating
    <3>2. VerifyHost(p) => pair' = AfterClose(pair) \/ pair' = pair  BY <2>1, VerifyOutcome
    <3>3. QED  BY <1>1, <2>2, <2>4, <2>6, <3>1, <3>2
  <2>7. CASE AliasHost(p) \/ AliasPeer(p) \/ MovePeer(p) \/ ConfigureAddress(p) \/ AddRoute(p)
    <3>1. PICK q : pair[g] # NoPair /\ pair[g].by = k /\ pair' = [pair EXCEPT ![g] = q]
      BY <1>1, <2>1, <2>7, AliasHostOutcome, SetUpOutcome
    <3>2. QED  BY <1>1, <2>1, <3>1 DEF Key_
  <2>8. CASE FindHost(p) \/ LinkDel(p) \/ StatPeer(p) \/ FindPeer(p)
    <3>1. r.pc \in Deleting /\ Owned(g, k) /\ pair' = [pair EXCEPT ![g] = NoPair]
      BY <1>1, <2>1, <2>8, DeleteOutcome
    <3>2. k \in Key /\ g \in Name  BY <1>1, <3>1, HereLinks DEF Deleting
    <3>3. pair[g].by = k  BY <2>1, <3>1, <3>2, StoreStateAssumption DEF Attributed, Owned
    <3>4. QED  BY <1>1, <2>1, <3>1, <3>3 DEF Key_
  <2>9. CASE \/ Load(p) \/ LoadFails(p) \/ Return(p)
             \/ AddAllocate(p) \/ AddAllocateFails(p) \/ AddEnsureBridge(p)
             \/ IdempotencyCheck(p) \/ ReconcilePending(p) \/ Preflight(p) \/ AddMarkReady(p)
             \/ Finish(p) \/ PersistPending(p) \/ PersistReconcile(p) \/ PersistReady(p)
             \/ PersistRelease(p)
             \/ RollbackDelete(p) \/ RollbackRelease(p) \/ RollbackEnds(p)
             \/ DelRelease(p) \/ Check(p)
    BY <1>1, <2>2, <2>9, OtherLinks
  <2>10. QED
    BY <1>1, <2>5, <2>6, <2>7, <2>8, <2>9 DEF Run, AddNext, DeleteNext
<1>2. LinkInv /\ [Next]_vars =>
        [ \A p \in Proc, h \in Name :
            (Run(p) /\ pair[h] # NoPair /\ pair'[h] # pair[h] /\ pair'[h] = NoPair)
              => Mine(p, h) ]_vars
  BY <1>1
<1>3. QED  BY <1>2, LinkInvariant, PTL DEF Spec, OnlyOwnLinksDeleted

-----------------------------------------------------------------------------
(* As long as nobody renames a host end, no pair is out of the plugin's     *)
(* sight.                                                                   *)
LEMMA NoneStray ==
  ASSUME "rename" \notin Faults
  PROVE  Spec => [](stray = {})
<1>1. Init => stray = {}  BY DEF Init
<1>2. ASSUME LinkInv, stray = {}, [Next]_vars PROVE stray' = {}
  <2>1. CInv  BY <1>2 DEF LinkInv, FileInv
  <2>2. ASSUME NEW p \in Proc, Invoke(p) \/ Lock(p) \/ Run(p) \/ Crash(p)
        PROVE  stray' = {}
    <3>1. CASE \/ LinkAdd(p) \/ AliasHost(p) \/ AliasPeer(p) \/ MovePeer(p)
               \/ ConfigureAddress(p) \/ AddRoute(p) \/ VerifyHost(p) \/ UndoCreate(p)
      BY <1>2, <2>1, <3>1, CreateShape
    <3>2. CASE FindHost(p) \/ LinkDel(p) \/ StatPeer(p) \/ FindPeer(p)
      BY <1>2, <2>1, <3>2, DeleteOutcome
    <3>3. CASE ~\/ LinkAdd(p) \/ AliasHost(p) \/ AliasPeer(p) \/ MovePeer(p)
                \/ ConfigureAddress(p) \/ AddRoute(p) \/ VerifyHost(p) \/ UndoCreate(p)
                \/ FindHost(p) \/ LinkDel(p) \/ StatPeer(p) \/ FindPeer(p)
      BY <1>2, <2>2, <3>3, OtherLinks DEF Run, AddNext, DeleteNext
    <3>4. QED  BY <3>1, <3>2, <3>3
  <2>3. CASE Environment
    <3>1. ASSUME NEW h \in Name, Drift(h) \/ AdminAdds(h) \/ AdminDeletes(h) \/ HostRenamed(h)
          PROVE  stray' = stray
      BY <3>1 DEF Drift, AdminAdds, AdminDeletes, HostRenamed, Fault
    <3>2. ASSUME NEW n \in NetNS, NamespaceGone(n) PROVE stray' \subseteq stray
      BY <3>2 DEF NamespaceGone
    <3>3. ASSUME NEW n \in NetNS, NamespaceMade(n) PROVE stray' = stray
      BY <3>3 DEF NamespaceMade
    <3>4. ASSUME NEW n \in NetNS, NEW i \in Iface, ForeignInterface(n, i) PROVE stray' = stray
      BY <3>4 DEF ForeignInterface
    <3>5. StateLost \/ StateDamaged => stray' = stray
      BY DEF StateLost, StateDamaged, kernelVars
    <3>6. QED  BY <1>2, <2>3, <3>1, <3>2, <3>3, <3>4, <3>5 DEF Environment
  <2>4. CASE UNCHANGED vars  BY <1>2, <2>4 DEF vars
  <2>5. QED  BY <1>2, <2>2, <2>3, <2>4 DEF Next
<1>3. LinkInv /\ stray = {} /\ [Next]_vars => (stray = {})'  BY <1>2
<1>4. QED  BY <1>1, <1>3, LinkInvariant, PTL DEF Spec

(* A DEL that returns success leaves neither a record in the file nor a     *)
(* link of its endpoint, whatever fails, dies, disappears or is made by     *)
(* administrators before and during it. Only a link whose host end somebody *)
(* renamed may escape it: the hypothesis excludes that fault alone          *)
(* (service.go:384-417).                                                    *)
THEOREM SuccessfulDelCleans ==
  ASSUME "rename" \notin Faults
  PROVE  Spec => []DelCleans
<1>1. ASSUME LinkInv, stray = {}, NEW p \in Proc, Succeeds(p, "DEL")
      PROVE  ~Recorded(Key_(p)) /\ LinksOf(Key_(p)) = {}
  <2> DEFINE k == tx[p].key
  <2>1. /\ FileInv /\ tx[p].pc = "unlock" /\ tx[p].res = "ok" /\ tx[p].op = "DEL"
        /\ TxAgrees(p) /\ Taken(tx[p], pair)
    BY <1>1, HereLinks DEF Succeeds, At
  <2>2. Succeeding(tx[p], "DEL") /\ InCallback(tx[p])
    BY <2>1 DEF Succeeding, InCallback
  <2>3. mem[p].endpoints[k] = NoRecord /\ ~dirty[p]
    BY <2>1, <2>2 DEF TxAgrees, Agrees
  <2>4. Loaded(disk) = mem[p]  BY <2>1, <2>2, <2>3, HereAgrees
  <2>5. ~Recorded(k)  BY <2>3, <2>4 DEF Recorded, HasEndpoint, Loaded
  <2>6. NoLinkOf(k, pair)  BY <2>1, <2>2 DEF Taken
  <2>7. LinksOf(k) = {}  BY <1>1, <2>6 DEF LinksOf, Pairs, NoLinkOf
  <2>8. QED  BY <2>5, <2>7 DEF Key_
<1>2. LinkInv /\ stray = {} => DelCleans  BY <1>1 DEF DelCleans
<1>3. QED  BY <1>2, LinkInvariant, NoneStray, PTL

-----------------------------------------------------------------------------
(* Links and records: a commit drops the record of an endpoint only when no *)
(* link of it is left, and no link is made without a record.                *)
Committing(p) ==
  Finish(p) \/ PersistPending(p) \/ PersistReconcile(p) \/ PersistReady(p)
    \/ PersistRelease(p)

OrphanInv == LinkInv /\ NoOrphans

(* Only a commit changes the file during an invocation. *)
LEMMA OnlyCommits ==
  ASSUME LinkInv, NEW p \in Proc, Invoke(p) \/ Lock(p) \/ Run(p) \/ Crash(p)
  PROVE  \/ disk' = disk
         \/ Committing(p) /\ disk' = mem[p] /\ Loaded(disk)' = mem[p] /\ active[p]
<1>1. CInv /\ ProcStep(p)  BY HereLinks, InvocationStep
<1>2. UNCHANGED storeVars => disk' = disk  BY DEF storeVars
<1>3. CASE Committing(p)
  <2>1. CommitDone(p) \/ CommitNotDone(p)  BY <1>1, <1>3, PersistOutcome DEF Committing
  <2>2. QED  BY <1>1, <1>3, <2>1, CommitFile
<1>4. CASE Invoke(p) \/ Lock(p) \/ Load(p) \/ LoadFails(p) \/ Return(p) \/ Crash(p)
  BY <1>2, <1>4 DEF Invoke, InvokeAs, Lock, Load, LoadFails, Return, Crash, flockExclusive,
                    loadState, Unlock, unlock
<1>5. CASE \/ AddAllocate(p) \/ ReconcilePending(p) \/ AddMarkReady(p)
           \/ RollbackRelease(p) \/ DelRelease(p)
  BY <1>5 DEF AddAllocate, ReconcilePending, AddMarkReady, RollbackRelease, DelRelease,
              Allocate, MarkPhase, Release, Update
<1>6. CASE \/ AddAllocateFails(p) \/ AddEnsureBridge(p) \/ IdempotencyCheck(p)
           \/ Preflight(p) \/ RollbackDelete(p) \/ RollbackEnds(p) \/ Check(p)
  BY <1>2, <1>6 DEF AddAllocateFails, AddEnsureBridge, IdempotencyCheck, Preflight,
                    RollbackDelete, RollbackEnds, Check
<1>7. CASE \/ LinkAdd(p) \/ AliasHost(p) \/ AliasPeer(p) \/ MovePeer(p)
           \/ ConfigureAddress(p) \/ AddRoute(p) \/ VerifyHost(p) \/ UndoCreate(p)
  BY <1>1, <1>2, <1>7, CreateShape
<1>8. CASE FindHost(p) \/ LinkDel(p) \/ StatPeer(p) \/ FindPeer(p)  BY <1>1, <1>2, <1>8, DeleteOutcome
<1>9. QED
  BY <1>3, <1>4, <1>5, <1>6, <1>7, <1>8 DEF Run, AddNext, DeleteNext, Committing

(* Only for the endpoint without a link a commit drops the record. *)
LEMMA CommitKeeps ==
  ASSUME OrphanInv, NEW p \in Proc, Committing(p), NEW j \in Key
  PROVE  \/ HasEndpoint(mem[p], j) \/ ~HasEndpoint(Loaded(disk), j)
         \/ NoLinkOf(j, pair)
<1> DEFINE r == tx[p]
<1>1. LinkInv /\ (Unlinked(r) => NoLinkOf(r.key, pair))  BY DEF OrphanInv, NoOrphans
<1>2. /\ CInv /\ FileInv /\ TxAgrees(p) /\ Sound(r, mem[p]) /\ Taken(r, pair)
  BY <1>1, HereLinks
<1>3. r.pc \in {"finish", "persist-pending", "persist-reconcile", "persist-ready",
                "persist-release"}
  BY <1>2, PersistOutcome DEF Committing
<1>4. InCallback(r) /\ active[p]  BY <1>2, <1>3, HereAgrees DEF InCallback
<1>5. CASE j # r.key  BY <1>2, <1>4, <1>5 DEF TxAgrees, Agrees, HasEndpoint
<1>6. CASE j = r.key /\ r.pc # "finish"
  <2>1. r.pc = "persist-release" => NoLinkOf(j, pair)  BY <1>1, <1>6 DEF Unlinked
  <2>2. r.pc # "persist-release" => mem[p].endpoints[j] \in Record
    BY <1>2, <1>3, <1>6 DEF Sound, Holding
  <2>3. QED  BY <2>1, <2>2, StoreStateAssumption DEF HasEndpoint
<1>7. CASE j = r.key /\ r.pc = "finish"
  <2>1. r.op \in {"ADD", "CHECK", "DEL"}
    BY <1>2, <1>7, CloudnetAssumption DEF Sound
  <2>2. r.op = "ADD" => mem[p].endpoints[j] \in Record
    BY <1>2, <1>7 DEF TxAgrees, Agrees, Succeeding
  <2>3. r.op = "CHECK" => mem[p] = Loaded(disk)
    BY <1>2, <1>4, <1>7, HereAgrees DEF TxAgrees, Agrees
  <2>4. r.op = "DEL" => NoLinkOf(j, pair)  BY <1>2, <1>7 DEF Taken, Succeeding
  <2>5. QED  BY <2>1, <2>2, <2>3, <2>4, StoreStateAssumption DEF HasEndpoint
<1>8. QED  BY <1>5, <1>6, <1>7

LEMMA SelfUnlinked ==
  ASSUME OrphanInv, NEW p \in Proc, Invoke(p) \/ Lock(p) \/ Run(p) \/ Crash(p),
         Unlinked(tx'[p])
  PROVE  NoLinkOf(tx'[p].key, pair')
<1> DEFINE r == tx[p]
           t == tx'[p]
           k == r.key
<1>1. LinkInv /\ (Unlinked(r) => NoLinkOf(k, pair))  BY DEF OrphanInv, NoOrphans
<1>2. /\ CInv /\ FileInv /\ TxAgrees(p) /\ Sound(r, mem[p]) /\ r \in Tx
  BY <1>1, HereLinks
<1> DEFINE Both == <<"release", "delete">>
<1>3. <<>> # <<"release">> /\ Both # <<"release">>  BY Stacks
<1> HIDE DEF Both
<1>4. t.pc \in {"persist-pending", "create-veth", "persist-release", "ensure-bridge",
                "rollback"}
      /\ (t.pc \in {"ensure-bridge", "rollback"} => t.undo = <<"release">>)
  BY DEF Unlinked
<1>5. Unmade(pair, pair') \/ Renewed(p)  BY <1>1, InvocationLinkage
<1>6. Unmade(pair, pair')  BY <1>4, <1>5 DEF Renewed, Creating
<1>7. ASSUME NoLinkOf(k, pair), k \in Key, t.key = k PROVE NoLinkOf(t.key, pair')
  BY <1>6, <1>7, UnmadeFollows
<1>8. CASE Invoke(p) \/ Lock(p) \/ Load(p) \/ LoadFails(p) \/ Return(p) \/ Crash(p)
  <2>1. CASE Invoke(p)
    <3>1. PICK op, c, n, j :
            Become(p, [Idle EXCEPT !.pc = "lock", !.op = op, !.key = j, !.ns = n, !.config = c])
      BY <2>1 DEF Invoke, InvokeAs
    <3> DEFINE u == [Idle EXCEPT !.pc = "lock", !.op = op, !.key = j, !.ns = n, !.config = c]
    <3>2. u.pc = "lock"  BY DEF Idle
    <3> HIDE DEF u
    <3>3. t = u  BY <1>2, <3>1, Becomes DEF u
    <3>4. QED  BY <1>4, <3>2, <3>3
  <2>2. CASE Lock(p)
    <3>1. t.pc = "load"  BY <1>2, <2>2, Turns DEF Lock, Steps, Turn
    <3>2. QED  BY <1>4, <3>1
  <2>3. CASE Load(p)
    <3>1. t.pc \in {"allocate", "check", "find-host"}  BY <1>2, <2>3, LoadOutcome DEF Turn
    <3>2. QED  BY <1>4, <3>1
  <2>4. CASE LoadFails(p) \/ Return(p) \/ Crash(p)
    <3>1. t.pc = "idle"  BY <1>2, <2>4, Fetched
    <3>2. QED  BY <1>4, <3>1
  <2>5. QED  BY <1>8, <2>1, <2>2, <2>3, <2>4
<1>9. CASE AddAllocate(p)
  <2>1. /\ r.pc = "allocate" /\ t.key = k
        /\ \/ ~HasEndpoint(mem[p], k)
           \/ t.pc = "find-host"
           \/ t.pc = "ensure-bridge" /\ t.undo = <<>>
    BY <1>2, <1>9, AllocateOutcome DEF Turn, Same
  <2>2. ~HasEndpoint(mem[p], k)  BY <1>3, <1>4, <2>1
  <2>3. k \in Key /\ InCallback(r) /\ active[p]
    BY <1>2, <2>1, HereAgrees DEF InCallback
  <2>4. mem[p] = Loaded(disk) /\ disk # Corrupt
    BY <1>2, <2>1, <2>3, HereAgrees DEF TxAgrees, Agrees, FileInv, CopyFollowsFile
  <2>5. NoLinkOf(k, pair)
    BY <2>2, <2>3, <2>4, CloudnetAssumption DEF OrphanInv, NoOrphans, NoLinkOf
  <2>6. QED  BY <1>7, <2>1, <2>3, <2>5
<1>10. CASE Committing(p)
  <2>1. /\ t.key = k /\ r.pc # "idle"
        /\ \/ r.pc = "persist-pending"
           \/ t.pc \in {"unlock", "find-host", "finish"}
           \/ r.pc = "persist-ready" /\ t.undo = r.undo /\ t.pc = "rollback"
           \/ t.pc = "rollback" /\ t.undo = <<>>
    BY <1>2, <1>10, PersistOutcome DEF Committing, Turn, Same, Fails
  <2>2. r.pc = "persist-ready" => r.undo = Both
    BY <1>2 DEF Sound, Registered, Armed, Both
  <2>3. r.pc = "persist-pending"  BY <1>3, <1>4, <2>1, <2>2
  <2>4. QED  BY <1>1, <1>2, <1>7, <2>1, <2>3, HereAgrees DEF Unlinked
<1>11. CASE AddEnsureBridge(p)
  <2>1. /\ t.key = k /\ r.pc = "ensure-bridge"
        /\ \/ r.undo = <<"release">>
           \/ t.pc = "idempotency-check"
           \/ t.pc = "rollback" /\ t.undo = r.undo
    BY <1>2, <1>11, BridgeOutcome DEF Turn, Same, Kept
  <2>2. r.undo = <<"release">>  BY <1>4, <2>1
  <2>3. QED  BY <1>1, <1>2, <1>7, <2>1, <2>2, HereAgrees DEF Unlinked
<1>12. CASE Preflight(p)
  <2>1. t.undo = Both /\ t.pc \in {"link-add", "rollback"}
    BY <1>2, <1>12, PreflightOutcome DEF Turn, Both
  <2>2. QED  BY <1>3, <1>4, <2>1
<1>13. CASE \/ LinkAdd(p) \/ AliasHost(p) \/ AliasPeer(p) \/ MovePeer(p)
            \/ ConfigureAddress(p) \/ AddRoute(p) \/ VerifyHost(p) \/ UndoCreate(p)
  <2>1. /\ r.pc \in Creating /\ t.pc \in Creating \cup {"mark-ready", "rollback"}
        /\ t.undo = r.undo
    BY <1>2, <1>13, CreateShape
  <2>2. r.undo = Both  BY <1>2, <2>1 DEF Sound, Registered, Armed, Both
  <2>3. QED  BY <1>3, <1>4, <2>1, <2>2 DEF Creating
<1>14. CASE FindHost(p) \/ LinkDel(p) \/ StatPeer(p) \/ FindPeer(p)
  <2>1. \/ Returns(p) /\ NoLinkOf(k, pair') /\ t.key = k
        \/ GivesUp(p) \/ t.pc \in {"link-del", "stat-peer", "find-peer"}
    BY <1>1, <1>2, <1>14, DeleteOutcome, DeleteLinks DEF Turn, Same, Returns
  <2>2. ~GivesUp(p)  BY <1>3, <1>4 DEF GivesUp, Fails, Turn
  <2>3. QED  BY <1>4, <2>1, <2>2
<1>15. CASE RollbackDelete(p) \/ RollbackRelease(p) \/ RollbackEnds(p)
  <2>1. /\ t.key = k /\ r.pc = "rollback"
        /\ r.undo = <<"release">> \/ t.pc \in {"find-host", "unlock"}
    BY <1>2, <1>15, RollbackOutcome DEF Turn, Same, Fails
  <2>2. r.undo = <<"release">>  BY <1>4, <2>1
  <2>3. QED  BY <1>1, <1>2, <1>7, <2>1, <2>2, HereAgrees DEF Unlinked
<1>16. CASE DelRelease(p) \/ Check(p) \/ AddAllocateFails(p)
  <2>1. t.pc \in {"finish", "unlock"}  BY <1>2, <1>16, FinalOutcome DEF Turn, Fails
  <2>2. QED  BY <1>4, <2>1
<1>17. CASE IdempotencyCheck(p) \/ ReconcilePending(p) \/ AddMarkReady(p)
  <2>1. t.pc \in {"finish", "reconcile-pending", "persist-reconcile", "persist-ready"}
    BY <1>2, <1>17, IdempotencyOutcome, MarkOutcome DEF Turn
  <2>2. QED  BY <1>4, <2>1
<1>18. QED
  BY <1>8, <1>9, <1>10, <1>11, <1>12, <1>13, <1>14, <1>15, <1>16, <1>17
  DEF Run, AddNext, DeleteNext, Committing

LEMMA WaitingUnlinked ==
  ASSUME NEW t, t.pc \in {"idle", "lock"}
  PROVE  ~Unlinked(t)
  BY DEF Unlinked

(* Every link of the plugin has a record in the file unless the file is     *)
(* damaged. *)
Documented(d, links) ==
  d # Corrupt => \A h \in Name : links[h] # NoPair /\ links[h].by # Admin
                   => HasEndpoint(Loaded(d), links[h].by)

LEMMA OrphanStep ==
  ASSUME "lose" \notin Faults
  PROVE  OrphanInv /\ [Next]_vars => OrphanInv'
<1> SUFFICES ASSUME OrphanInv, [Next]_vars PROVE OrphanInv'  OBVIOUS
<1>1. LinkInv /\ LinkInv'  BY LinkStep DEF OrphanInv
<1>2. /\ CInv /\ FileInv /\ KernelTypeOK /\ Attributed(pair)
      /\ pair \in [Name -> Pair \cup {NoPair}] /\ Documented(disk, pair)
  BY <1>1 DEF LinkInv, FileInv, LinksFollow, KernelTypeOK, OrphanInv, NoOrphans, Documented
<1>3. ASSUME Documented(disk', pair'), \A q \in Proc : Unlinked(tx'[q]) => NoLinkOf(tx'[q].key, pair')
      PROVE  OrphanInv'
  BY <1>1, <1>3 DEF OrphanInv, NoOrphans, Documented, Loaded
<1>4. ASSUME Unmade(pair, pair'), disk' = disk PROVE Documented(disk', pair')
  BY <1>2, <1>4 DEF Unmade, Documented
<1>5. ASSUME NEW p \in Proc, Invoke(p) \/ Lock(p) \/ Run(p) \/ Crash(p)
      PROVE  OrphanInv'
  <2> DEFINE k == tx[p].key
  <2>1. Unmade(pair, pair') \/ Renewed(p)  BY <1>1, <1>5, InvocationLinkage
  <2>2. \/ disk' = disk
        \/ Committing(p) /\ disk' = mem[p] /\ Loaded(disk)' = mem[p] /\ active[p]
    BY <1>1, <1>5, OnlyCommits
  <2>3. Unlinked(tx'[p]) => NoLinkOf(tx'[p].key, pair')  BY <1>5, SelfUnlinked
  <2>4. \A q \in Proc \ {p} : tx'[q] = tx[q]  BY <1>2, <1>5, OneMoves
  <2>5. CASE Renewed(p)
    <3>1. PICK l \in Pair : l.by = k /\ pair' = [pair EXCEPT ![HostName[k]] = l]
      BY <2>5 DEF Renewed
    <3>2. tx[p].pc \in Creating  BY <2>5 DEF Renewed
    <3>3. disk' = disk
      <4>1. ~Committing(p)
        BY <1>2, <3>2, PersistOutcome DEF Committing, Creating
      <4>2. QED  BY <2>2, <4>1
    <3>4. Loaded(disk).endpoints[k] \in Record
      BY <1>1, <3>2, HereLinks DEF TxAgrees, Agrees, Quarantined
    <3>5. HasEndpoint(Loaded(disk), k)  BY <3>4, StoreStateAssumption DEF HasEndpoint
    <3>6. Documented(disk', pair')
      BY <1>2, <3>1, <3>3, <3>5 DEF Documented
    <3>7. ASSUME NEW q \in Proc, q # p PROVE ~Unlinked(tx'[q])
      <4>1. tx[p].pc \notin {"idle", "lock"}  BY <3>2 DEF Creating
      <4>2. tx[q].pc \in {"idle", "lock"}  BY <1>2, <3>7, <4>1, Alone
      <4>3. QED  BY <2>4, <3>7, <4>2, WaitingUnlinked
    <3>8. QED  BY <1>3, <2>3, <3>6, <3>7
  <2>6. CASE Unmade(pair, pair')
    <3>1. ASSUME NEW q \in Proc, q # p, Unlinked(tx'[q]) PROVE NoLinkOf(tx'[q].key, pair')
      <4>1. tx'[q] = tx[q]  BY <2>4, <3>1
      <4>2. tx[q].pc # "idle" /\ NoLinkOf(tx[q].key, pair)
        BY <3>1, <4>1, WaitingUnlinked DEF OrphanInv, NoOrphans
      <4>3. tx[q].key \in Key  BY <1>1, <4>2, HereLinks
      <4>4. QED  BY <2>6, <4>1, <4>2, <4>3, UnmadeFollows
    <3>2. Documented(disk', pair')
      <4>1. CASE disk' = disk  BY <1>4, <2>6, <4>1
      <4>2. CASE Committing(p) /\ disk' = mem[p] /\ Loaded(disk)' = mem[p] /\ active[p]
        <5>1. disk # Corrupt  BY <1>2, <4>2 DEF FileInv, CopyFollowsFile
        <5>2. ASSUME NEW h \in Name, pair'[h] # NoPair, pair'[h].by # Admin
              PROVE  HasEndpoint(mem[p], pair'[h].by)
          <6> DEFINE j == pair'[h].by
          <6>1. j \in Key
            <7>1. pair' \in [Name -> Pair \cup {NoPair}]  BY <1>1 DEF LinkInv, KernelTypeOK
            <7>2. QED  BY <5>2, <7>1 DEF Pair
          <6>2. pair[h] # NoPair /\ pair[h].by = j  BY <2>6, <5>2 DEF Unmade
          <6>3. HasEndpoint(Loaded(disk), j) /\ ~NoLinkOf(j, pair)
            BY <1>2, <5>1, <5>2, <6>2 DEF Documented, NoLinkOf
          <6>4. QED  BY <4>2, <6>1, <6>3, CommitKeeps
        <5>3. Loaded(disk') = mem[p]  BY <4>2 DEF Loaded
        <5>4. QED  BY <5>2, <5>3 DEF Documented
      <4>3. QED  BY <2>2, <4>1, <4>2
    <3>3. QED  BY <1>3, <2>3, <3>1, <3>2
  <2>7. QED  BY <2>1, <2>5, <2>6
<1>6. CASE Environment
  <2>1. Unmade(pair, pair')  BY <1>1, <1>6, EnvironmentUnmade
  <2>2. ASSUME NEW q \in Proc, Unlinked(tx'[q]) PROVE NoLinkOf(tx'[q].key, pair')
    <3>1. tx[q] \in Tx  BY <1>1, HereLinks
    <3>2. PICK fd : tx'[q] = [tx[q] EXCEPT !.fd = fd]  BY <1>2, <1>6, EnvironmentMoves
    <3>3. tx'[q].pc = tx[q].pc /\ tx'[q].key = tx[q].key /\ tx'[q].undo = tx[q].undo
      BY <3>1, <3>2 DEF Tx
    <3>4. Unlinked(tx[q])  BY <2>2, <3>3 DEF Unlinked
    <3>5. tx[q].pc # "idle" /\ NoLinkOf(tx[q].key, pair)
      BY <3>4, WaitingUnlinked DEF OrphanInv, NoOrphans
    <3>6. tx[q].key \in Key  BY <1>1, <3>5, HereLinks
    <3>7. QED  BY <2>1, <3>3, <3>5, <3>6, UnmadeFollows
  <2>3. disk' = disk \/ disk' = Corrupt
    <3>1. UNCHANGED storeVars => disk' = disk  BY DEF storeVars
    <3>2. ~StateLost  BY DEF StateLost, Fault
    <3>3. StateDamaged => disk' = Corrupt  BY DEF StateDamaged, DamageState
    <3>4. ASSUME NEW n \in NetNS, NamespaceGone(n) \/ NamespaceMade(n) PROVE disk' = disk
      BY <3>1, <3>4 DEF NamespaceGone, NamespaceMade
    <3>5. ASSUME NEW h \in Name, Drift(h) \/ AdminAdds(h) \/ AdminDeletes(h) \/ HostRenamed(h)
          PROVE  disk' = disk
      BY <3>1, <3>5 DEF Drift, AdminAdds, AdminDeletes, HostRenamed
    <3>6. ASSUME NEW n \in NetNS, NEW i \in Iface, ForeignInterface(n, i) PROVE disk' = disk
      BY <3>1, <3>6 DEF ForeignInterface
    <3>7. QED  BY <1>6, <3>2, <3>3, <3>4, <3>5, <3>6 DEF Environment
  <2>4. Documented(disk', pair')
    <3>1. disk' = Corrupt => Documented(disk', pair')  BY DEF Documented
    <3>2. QED  BY <1>4, <2>1, <2>3, <3>1
  <2>5. QED  BY <1>3, <2>2, <2>4
<1>7. CASE UNCHANGED vars
  <2>1. disk' = disk /\ pair' = pair /\ tx' = tx  BY <1>7 DEF vars
  <2>2. QED  BY <1>2, <1>3, <2>1 DEF OrphanInv, NoOrphans
<1>8. QED  BY <1>5, <1>6, <1>7 DEF Next

LEMMA OrphanInvariant ==
  ASSUME "lose" \notin Faults
  PROVE  Spec => []OrphanInv
<1>1. Init => OrphanInv
  <2>1. ASSUME Init PROVE OrphanInv
    <3>1. LinkInv  BY <2>1, LinkInit
    <3>2. \A h \in Name : pair[h] = NoPair  BY <2>1 DEF Init
    <3>3. \A p \in Proc : tx[p].pc = "idle"  BY <2>1 DEF Init, Idle
    <3>4. QED  BY <3>1, <3>2, <3>3, WaitingUnlinked DEF OrphanInv, NoOrphans
  <2>2. QED  BY <2>1
<1>2. OrphanInv /\ [Next]_vars => OrphanInv'  BY OrphanStep
<1>3. QED  BY <1>1, <1>2, PTL DEF Spec

(* An invocation takes an address out of the file only when no link of its  *)
(* endpoint is left, whatever fails or dies, whatever happens to namespaces *)
(* and links, and also if the file was damaged before. The hypothesis is    *)
(* needed: once the state directory is gone, a link may outlive its record, *)
(* and the rollback of a later ADD gives the address up while it is there   *)
(* (service.go:160-175, 404-417, rollback.go:109-130).                      *)
THEOREM AddressOutlivesLink ==
  ASSUME "lose" \notin Faults
  PROVE  Spec => ReleasedAfterDelete
<1> DEFINE Goal == lock # NoProc => \A k \in Key :
                     (Recorded(k) /\ disk' # disk /\ disk'.endpoints[k] = NoRecord)
                       => \A h \in Name : pair[h] # NoPair => pair[h].by # k
<1>1. ASSUME OrphanInv, Next PROVE Goal
  <2>1. LinkInv /\ FileInv  BY <1>1 DEF OrphanInv, LinkInv
  <2>2. SUFFICES ASSUME lock # NoProc, NEW k \in Key, Recorded(k), disk' # disk,
                        disk'.endpoints[k] = NoRecord
                 PROVE  NoLinkOf(k, pair)
    BY DEF NoLinkOf
  <2>3. ~Environment
    <3>1. lock \in Proc  BY <2>1, <2>2 DEF FileInv, CInv, IInv, StoreTypeOK
    <3>2. Environment => disk' = disk \/ lock = NoProc  BY <2>1, <3>1, EnvironmentMoves
    <3>3. QED  BY <2>2, <3>2
  <2>4. PICK p \in Proc : Invoke(p) \/ Lock(p) \/ Run(p) \/ Crash(p)
    BY <1>1, <2>3 DEF Next
  <2>5. Committing(p) /\ disk' = mem[p]  BY <2>1, <2>2, <2>4, OnlyCommits
  <2>6. ~HasEndpoint(mem[p], k) /\ HasEndpoint(Loaded(disk), k)
    BY <2>2, <2>5 DEF HasEndpoint, Recorded, Loaded
  <2>7. QED  BY <1>1, <2>5, <2>6, CommitKeeps
<1>2. OrphanInv /\ [Next]_vars =>
        [ lock # NoProc => \A k \in Key :
            (Recorded(k) /\ disk' # disk /\ disk'.endpoints[k] = NoRecord)
              => \A h \in Name : pair[h] # NoPair => pair[h].by # k ]_vars
  BY <1>1
<1>3. QED  BY <1>2, OrphanInvariant, PTL DEF Spec, ReleasedAfterDelete
=============================================================================
