--------------------------- MODULE CloudnetProofs ---------------------------
(***************************************************************************)
(* The plugin is a user of the state store: every step of ADD, CHECK, DEL, *)
(* of a crash and of the surroundings is a step of Store.tla or leaves the *)
(* store alone. So what StoreProofs proves of any use of the store holds   *)
(* of the plugin, for any number of invocations, endpoints, addresses,     *)
(* names, namespaces and faults.                                           *)
(***************************************************************************)
EXTENDS Cloudnet, StoreProofs

TxInv == tx \in [Proc -> Tx] /\ RollbackFollows

CInv == IInv /\ CopyNeedsLock /\ TxInv

(* A step of p as the store sees it. *)
ProcStep(p) == ProcNext(p) \/ UNCHANGED storeVars

(* What is known of a transaction before it takes a step. *)
LEMMA Here ==
  ASSUME CInv, NEW p \in Proc
  PROVE  /\ tx[p] \in Tx /\ Sound(tx[p], mem[p]) /\ mem[p] \in State
         /\ active \in [Proc -> BOOLEAN] /\ mem \in [Proc -> State]
         /\ dirty \in [Proc -> BOOLEAN]
  BY DEF CInv, TxInv, RollbackFollows, IInv, StoreTypeOK

(* A step of p leaves the copies of the others alone. *)
LEMMA OthersKeep ==
  ASSUME CInv, NEW p \in Proc, ProcStep(p), NEW q \in Proc, q # p
  PROVE  mem'[q] = mem[q]
<1> USE DEF CInv, IInv, StoreTypeOK
<1>1. CASE UNCHANGED storeVars  BY <1>1 DEF storeVars
<1>2. CASE flockExclusive(p) \/ CommitRenamed(p) \/ CommitWritten(p)
  BY <1>2 DEF flockExclusive, CommitRenamed, CommitWritten
<1>3. CASE loadState(p)  BY <1>3 DEF loadState
<1>4. CASE Unlock(p)  BY <1>4 DEF Unlock, unlock
<1>5. ASSUME NEW s, Update(p, s) PROVE mem'[q] = mem[q]  BY <1>5 DEF Update
<1>6. ASSUME NEW k \in Key, NEW c \in Config, NEW n \in NetNS, Allocate(p, k, c, n)
      PROVE mem'[q] = mem[q]
  BY <1>5, <1>6 DEF Allocate
<1>7. ASSUME NEW k \in Key, NEW phase \in Phase, MarkPhase(p, k, phase)
      PROVE mem'[q] = mem[q]
  BY <1>5, <1>7 DEF MarkPhase
<1>8. ASSUME NEW k \in Key, Release(p, k) PROVE mem'[q] = mem[q]
  BY <1>5, <1>8 DEF Release
<1>9. QED  BY <1>1, <1>2, <1>3, <1>4, <1>6, <1>7, <1>8 DEF ProcStep, ProcNext

(* A transaction moves to a sound record: all transactions stay sound. *)
LEMMA Moves ==
  ASSUME CInv, NEW p \in Proc, ProcStep(p), NEW t \in Tx, Become(p, t),
         Sound(t, mem'[p])
  PROVE  TxInv'
<1>1. tx' = [tx EXCEPT ![p] = t] /\ tx \in [Proc -> Tx]
  BY DEF Become, CInv, TxInv
<1>2. tx' \in [Proc -> Tx]  BY <1>1
<1>3. ASSUME NEW q \in Proc PROVE Sound(tx'[q], mem'[q])
  <2>1. CASE q = p  BY <2>1, <1>1
  <2>2. CASE q # p
    <3>1. tx'[q] = tx[q]  BY <2>2, <1>1
    <3>2. mem'[q] = mem[q]  BY <2>2, OthersKeep
    <3>3. Sound(tx[q], mem[q])  BY Here
    <3>4. QED  BY <3>1, <3>2, <3>3
  <2>3. QED  BY <2>1, <2>2
<1>4. RollbackFollows'  BY <1>3 DEF RollbackFollows
<1>5. QED  BY <1>2, <1>4 DEF TxInv

(* The stacks that occur, pushed and popped. *)
LEMMA Stacks ==
  /\ Append(<<>>, "release") = <<"release">>
  /\ Append(<<"release">>, "delete") = <<"release", "delete">>
  /\ Front(<<"release">>) = <<>> /\ Front(<<"release", "delete">>) = <<"release">>
  /\ Last(<<"release">>) = "release" /\ Last(<<"release", "delete">>) = "delete"
  /\ <<>> # <<"release">> /\ <<>> # <<"release", "delete">>
  /\ <<"release">> # <<"release", "delete">>
<1> DEFINE both == [i \in 1..2 |-> IF i = 1 THEN "release" ELSE "delete"]
<1>1. Append(<<>>, "release") = <<"release">>  OBVIOUS
<1>2. Append(<<"release">>, "delete") = both  OBVIOUS
<1>3. <<"release", "delete">> = both  OBVIOUS
<1>4. Front(<<"release">>) = <<>>  BY DEF Front
<1>5. Front(<<"release", "delete">>) = [i \in 1..1 |-> "release"]  BY DEF Front
<1>6. <<"release">> = [i \in 1..1 |-> "release"]  OBVIOUS
<1>7. Last(<<"release">>) = "release" /\ Last(<<"release", "delete">>) = "delete"
  BY DEF Last
<1>8. /\ <<>> # <<"release">> /\ <<>> # <<"release", "delete">>
      /\ <<"release">> # <<"release", "delete">>
  OBVIOUS
<1>9. QED  BY <1>1, <1>2, <1>3, <1>4, <1>5, <1>6, <1>7, <1>8

(* A quiet step: the store stays, and the transaction goes on to t. *)
LEMMA QuietMove ==
  ASSUME CInv, NEW p \in Proc, UNCHANGED storeVars, NEW t \in Tx, Become(p, t),
         Sound(t, mem[p])
  PROVE  TxInv' /\ ProcStep(p)
<1>1. mem' = mem  BY DEF storeVars
<1>2. QED  BY <1>1, Moves DEF ProcStep

(* Going to another step changes nothing else of a transaction. *)
LEMMA GotoStep ==
  ASSUME NEW r \in Tx, NEW pc \in Steps
  PROVE  LET t == [r EXCEPT !.pc = pc]
         IN  /\ t \in Tx /\ t.pc = pc /\ t.op = r.op /\ t.key = r.key /\ t.ns = r.ns
             /\ t.config = r.config /\ t.undo = r.undo /\ t.caller = r.caller
             /\ t.fd = r.fd
  BY DEF Tx

LEMMA EndStep ==
  ASSUME NEW r \in Tx, NEW res \in {"ok", "err"}
  PROVE  LET t == [r EXCEPT !.pc = "unlock", !.res = res]
         IN  /\ t \in Tx /\ t.pc = "unlock" /\ t.op = r.op /\ t.key = r.key
             /\ t.ns = r.ns /\ t.config = r.config
  BY DEF Tx, Steps

(* A callback may end anywhere. *)
LEMMA EndSound ==
  ASSUME NEW r \in Tx, NEW m, NEW n, NEW res \in {"ok", "err"}, Sound(r, m),
         r.pc # "idle"
  PROVE  Sound([r EXCEPT !.pc = "unlock", !.res = res], n)
<1> DEFINE t == [r EXCEPT !.pc = "unlock", !.res = res]
<1>1. /\ t \in Tx /\ t.pc = "unlock" /\ t.op = r.op /\ t.key = r.key
      /\ t.ns = r.ns /\ t.config = r.config
  BY EndStep
<1> HIDE DEF t
<1>2. QED
  <2>1. Sound(t, n)
    BY <1>1 DEF Sound, Registered, Armed, Recovering, Creating, Holding, Deleting
  <2>2. QED  BY <2>1 DEF t

(* How a transaction goes on: its arguments stay. *)
Same(r, t) == t.op = r.op /\ t.key = r.key /\ t.ns = r.ns /\ t.config = r.config

(* From LinkAdd to the ready state both compensations are armed, and the    *)
(* record of the endpoint stays in the copy.                                *)
LEMMA CreationSound ==
  ASSUME NEW r \in Tx, NEW t \in Tx, NEW m, NEW n, Sound(r, m),
         r.pc \in Creating \cup {"mark-ready", "persist-ready"},
         t.pc \in Creating \cup {"mark-ready", "persist-ready", "rollback"},
         Same(r, t), t.undo = r.undo, t.pc \in Creating => t.fd \in NetNS \cup {Limbo},
         n.endpoints[r.key] \in Record
  PROVE  Sound(t, n)
  BY DEF Sound, Registered, Armed, Recovering, Creating, Holding, Deleting, Same

LEMMA CommitMoves ==
  ASSUME CInv, NEW p \in Proc, NEW done \in Tx, NEW failed \in Tx,
         CommitThen(p, done, failed), Sound(done, mem[p]), Sound(failed, mem[p])
  PROVE  TxInv' /\ ProcStep(p)
<1>1. CASE UNCHANGED storeVars /\ (Become(p, done) \/ Become(p, failed))
  BY <1>1, QuietMove
<1>2. CASE /\ CommitWritten(p) \/ CommitRenamed(p)
           /\ Become(p, done) \/ Become(p, failed)
  <2>1. mem' = mem  BY <1>2 DEF CommitWritten, CommitRenamed
  <2>2. ProcStep(p)  BY <1>2 DEF ProcStep, ProcNext
  <2>3. QED  BY <1>2, <2>1, <2>2, Moves
<1>3. QED
  BY <1>1, <1>2 DEF CommitThen, CommitClean, CommitRefused, CommitUnwritten

LEMMA IdleSound == Idle \in Tx /\ \A m : Sound(Idle, m)
  BY DEF Idle, Tx, Steps, Sound, Registered, Armed, Recovering, Creating, Holding, Deleting

(* Commits. *)
LEMMA CommitSteps ==
  ASSUME CInv, NEW p \in Proc,
         Finish(p) \/ PersistPending(p) \/ PersistReconcile(p) \/ PersistReady(p)
           \/ PersistRelease(p)
  PROVE  TxInv' /\ ProcStep(p)
<1> DEFINE r == tx[p]
<1>1. r \in Tx /\ Sound(r, mem[p])  BY Here
<1>2. ASSUME r.pc # "idle"
      PROVE  \A res \in {"ok", "err"} : Ended(p, res) \in Tx /\ Sound(Ended(p, res), mem[p])
  BY <1>1, <1>2, EndStep, EndSound DEF Ended
<1>3. CASE Finish(p)
  BY <1>2, <1>3, CommitMoves DEF Finish, At
<1>4. CASE PersistPending(p)
  <2> DEFINE t == [r EXCEPT !.pc = "ensure-bridge", !.undo = <<"release">>]
  <2>1. /\ t \in Tx /\ t.pc = "ensure-bridge" /\ t.undo = <<"release">> /\ Same(r, t)
    BY <1>1 DEF Tx, Same, Steps, Holding
  <2>2. r.pc = "persist-pending" /\ CommitThen(p, t, Ended(p, "err"))
    BY <1>4 DEF PersistPending, At
  <2> HIDE DEF t
  <2>3. Sound(t, mem[p])
    BY <1>1, <2>1, <2>2
    DEF Sound, Registered, Armed, Recovering, Creating, Holding, Deleting, Same
  <2>4. QED  BY <1>2, <2>1, <2>2, <2>3, CommitMoves
<1>5. CASE PersistReconcile(p)
  <2> DEFINE t == [r EXCEPT !.pc = "find-host", !.caller = "reconcile-delete"]
  <2>1. /\ t \in Tx /\ t.pc = "find-host" /\ t.caller = "reconcile-delete"
        /\ t.undo = r.undo /\ Same(r, t)
    BY <1>1 DEF Tx, Same, Steps, Deleting, Callers
  <2>2. r.pc = "persist-reconcile" /\ CommitThen(p, t, Ended(p, "err"))
    BY <1>5 DEF PersistReconcile, At
  <2> HIDE DEF t
  <2>3. Sound(t, mem[p])
    BY <1>1, <2>1, <2>2
    DEF Sound, Registered, Armed, Recovering, Creating, Holding, Deleting, Callers, Same
  <2>4. QED  BY <1>2, <2>1, <2>2, <2>3, CommitMoves
<1>6. CASE PersistReady(p)
  <2> DEFINE t == [r EXCEPT !.pc = "finish", !.undo = <<>>]
             f == [r EXCEPT !.pc = "rollback"]
  <2>1. /\ t \in Tx /\ t.pc = "finish" /\ t.undo = <<>> /\ Same(r, t)
    BY <1>1 DEF Tx, Same, Steps
  <2>2. /\ f \in Tx /\ f.pc = "rollback" /\ f.undo = r.undo /\ Same(r, f)
    BY <1>1, GotoStep DEF Steps, Same
  <2>3. r.pc = "persist-ready" /\ CommitThen(p, t, f)
    BY <1>6 DEF PersistReady, At
  <2> HIDE DEF t, f
  <2>4. Sound(t, mem[p])
    BY <1>1, <2>1, <2>3
    DEF Sound, Registered, Armed, Recovering, Creating, Holding, Deleting, Same
  <2>5. Sound(f, mem[p])
    BY <1>1, <2>2, <2>3
    DEF Sound, Registered, Armed, Recovering, Creating, Holding, Deleting, Same
  <2>6. QED  BY <2>1, <2>2, <2>3, <2>4, <2>5, CommitMoves
<1>7. CASE PersistRelease(p)
  <2> DEFINE f == [r EXCEPT !.pc = "rollback"]
  <2>1. /\ f \in Tx /\ f.pc = "rollback" /\ f.undo = r.undo /\ Same(r, f)
    BY <1>1, GotoStep DEF Steps, Same
  <2>2. r.pc = "persist-release" /\ CommitThen(p, f, f)
    BY <1>7 DEF PersistRelease, At
  <2> HIDE DEF f
  <2>3. Sound(f, mem[p])
    BY <1>1, <2>1, <2>2
    DEF Sound, Registered, Armed, Recovering, Creating, Holding, Deleting, Same
  <2>4. QED  BY <2>1, <2>2, <2>3, CommitMoves
<1>8. QED  BY <1>3, <1>4, <1>5, <1>6, <1>7

(* The start of an invocation: its arguments, the lock, the load. *)
LEMMA EntrySteps ==
  ASSUME CInv, NEW p \in Proc,
         Invoke(p) \/ Lock(p) \/ Load(p) \/ LoadFails(p) \/ Return(p)
  PROVE  TxInv' /\ ProcStep(p)
<1> DEFINE r == tx[p]
<1>1. r \in Tx /\ Sound(r, mem[p])  BY Here
<1>2. CASE Invoke(p)
  <2>1. PICK op \in Ops, k \in Key : InvokeAs(p, op, k)  BY <1>2 DEF Invoke
  <2>2. PICK n \in NetNS \cup {NoNS}, c \in Config :
          /\ op # "DEL" => n # NoNS
          /\ Become(p, [Idle EXCEPT !.pc = "lock", !.op = op, !.key = k, !.ns = n,
                                    !.config = c])
    BY <2>1 DEF InvokeAs
  <2> DEFINE t == [Idle EXCEPT !.pc = "lock", !.op = op, !.key = k, !.ns = n, !.config = c]
  <2>3. /\ t \in Tx /\ t.pc = "lock" /\ t.op = op /\ t.key = k /\ t.ns = n
        /\ t.config = c /\ t.undo = <<>>
    BY IdleSound DEF Tx, Steps, Idle
  <2>4. Become(p, t) /\ UNCHANGED storeVars  BY <2>1, <2>2 DEF InvokeAs
  <2> HIDE DEF t
  <2>5. Sound(t, mem[p])
    BY <2>2, <2>3 DEF Sound, Registered, Armed, Recovering, Creating, Holding, Deleting
  <2>6. QED  BY <2>3, <2>4, <2>5, QuietMove
<1>3. CASE Lock(p)
  <2> DEFINE t == [r EXCEPT !.pc = "load"]
  <2>1. t \in Tx /\ t.pc = "load" /\ t.undo = r.undo /\ Same(r, t)
    BY <1>1, GotoStep DEF Steps, Same
  <2>2. r.pc = "lock" /\ Become(p, t) /\ flockExclusive(p)
    BY <1>3 DEF Lock, At, Goto
  <2> HIDE DEF t
  <2>3. Sound(t, mem'[p])
    BY <1>1, <2>1, <2>2
    DEF Sound, Registered, Armed, Recovering, Creating, Holding, Deleting, Same
  <2>4. QED  BY <2>1, <2>2, <2>3, Moves DEF ProcStep, ProcNext
<1>4. CASE Load(p)
  <2>1. r.pc = "load" /\ loadState(p)  BY <1>4 DEF Load, At
  <2>2. r.op \in Ops /\ r.op \in {"ADD", "CHECK", "DEL"} /\ r.undo = <<>>
    BY <1>1, <2>1, CloudnetAssumption DEF Sound, Registered
  <2>3. PICK t \in Tx : /\ Become(p, t) /\ Same(r, t) /\ t.undo = r.undo
                        /\ \/ t.pc = "allocate" /\ t.op = "ADD"
                           \/ t.pc = "check"
                           \/ t.pc = "find-host" /\ t.caller = "delete-endpoint"
    <3>1. CASE r.op = "ADD"
      <4> DEFINE t == [r EXCEPT !.pc = "allocate"]
      <4>1. t \in Tx /\ t.pc = "allocate" /\ t.op = "ADD" /\ t.undo = r.undo /\ Same(r, t)
        BY <1>1, <3>1, GotoStep DEF Steps, Same
      <4>2. Become(p, t)  BY <1>4, <3>1 DEF Load
      <4>3. QED  BY <4>1, <4>2
    <3>2. CASE r.op = "CHECK"
      <4> DEFINE t == [r EXCEPT !.pc = "check"]
      <4>1. t \in Tx /\ t.pc = "check" /\ t.undo = r.undo /\ Same(r, t)
        BY <1>1, GotoStep DEF Steps, Same
      <4>2. Become(p, t)  BY <1>4, <3>2 DEF Load
      <4>3. QED  BY <4>1, <4>2
    <3>3. CASE r.op = "DEL"
      <4> DEFINE t == [r EXCEPT !.pc = "find-host", !.caller = "delete-endpoint"]
      <4>1. /\ t \in Tx /\ t.pc = "find-host" /\ t.caller = "delete-endpoint"
            /\ t.undo = r.undo /\ Same(r, t)
        BY <1>1 DEF Tx, Same, Steps, Deleting, Callers
      <4>2. Become(p, t)  BY <1>4, <3>3 DEF Load
      <4>3. QED  BY <4>1, <4>2
    <3>4. QED  BY <2>2, <3>1, <3>2, <3>3
  <2>4. Sound(t, mem'[p])
    BY <1>1, <2>1, <2>2, <2>3
    DEF Sound, Registered, Armed, Recovering, Creating, Holding, Deleting, Same, Callers
  <2>5. QED  BY <2>1, <2>3, <2>4, Moves DEF ProcStep, ProcNext
<1>5. CASE LoadFails(p) \/ Return(p)
  <2>1. Unlock(p) /\ Become(p, Idle)  BY <1>5 DEF LoadFails, Return
  <2>2. ProcStep(p)  BY <2>1 DEF ProcStep, ProcNext
  <2>3. QED  BY <2>1, <2>2, IdleSound, Moves
<1>6. QED  BY <1>2, <1>3, <1>4, <1>5

(* What the operations do to the record of the endpoint in the copy. *)
LEMMA AllocatedRecord ==
  ASSUME CInv, NEW p \in Proc, NEW k \in Key, NEW c \in Config, NEW n \in NetNS,
         Allocate(p, k, c, n)
  PROVE  /\ mem'[p].endpoints[k] \in Record
         /\ mem'[p].endpoints[k].phase =
              IF HasEndpoint(mem[p], k) THEN mem[p].endpoints[k].phase ELSE "pending"
<1> DEFINE s == mem[p]
<1>1. s \in State /\ mem \in [Proc -> State]  BY Here
<1>2. s.endpoints \in [Key -> Record \cup {NoRecord}]  BY <1>1 DEF State
<1>3. PICK t \in Clock : Update(p, AllocateResult(s, k, c, n, t))
  BY DEF Allocate
<1>4. t \in BOOLEAN  BY StoreStateAssumption
<1>5. mem'[p] = AllocateResult(s, k, c, n, t)  BY <1>1, <1>3 DEF Update
<1>6. CASE HasEndpoint(s, k)
  <2>1. s.endpoints[k] \in Record  BY <1>2, <1>6 DEF HasEndpoint
  <2> DEFINE new == [s.endpoints[k] EXCEPT !.netns = n, !.inOrder = t]
  <2>2. [s EXCEPT !.endpoints[k].netns = n, !.endpoints[k].inOrder = t]
          = [s EXCEPT !.endpoints[k] = new]
    BY <1>1, <2>1 DEF State, Record
  <2>3. [s EXCEPT !.endpoints[k] = new].endpoints[k] = new
    BY <1>1, <1>2 DEF State
  <2>4. mem'[p] = s \/ mem'[p].endpoints[k] = new
    BY <1>5, <1>6, <2>2, <2>3 DEF AllocateResult, AllocateExisting
  <2>5. new \in Record /\ new.phase = s.endpoints[k].phase
    BY <1>4, <2>1 DEF Record
  <2>6. QED  BY <1>6, <2>1, <2>4, <2>5
<1>7. CASE ~HasEndpoint(s, k)
  <2>1. FreeAddresses(s, c) # {}  BY <1>7 DEF Allocate, AllocateAllowed
  <2>2. mem'[p].endpoints[k] = NewRecord(s, c, n)
    BY <1>1, <1>2, <1>5, <1>7 DEF AllocateResult, AllocateNew, State
  <2>3. NewRecord(s, c, n) \in Record  BY <1>1, <2>1, NewRecordType
  <2>4. QED  BY <1>7, <2>2, <2>3 DEF NewRecord
<1>8. QED  BY <1>6, <1>7

LEMMA MarkedRecord ==
  ASSUME CInv, NEW p \in Proc, NEW k \in Key, NEW phase \in Phase, MarkPhase(p, k, phase)
  PROVE  mem'[p].endpoints[k] \in Record /\ mem'[p].endpoints[k].phase = phase
<1> DEFINE s == mem[p]
<1>1. s \in State /\ mem \in [Proc -> State]  BY Here
<1>2. s.endpoints \in [Key -> Record \cup {NoRecord}]  BY <1>1 DEF State
<1>3. s.endpoints[k] \in Record  BY <1>2 DEF MarkPhase, HasEndpoint
<1>4. PICK t \in Clock : Update(p, MarkResult(s, k, phase, t))
  BY DEF MarkPhase
<1>5. t \in BOOLEAN  BY StoreStateAssumption
<1>6. mem'[p] = MarkResult(s, k, phase, t)  BY <1>1, <1>4 DEF Update
<1> DEFINE new == [s.endpoints[k] EXCEPT !.phase = phase, !.inOrder = t]
<1>7. [s EXCEPT !.endpoints[k].phase = phase, !.endpoints[k].inOrder = t]
        = [s EXCEPT !.endpoints[k] = new]
  BY <1>1, <1>3 DEF State, Record
<1>8. [s EXCEPT !.endpoints[k] = new].endpoints[k] = new
  BY <1>1, <1>2 DEF State
<1>9. new \in Record /\ new.phase = phase  BY <1>3, <1>5 DEF Record
<1>10. QED  BY <1>3, <1>6, <1>7, <1>8, <1>9 DEF MarkResult

(* ADD on the store: the allocation and the two changes of the phase. *)
LEMMA AddStoreSteps ==
  ASSUME CInv, NEW p \in Proc, AddAllocate(p) \/ ReconcilePending(p) \/ AddMarkReady(p)
  PROVE  TxInv' /\ ProcStep(p)
<1> DEFINE r == tx[p]
           k == r.key
<1>1. r \in Tx /\ Sound(r, mem[p])  BY Here
<1>2. CASE AddAllocate(p)
  <2>1. r.pc = "allocate" /\ Allocate(p, k, r.config, r.ns)
    BY <1>2 DEF AddAllocate, At, Key_
  <2>2. k \in Key /\ r.config \in Config /\ r.ns \in NetNS /\ r.op = "ADD" /\ r.undo = <<>>
    BY <1>1, <2>1 DEF Sound, Registered
  <2>3. /\ mem'[p].endpoints[k] \in Record
        /\ mem'[p].endpoints[k].phase =
             IF HasEndpoint(mem[p], k) THEN mem[p].endpoints[k].phase ELSE "pending"
    BY <2>1, <2>2, AllocatedRecord
  <2>4. mem'[p].endpoints[k].phase \in {"pending", "ready"}  BY <2>3 DEF Record, Phase
  <2>5. PICK t \in Tx : /\ Become(p, t) /\ Same(r, t)
                        /\ \/ /\ t.pc = "persist-pending" /\ t.undo = <<>>
                              /\ mem'[p].endpoints[k].phase = "pending"
                           \/ /\ t.pc = "find-host" /\ t.caller = "recover-pending"
                              /\ t.undo = <<"release">>
                              /\ mem'[p].endpoints[k].phase = "pending"
                           \/ /\ t.pc = "ensure-bridge" /\ t.undo = <<>>
                              /\ mem'[p].endpoints[k].phase = "ready"
    <3> DEFINE t1 == [r EXCEPT !.pc = "persist-pending"]
               t2 == [r EXCEPT !.pc = "find-host", !.caller = "recover-pending",
                               !.undo = <<"release">>]
               t3 == [r EXCEPT !.pc = "ensure-bridge"]
    <3>1. t1 \in Tx /\ t1.pc = "persist-pending" /\ t1.undo = r.undo /\ Same(r, t1)
      BY <1>1, GotoStep DEF Steps, Holding, Same
    <3>2. /\ t2 \in Tx /\ t2.pc = "find-host" /\ t2.caller = "recover-pending"
          /\ t2.undo = <<"release">> /\ Same(r, t2)
      BY <1>1 DEF Tx, Same, Steps, Deleting, Callers
    <3>3. t3 \in Tx /\ t3.pc = "ensure-bridge" /\ t3.undo = r.undo /\ Same(r, t3)
      BY <1>1, GotoStep DEF Steps, Holding, Same
    <3>4. Become(p, IF ~HasEndpoint(mem[p], k) THEN t1
                    ELSE IF mem[p].endpoints[k].phase = "pending" THEN t2 ELSE t3)
      BY <1>2 DEF AddAllocate, Key_, RecordOf
    <3> HIDE DEF t1, t2, t3
    <3>5. CASE ~HasEndpoint(mem[p], k)  BY <2>2, <2>3, <3>1, <3>4, <3>5
    <3>6. CASE HasEndpoint(mem[p], k) /\ mem[p].endpoints[k].phase = "pending"
      BY <2>3, <3>2, <3>4, <3>6
    <3>7. CASE HasEndpoint(mem[p], k) /\ mem[p].endpoints[k].phase # "pending"
      BY <2>2, <2>3, <2>4, <3>3, <3>4, <3>7
    <3>8. QED  BY <3>5, <3>6, <3>7
  <2>6. Sound(t, mem'[p])
    BY <1>1, <2>1, <2>2, <2>3, <2>5
    DEF Sound, Registered, Armed, Recovering, Creating, Holding, Deleting, Callers, Same
  <2>7. ProcStep(p)  BY <2>1, <2>2 DEF ProcStep, ProcNext
  <2>8. QED  BY <2>5, <2>6, <2>7, Moves
<1>3. CASE ReconcilePending(p)
  <2> DEFINE t == [r EXCEPT !.pc = "persist-reconcile"]
  <2>1. t \in Tx /\ t.pc = "persist-reconcile" /\ t.undo = r.undo /\ Same(r, t)
    BY <1>1, GotoStep DEF Steps, Holding, Same
  <2>2. r.pc = "reconcile-pending" /\ MarkPhase(p, k, "pending") /\ Become(p, t)
    BY <1>3 DEF ReconcilePending, At, Goto, Key_
  <2>3. k \in Key /\ "pending" \in Phase  BY <1>1, <2>2 DEF Sound, Phase
  <2>4. mem'[p].endpoints[k] \in Record  BY <2>2, <2>3, MarkedRecord
  <2> HIDE DEF t
  <2>5. Sound(t, mem'[p])
    BY <1>1, <2>1, <2>2, <2>4
    DEF Sound, Registered, Armed, Recovering, Creating, Holding, Deleting, Same
  <2>6. ProcStep(p)  BY <2>2, <2>3 DEF ProcStep, ProcNext
  <2>7. QED  BY <2>1, <2>2, <2>5, <2>6, Moves
<1>4. CASE AddMarkReady(p)
  <2> DEFINE t == [r EXCEPT !.pc = "persist-ready"]
  <2>1. t \in Tx /\ t.pc = "persist-ready" /\ t.undo = r.undo /\ Same(r, t)
    BY <1>1, GotoStep DEF Steps, Holding, Same
  <2>2. r.pc = "mark-ready" /\ MarkPhase(p, k, "ready") /\ Become(p, t)
    BY <1>4 DEF AddMarkReady, At, Goto, Key_
  <2>3. k \in Key /\ "ready" \in Phase  BY <1>1, <2>2 DEF Sound, Phase
  <2>4. mem'[p].endpoints[k] \in Record  BY <2>2, <2>3, MarkedRecord
  <2> HIDE DEF t
  <2>5. Sound(t, mem'[p])
    BY <1>1, <2>1, <2>2, <2>4, CreationSound DEF Creating
  <2>6. ProcStep(p)  BY <2>2, <2>3 DEF ProcStep, ProcNext
  <2>7. QED  BY <2>1, <2>2, <2>5, <2>6, Moves
<1>5. QED  BY <1>2, <1>3, <1>4

(* ADD on the way to the link: bridge, check of a ready endpoint, preflight. *)
LEMMA AddQuietSteps ==
  ASSUME CInv, NEW p \in Proc,
         AddAllocateFails(p) \/ AddEnsureBridge(p) \/ IdempotencyCheck(p) \/ Preflight(p)
  PROVE  TxInv' /\ ProcStep(p)
<1> DEFINE r == tx[p]
           m == mem[p]
<1>1. r \in Tx /\ Sound(r, m)  BY Here
<1>2. UNCHANGED storeVars
  BY DEF AddAllocateFails, AddEnsureBridge, IdempotencyCheck, Preflight
<1>3. CASE AddAllocateFails(p)
  <2>1. r.pc = "allocate" /\ Become(p, Ended(p, "err"))
    BY <1>3 DEF AddAllocateFails, At
  <2>2. Ended(p, "err") \in Tx /\ Sound(Ended(p, "err"), m)
    BY <1>1, <2>1, EndStep, EndSound DEF Ended
  <2>3. QED  BY <1>2, <2>1, <2>2, QuietMove
<1>4. CASE AddEnsureBridge(p)
  <2> DEFINE t == [r EXCEPT !.pc = IF m.endpoints[r.key].phase = "ready"
                                     THEN "idempotency-check" ELSE "create-veth"]
             f == [r EXCEPT !.pc = "rollback"]
  <2>1. /\ t \in Tx /\ t.undo = r.undo /\ Same(r, t)
        /\ t.pc = IF m.endpoints[r.key].phase = "ready"
                    THEN "idempotency-check" ELSE "create-veth"
    BY <1>1, GotoStep DEF Steps, Holding, Same
  <2>2. f \in Tx /\ f.pc = "rollback" /\ f.undo = r.undo /\ Same(r, f)
    BY <1>1, GotoStep DEF Steps, Same
  <2>3. r.pc = "ensure-bridge" /\ (Become(p, t) \/ Become(p, f))
    BY <1>4 DEF AddEnsureBridge, At, Goto, RecordOf, Key_
  <2> HIDE DEF t, f
  <2>4. Sound(t, m)
    BY <1>1, <2>1, <2>3
    DEF Sound, Registered, Armed, Recovering, Creating, Holding, Deleting, Same
  <2>5. Sound(f, m)
    BY <1>1, <2>2, <2>3
    DEF Sound, Registered, Armed, Recovering, Creating, Holding, Deleting, Same
  <2>6. QED  BY <1>2, <2>1, <2>2, <2>3, <2>4, <2>5, QuietMove
<1>5. CASE IdempotencyCheck(p)
  <2> DEFINE t == [r EXCEPT !.pc = "finish", !.undo = <<>>]
             f == [r EXCEPT !.pc = "reconcile-pending"]
  <2>1. t \in Tx /\ t.pc = "finish" /\ t.undo = <<>> /\ Same(r, t)
    BY <1>1 DEF Tx, Same, Steps
  <2>2. f \in Tx /\ f.pc = "reconcile-pending" /\ f.undo = r.undo /\ Same(r, f)
    BY <1>1, GotoStep DEF Steps, Holding, Same
  <2>3. r.pc = "idempotency-check" /\ (Become(p, t) \/ Become(p, f))
    BY <1>5 DEF IdempotencyCheck, At, Goto
  <2> HIDE DEF t, f
  <2>4. Sound(t, m)
    BY <1>1, <2>1, <2>3
    DEF Sound, Registered, Armed, Recovering, Creating, Holding, Deleting, Same
  <2>5. Sound(f, m)
    BY <1>1, <2>2, <2>3
    DEF Sound, Registered, Armed, Recovering, Creating, Holding, Deleting, Same
  <2>6. QED  BY <1>2, <2>1, <2>2, <2>3, <2>4, <2>5, QuietMove
<1>6. CASE Preflight(p)
  <2> DEFINE both == Append(r.undo, "delete")
             t == [r EXCEPT !.undo = both, !.pc = "link-add", !.fd = r.ns]
             f == [r EXCEPT !.undo = both, !.pc = "rollback"]
  <2>1. r.pc = "create-veth" /\ (Become(p, t) \/ Become(p, f))
    BY <1>6, <1>1 DEF Preflight, At, Tx
  <2>2. both = <<"release", "delete">>
    BY <1>1, <2>1, Stacks DEF Sound, Registered
  <2>3. r.op = "ADD" /\ r.ns \in NetNS  BY <1>1, <2>1 DEF Sound, Holding
  <2> HIDE DEF both
  <2>4. /\ t \in Tx /\ t.pc = "link-add" /\ t.undo = both /\ t.fd = r.ns /\ Same(r, t)
    BY <1>1, <2>2, <2>3 DEF Tx, Same, Steps, Holding, Creating
  <2>5. f \in Tx /\ f.pc = "rollback" /\ f.undo = both /\ Same(r, f)
    BY <1>1, <2>2 DEF Tx, Same, Steps
  <2> HIDE DEF t, f
  <2>6. Sound(t, m)
    BY <1>1, <2>1, <2>2, <2>3, <2>4
    DEF Sound, Registered, Armed, Recovering, Creating, Holding, Deleting, Same
  <2>7. Sound(f, m)
    BY <1>1, <2>1, <2>5
    DEF Sound, Registered, Armed, Recovering, Creating, Holding, Deleting, Same
  <2>8. QED  BY <1>2, <2>1, <2>4, <2>5, <2>6, <2>7, QuietMove
<1>7. QED  BY <1>3, <1>4, <1>5, <1>6

(* The steps of CreateEndpoint after the preflight, its failures included. *)
LEMMA CreateSteps ==
  ASSUME CInv, NEW p \in Proc,
         \/ LinkAdd(p) \/ AliasHost(p) \/ AliasPeer(p) \/ MovePeer(p)
         \/ ConfigureAddress(p) \/ AddRoute(p) \/ VerifyHost(p) \/ UndoCreate(p)
  PROVE  TxInv' /\ ProcStep(p)
<1> DEFINE r == tx[p]
           m == mem[p]
<1>1. r \in Tx /\ Sound(r, m)  BY Here
<1>2. UNCHANGED storeVars
  BY DEF LinkAdd, AliasHost, AliasPeer, MovePeer, ConfigureAddress, AddRoute,
         VerifyHost, UndoCreate, CreateStep
<1>3. r.pc \in Creating
  BY DEF LinkAdd, AliasHost, AliasPeer, MovePeer, ConfigureAddress, AddRoute,
         VerifyHost, UndoCreate, CreateStep, At, Creating
<1>4. m.endpoints[r.key] \in Record /\ r.fd \in NetNS \cup {Limbo}
  BY <1>1, <1>3 DEF Sound, Holding
<1>5. \/ \E pc \in Creating : Become(p, [r EXCEPT !.pc = pc])
      \/ \E pc \in {"mark-ready", "rollback"} :
           Become(p, [r EXCEPT !.pc = pc, !.fd = NoNS])
  BY DEF LinkAdd, AliasHost, AliasPeer, MovePeer, ConfigureAddress, AddRoute,
         VerifyHost, UndoCreate, CreateStep, CreateFails, Goto, Creating
<1>6. CASE \E pc \in Creating : Become(p, [r EXCEPT !.pc = pc])
  <2>1. PICK pc \in Creating : Become(p, [r EXCEPT !.pc = pc])  BY <1>6
  <2> DEFINE t == [r EXCEPT !.pc = pc]
  <2>2. t \in Tx /\ t.pc = pc /\ t.undo = r.undo /\ t.fd = r.fd /\ Same(r, t)
    BY <1>1, GotoStep DEF Steps, Holding, Same
  <2>3. Become(p, t)  BY <2>1
  <2> HIDE DEF t
  <2>4. Sound(t, m)  BY <1>1, <1>3, <1>4, <2>2, CreationSound
  <2>5. QED  BY <1>2, <2>2, <2>3, <2>4, QuietMove
<1>7. CASE \E pc \in {"mark-ready", "rollback"} :
             Become(p, [r EXCEPT !.pc = pc, !.fd = NoNS])
  <2>1. PICK pc \in {"mark-ready", "rollback"} :
          Become(p, [r EXCEPT !.pc = pc, !.fd = NoNS])
    BY <1>7
  <2> DEFINE t == [r EXCEPT !.pc = pc, !.fd = NoNS]
  <2>2. pc \in Steps /\ pc \notin Creating  BY DEF Steps, Holding, Creating
  <2>3. t \in Tx /\ t.pc = pc /\ t.undo = r.undo /\ Same(r, t)
    BY <1>1, <2>2 DEF Tx, Same
  <2>4. Become(p, t)  BY <2>1
  <2> HIDE DEF t
  <2>5. Sound(t, m)  BY <1>1, <1>3, <1>4, <2>2, <2>3, CreationSound
  <2>6. QED  BY <1>2, <2>3, <2>4, <2>5, QuietMove
<1>8. QED  BY <1>5, <1>6, <1>7

(* Where DeleteEndpoint returns to, after success and after failure. *)
LEMMA AfterDelete ==
  ASSUME CInv, NEW p \in Proc, tx[p].pc \in Deleting
  PROVE  /\ Deleted(p) \in Tx /\ Sound(Deleted(p), mem[p])
         /\ NotDeleted(p) \in Tx /\ Sound(NotDeleted(p), mem[p])
<1> DEFINE r == tx[p]
           m == mem[p]
<1>1. r \in Tx /\ Sound(r, m)  BY Here
<1>2. r.caller \in Callers  BY <1>1 DEF Sound
<1>3. r.pc # "idle"  BY DEF Deleting
<1>4. Ended(p, "err") \in Tx /\ Sound(Ended(p, "err"), m)
  BY <1>1, <1>3, EndStep, EndSound DEF Ended
<1>5. CASE r.caller = "recover-pending"
  <2> DEFINE t == [r EXCEPT !.pc = "ensure-bridge"]
  <2>1. t \in Tx /\ t.pc = "ensure-bridge" /\ t.undo = r.undo /\ Same(r, t)
    BY <1>1, GotoStep DEF Steps, Holding, Same
  <2>2. Deleted(p) = t  BY <1>5 DEF Deleted
  <2>3. NotDeleted(p) = Ended(p, "err")  BY <1>5 DEF NotDeleted
  <2> HIDE DEF t
  <2>4. Sound(t, m)
    BY <1>1, <1>5, <2>1
    DEF Sound, Registered, Armed, Recovering, Creating, Holding, Deleting, Same
  <2>5. QED  BY <1>4, <2>1, <2>2, <2>3, <2>4
<1>6. CASE r.caller = "reconcile-delete"
  <2> DEFINE t == [r EXCEPT !.pc = "create-veth", !.undo = Append(r.undo, "release")]
  <2>1. Append(r.undo, "release") = <<"release">>
    BY <1>1, <1>6, Stacks DEF Sound, Registered
  <2>2. t \in Tx /\ t.pc = "create-veth" /\ t.undo = <<"release">> /\ Same(r, t)
    BY <1>1, <2>1 DEF Tx, Same, Steps, Holding
  <2>3. Deleted(p) = t  BY <1>1, <1>6 DEF Deleted, Tx
  <2>4. NotDeleted(p) = Ended(p, "err")  BY <1>6 DEF NotDeleted
  <2> HIDE DEF t
  <2>5. Sound(t, m)
    BY <1>1, <1>6, <2>2
    DEF Sound, Registered, Armed, Recovering, Creating, Holding, Deleting, Same
  <2>6. QED  BY <1>4, <2>2, <2>3, <2>4, <2>5
<1>7. CASE r.caller = "rollback"
  <2> DEFINE t == [r EXCEPT !.pc = "rollback", !.undo = Front(r.undo)]
             f == [r EXCEPT !.pc = "rollback", !.undo = <<>>]
  <2>1. Front(r.undo) = <<"release">>
    BY <1>1, <1>7, Stacks DEF Sound, Registered, Armed
  <2>2. t \in Tx /\ t.pc = "rollback" /\ Same(r, t)
    BY <1>1, <2>1 DEF Tx, Same, Steps
  <2>3. f \in Tx /\ f.pc = "rollback" /\ Same(r, f)
    BY <1>1 DEF Tx, Same, Steps
  <2>4. Deleted(p) = t  BY <1>1, <1>7 DEF Deleted, Tx
  <2>5. NotDeleted(p) = f  BY <1>7 DEF NotDeleted
  <2> HIDE DEF t, f
  <2>6. Sound(t, m) /\ Sound(f, m)
    BY <1>1, <1>3, <2>2, <2>3
    DEF Sound, Registered, Armed, Recovering, Creating, Holding, Deleting, Same
  <2>7. QED  BY <2>2, <2>3, <2>4, <2>5, <2>6
<1>8. CASE r.caller = "delete-endpoint"
  <2> DEFINE t == [r EXCEPT !.pc = "release"]
  <2>1. t \in Tx /\ t.pc = "release" /\ t.undo = r.undo /\ Same(r, t)
    BY <1>1, GotoStep DEF Steps, Same
  <2>2. Deleted(p) = t  BY <1>8 DEF Deleted
  <2>3. NotDeleted(p) = Ended(p, "err")  BY <1>8 DEF NotDeleted
  <2> HIDE DEF t
  <2>4. Sound(t, m)
    BY <1>1, <1>8, <2>1
    DEF Sound, Registered, Armed, Recovering, Creating, Holding, Deleting, Same
  <2>5. QED  BY <1>4, <2>1, <2>2, <2>3, <2>4
<1>9. QED  BY <1>2, <1>5, <1>6, <1>7, <1>8 DEF Callers

(* DeleteEndpoint. *)
LEMMA DeleteSteps ==
  ASSUME CInv, NEW p \in Proc, FindHost(p) \/ LinkDel(p) \/ StatPeer(p) \/ FindPeer(p)
  PROVE  TxInv' /\ ProcStep(p)
<1> DEFINE r == tx[p]
           m == mem[p]
<1>1. r \in Tx /\ Sound(r, m)  BY Here
<1>2. UNCHANGED storeVars /\ r.pc \in Deleting
  BY DEF FindHost, LinkDel, StatPeer, FindPeer, At, Deleting
<1>3. \/ \E pc \in {"link-del", "stat-peer", "find-peer"} : Become(p, [r EXCEPT !.pc = pc])
      \/ Become(p, Deleted(p)) \/ Become(p, NotDeleted(p))
  BY DEF FindHost, LinkDel, StatPeer, FindPeer, Goto
<1>4. CASE \E pc \in {"link-del", "stat-peer", "find-peer"} : Become(p, [r EXCEPT !.pc = pc])
  <2>1. PICK pc \in {"link-del", "stat-peer", "find-peer"} : Become(p, [r EXCEPT !.pc = pc])
    BY <1>4
  <2> DEFINE t == [r EXCEPT !.pc = pc]
  <2>2. pc \in Steps  BY DEF Steps, Deleting
  <2>3. /\ t \in Tx /\ t.pc \in {"link-del", "stat-peer", "find-peer"} /\ t.undo = r.undo
        /\ t.caller = r.caller /\ Same(r, t)
    BY <1>1, <2>2, GotoStep DEF Same
  <2>4. Become(p, t)  BY <2>1
  <2> HIDE DEF t
  <2>5. Sound(t, m)
    BY <1>1, <1>2, <2>3
    DEF Sound, Registered, Armed, Recovering, Creating, Holding, Deleting, Same
  <2>6. QED  BY <1>2, <2>3, <2>4, <2>5, QuietMove
<1>5. CASE Become(p, Deleted(p)) \/ Become(p, NotDeleted(p))
  BY <1>2, <1>5, AfterDelete, QuietMove
<1>6. QED  BY <1>3, <1>4, <1>5

(* The rollback, the release of a DEL, and CHECK. *)
LEMMA RollbackSteps ==
  ASSUME CInv, NEW p \in Proc,
         RollbackDelete(p) \/ RollbackRelease(p) \/ RollbackEnds(p)
  PROVE  TxInv' /\ ProcStep(p)
<1> DEFINE r == tx[p]
           m == mem[p]
<1>1. r \in Tx /\ Sound(r, m)  BY Here
<1>2. r.undo \in {<<>>, <<"release">>, <<"release", "delete">>}  BY <1>1 DEF Tx
<1>3. CASE RollbackDelete(p)
  <2> DEFINE t == [r EXCEPT !.pc = "find-host", !.caller = "rollback"]
  <2>1. /\ r.pc = "rollback" /\ Become(p, t) /\ UNCHANGED storeVars
        /\ r.undo # <<>> /\ Last(r.undo) = "delete"
    BY <1>3 DEF RollbackDelete, At
  <2>2. r.undo = <<"release", "delete">>  BY <1>2, <2>1, Stacks
  <2>3. /\ t \in Tx /\ t.pc = "find-host" /\ t.caller = "rollback" /\ t.undo = r.undo
        /\ Same(r, t)
    BY <1>1 DEF Tx, Same, Steps, Deleting, Callers
  <2> HIDE DEF t
  <2>4. Sound(t, m)
    BY <1>1, <2>1, <2>2, <2>3
    DEF Sound, Registered, Armed, Recovering, Creating, Holding, Deleting, Same, Callers
  <2>5. QED  BY <2>1, <2>3, <2>4, QuietMove
<1>4. CASE RollbackRelease(p)
  <2> DEFINE t == [r EXCEPT !.pc = "persist-release", !.undo = Front(r.undo)]
  <2>1. /\ r.pc = "rollback" /\ Become(p, t) /\ Release(p, r.key)
        /\ r.undo # <<>> /\ Last(r.undo) = "release"
    BY <1>1, <1>4 DEF RollbackRelease, At, Key_, Tx
  <2>2. Front(r.undo) = <<>>  BY <1>2, <2>1, Stacks
  <2>3. t \in Tx /\ t.pc = "persist-release" /\ t.undo = <<>> /\ Same(r, t)
    BY <1>1, <2>2 DEF Tx, Same, Steps
  <2>4. r.key \in Key  BY <1>1, <2>1 DEF Sound
  <2> HIDE DEF t
  <2>5. Sound(t, mem'[p])
    BY <1>1, <2>1, <2>3
    DEF Sound, Registered, Armed, Recovering, Creating, Holding, Deleting, Same
  <2>6. ProcStep(p)  BY <2>1, <2>4 DEF ProcStep, ProcNext
  <2>7. QED  BY <2>1, <2>3, <2>5, <2>6, Moves
<1>5. CASE RollbackEnds(p)
  <2>1. r.pc = "rollback" /\ Become(p, Ended(p, "err")) /\ UNCHANGED storeVars
    BY <1>5 DEF RollbackEnds, At
  <2>2. Ended(p, "err") \in Tx /\ Sound(Ended(p, "err"), m)
    BY <1>1, <2>1, EndStep, EndSound DEF Ended
  <2>3. QED  BY <2>1, <2>2, QuietMove
<1>6. QED  BY <1>3, <1>4, <1>5

LEMMA FinalSteps ==
  ASSUME CInv, NEW p \in Proc, DelRelease(p) \/ Check(p)
  PROVE  TxInv' /\ ProcStep(p)
<1> DEFINE r == tx[p]
           t == [r EXCEPT !.pc = "finish"]
<1>1. r \in Tx /\ Sound(r, mem[p])  BY Here
<1>2. r.pc \in {"release", "check"} /\ r.key \in Key /\ r.undo = <<>>
  BY <1>1 DEF DelRelease, Check, At, Sound, Registered
<1>3. t \in Tx /\ t.pc = "finish" /\ t.undo = r.undo /\ Same(r, t)
  BY <1>1, GotoStep DEF Steps, Same
<1>4. ASSUME NEW m PROVE Sound(t, m)
  <2> HIDE DEF t
  <2>1. QED
    BY <1>1, <1>2, <1>3
    DEF Sound, Registered, Armed, Recovering, Creating, Holding, Deleting, Same
<1>5. CASE DelRelease(p)
  <2>1. Become(p, t) /\ Release(p, r.key)  BY <1>5 DEF DelRelease, Goto, Key_
  <2>2. ProcStep(p)  BY <1>2, <2>1 DEF ProcStep, ProcNext
  <2>3. QED  BY <1>3, <1>4, <2>1, <2>2, Moves
<1>6. CASE Check(p)
  <2>1. (Become(p, t) \/ Become(p, Ended(p, "err"))) /\ UNCHANGED storeVars
    BY <1>6 DEF Check, Goto
  <2>2. Ended(p, "err") \in Tx /\ Sound(Ended(p, "err"), mem[p])
    BY <1>1, <1>2, EndStep, EndSound DEF Ended
  <2>3. QED  BY <1>3, <1>4, <2>1, <2>2, QuietMove
<1>7. QED  BY <1>5, <1>6

(* The death of an invocation is an unlock if it holds the lock, and is     *)
(* nothing to the store if it does not.                                     *)
LEMMA CrashStep ==
  ASSUME CInv, NEW p \in Proc, Crash(p)
  PROVE  TxInv' /\ ProcStep(p)
<1>1. unlock(p) /\ Become(p, Idle)  BY DEF Crash
<1>2. ProcStep(p)
  <2>1. CASE lock = p  BY <1>1, <2>1 DEF Unlock, ProcStep, ProcNext
  <2>2. CASE lock # p
    <3>1. ~active[p] /\ ~dirty[p] /\ mem[p] = newPersistedState
      BY <2>2 DEF CInv, CopyNeedsLock
    <3>2. UNCHANGED storeVars
      BY <1>1, <2>2, <3>1, Here DEF unlock, storeVars
    <3>3. QED  BY <3>2 DEF ProcStep
  <2>3. QED  BY <2>1, <2>2
<1>3. QED  BY <1>1, <1>2, IdleSound, Moves

(* Everything an invocation does, as the store and its transaction see it. *)
LEMMA InvocationStep ==
  ASSUME CInv, NEW p \in Proc, Invoke(p) \/ Lock(p) \/ Run(p) \/ Crash(p)
  PROVE  TxInv' /\ ProcStep(p)
<1>1. CASE Invoke(p) \/ Lock(p) \/ Load(p) \/ LoadFails(p) \/ Return(p)
  BY <1>1, EntrySteps
<1>2. CASE AddNext(p)
  BY <1>2, AddStoreSteps, AddQuietSteps, CreateSteps, CommitSteps, RollbackSteps
  DEF AddNext
<1>3. CASE DeleteNext(p)  BY <1>3, DeleteSteps, FinalSteps DEF DeleteNext
<1>4. CASE Check(p)  BY <1>4, FinalSteps
<1>5. CASE Finish(p)  BY <1>5, CommitSteps
<1>6. CASE Crash(p)  BY <1>6, CrashStep
<1>7. QED  BY <1>1, <1>2, <1>3, <1>4, <1>5, <1>6 DEF Run

(* What happens around the invocations reaches the store only as the loss   *)
(* or damage of the file, and a transaction only as a namespace whose path  *)
(* is gone.                                                                 *)
LEMMA EnvironmentStep ==
  ASSUME CInv, Environment
  PROVE  TxInv' /\ (LoseState \/ DamageState \/ UNCHANGED storeVars)
<1>1. CASE StateLost \/ StateDamaged
  <2>1. (LoseState \/ DamageState) /\ UNCHANGED tx  BY <1>1 DEF StateLost, StateDamaged
  <2>2. UNCHANGED mem  BY <2>1 DEF LoseState, DamageState
  <2>3. QED  BY <2>1, <2>2 DEF CInv, TxInv, RollbackFollows
<1>2. ASSUME NEW n \in NetNS, NamespaceGone(n)
      PROVE  TxInv' /\ UNCHANGED storeVars
  <2>1. UNCHANGED storeVars /\ UNCHANGED mem  BY <1>2 DEF NamespaceGone, storeVars
  <2>2. tx' = [p \in Proc |-> IF tx[p].fd = n THEN [tx[p] EXCEPT !.fd = Limbo] ELSE tx[p]]
    BY <1>2 DEF NamespaceGone
  <2>3. ASSUME NEW p \in Proc PROVE tx'[p] \in Tx /\ Sound(tx'[p], mem'[p])
    <3> DEFINE r == tx[p]
               t == [r EXCEPT !.fd = Limbo]
    <3>1. r \in Tx /\ Sound(r, mem[p])  BY Here
    <3>2. tx'[p] = IF r.fd = n THEN t ELSE r  BY <2>2
    <3>3. /\ t \in Tx /\ t.pc = r.pc /\ t.undo = r.undo /\ t.caller = r.caller
          /\ t.fd = Limbo /\ Same(r, t)
      BY <3>1 DEF Tx, Same
    <3> HIDE DEF t
    <3>4. Sound(t, mem[p])
      BY <3>1, <3>3
      DEF Sound, Registered, Armed, Recovering, Creating, Holding, Deleting, Same
    <3>5. QED  BY <2>1, <3>1, <3>2, <3>3, <3>4
  <2>4. tx' \in [Proc -> Tx]  BY <2>2, <2>3
  <2>5. QED  BY <2>1, <2>3, <2>4 DEF TxInv, RollbackFollows
<1>3. CASE UNCHANGED <<storeVars, tx>>
  BY <1>3 DEF CInv, TxInv, RollbackFollows, storeVars
<1>4. ASSUME NEW n \in NetNS, NamespaceMade(n) PROVE UNCHANGED <<storeVars, tx>>
  BY <1>4 DEF NamespaceMade
<1>5. ASSUME NEW h \in Name, Drift(h) \/ AdminAdds(h) \/ AdminDeletes(h) \/ HostRenamed(h)
      PROVE  UNCHANGED <<storeVars, tx>>
  BY <1>5 DEF Drift, AdminAdds, AdminDeletes, HostRenamed
<1>6. ASSUME NEW n \in NetNS, NEW i \in Iface, ForeignInterface(n, i)
      PROVE  UNCHANGED <<storeVars, tx>>
  BY <1>6 DEF ForeignInterface
<1>7. QED  BY <1>1, <1>2, <1>3, <1>4, <1>5, <1>6 DEF Environment

LEMMA CopyStep ==
  ASSUME IInv, CopyNeedsLock, [StoreNext]_storeVars
  PROVE  CopyNeedsLock'
<1>1. CASE UNCHANGED storeVars  BY <1>1 DEF storeVars, CopyNeedsLock
<1>2. CASE LoseState \/ DamageState
  BY <1>2 DEF LoseState, DamageState, CopyNeedsLock
<1>3. ASSUME NEW p \in Proc, flockExclusive(p) PROVE CopyNeedsLock'
  <2>1. lock = NoProc /\ UNCHANGED <<active, mem, dirty>>
    BY <1>3 DEF flockExclusive, LockFree
  <2>2. QED  BY <2>1, StoreAssumption DEF CopyNeedsLock
<1>4. ASSUME NEW p \in Proc, ProcNext(p), lock = p, lock' = p PROVE CopyNeedsLock'
  <2>1. ASSUME NEW q \in Proc, q # p
        PROVE  mem'[q] = mem[q] /\ active'[q] = active[q] /\ dirty'[q] = dirty[q]
    BY <1>4, <2>1 DEF ProcNext, flockExclusive, loadState, Unlock, unlock, Allocate,
         MarkPhase, Release, Update, CommitRenamed, CommitWritten, IInv, StoreTypeOK
  <2>2. QED  BY <1>4, <2>1 DEF CopyNeedsLock
<1>5. ASSUME NEW p \in Proc, Unlock(p) PROVE CopyNeedsLock'
  <2>1. /\ lock = p /\ lock' = NoProc
        /\ active' = [active EXCEPT ![p] = FALSE]
        /\ mem' = [mem EXCEPT ![p] = newPersistedState]
        /\ dirty' = [dirty EXCEPT ![p] = FALSE]
    BY <1>5 DEF Unlock, unlock
  <2>2. ASSUME NEW q \in Proc
        PROVE  ~active'[q] /\ ~dirty'[q] /\ mem'[q] = newPersistedState
    <3>1. CASE q = p  BY <2>1, <3>1 DEF IInv, StoreTypeOK
    <3>2. CASE q # p  BY <2>1, <3>2 DEF IInv, StoreTypeOK, CopyNeedsLock
    <3>3. QED  BY <3>1, <3>2
  <2>3. QED  BY <2>2 DEF CopyNeedsLock
<1>6. ASSUME NEW p \in Proc, ProcNext(p), ~flockExclusive(p), ~Unlock(p)
      PROVE  lock = p /\ lock' = p
  BY <1>6 DEF ProcNext, loadState, Allocate, MarkPhase, Release, Update,
              CommitRenamed, CommitWritten, IInv, CallbackHoldsLock
<1>7. QED  BY <1>1, <1>2, <1>3, <1>4, <1>5, <1>6 DEF StoreNext

(* The invariant of the plugin, and its steps as steps of the store. *)
LEMMA PluginInit == Init => CInv /\ StoreInit
<1> SUFFICES ASSUME Init PROVE CInv /\ StoreInit  OBVIOUS
<1>1. StoreInit  BY DEF Init
<1>2. IInv  BY <1>1, StoreInitInv
<1>3. CopyNeedsLock  BY <1>1 DEF StoreInit, CopyNeedsLock
<1>4. TxInv  BY IdleSound DEF Init, TxInv, RollbackFollows
<1>5. QED  BY <1>1, <1>2, <1>3, <1>4 DEF CInv

LEMMA PluginStep == CInv /\ [Next]_vars => CInv' /\ [StoreNext]_storeVars
<1> SUFFICES ASSUME CInv, [Next]_vars PROVE CInv' /\ [StoreNext]_storeVars  OBVIOUS
<1>1. TxInv' /\ [StoreNext]_storeVars
  <2>1. CASE UNCHANGED vars
    BY <2>1 DEF vars, storeVars, CInv, TxInv, RollbackFollows
  <2>2. ASSUME NEW p \in Proc, Invoke(p) \/ Lock(p) \/ Run(p) \/ Crash(p)
        PROVE  TxInv' /\ [StoreNext]_storeVars
    BY <2>2, InvocationStep DEF ProcStep, StoreNext
  <2>3. CASE Environment  BY <2>3, EnvironmentStep DEF StoreNext
  <2>4. QED  BY <2>1, <2>2, <2>3 DEF Next
<1>2. IInv /\ CopyNeedsLock  BY DEF CInv
<1>3. IInv' /\ CopyNeedsLock'  BY <1>1, <1>2, StoreStep, CopyStep
<1>4. QED  BY <1>1, <1>3 DEF CInv

LEMMA PluginInvariant == Spec => []CInv
<1>1. Init => CInv  BY PluginInit
<1>2. CInv /\ [Next]_vars => CInv'  BY PluginStep
<1>3. QED  BY <1>1, <1>2, PTL DEF Spec

(* Every step of ADD, CHECK, DEL, of a crash and of the surroundings is a  *)
(* step of the state store or leaves it alone: the callbacks of WithLock   *)
(* use the store only through its operations, and a process that dies      *)
(* gives back the lock it holds and nothing else (service.go, store.go).   *)
THEOREM PluginUsesStore == Spec => ImplementsStore
<1>1. Init => StoreInit  BY PluginInit
<1>2. CInv /\ [Next]_vars => [StoreNext]_storeVars  BY PluginStep
<1>3. QED  BY <1>1, <1>2, PluginInvariant, PTL DEF Spec, ImplementsStore, StoreSpec

(* The rollback stack of every transaction is the one that belongs to the  *)
(* step it has reached (service.go:164-260).                               *)
THEOREM RollbackStackFollows == Spec => []RollbackFollows
<1>1. CInv => RollbackFollows  BY DEF CInv, TxInv
<1>2. QED  BY <1>1, PluginInvariant, PTL

(* No two endpoints hold the same address, whatever ADDs and DELs run,     *)
(* fail and die (store.go:192-249, 382-402).                               *)
THEOREM PluginAddressesUnique == Spec => []NoDuplicateAddress
  BY PluginUsesStore, AddressesAreUnique, PTL DEF ImplementsStore
-----------------------------------------------------------------------------
(* The types of the kernel's links. *)
LEMMA PairChanges ==
  ASSUME NEW q \in Pair
  PROVE  /\ \A k \in Key : [q EXCEPT !.alias = k] \in Pair
         /\ \A k \in Key : [q EXCEPT !.peerAlias = k] \in Pair
         /\ \A n \in NetNS \cup {Limbo} : [q EXCEPT !.at = n] \in Pair
         /\ \A a \in Addr : [q EXCEPT !.addr = a] \in Pair
         /\ \A b \in BOOLEAN : [q EXCEPT !.routed = b] \in Pair
  BY DEF Pair, PairAt

LEMMA NewPair ==
  ASSUME NEW k \in Key \cup {Admin}
  PROVE  [by |-> k, alias |-> NoKey, peerAlias |-> NoKey, at |-> HostNS, addr |-> NoAddr,
          routed |-> FALSE] \in Pair
  BY DEF Pair, PairAt

LEMMA AfterCloseType ==
  ASSUME NEW pairs \in [Name -> Pair \cup {NoPair}]
  PROVE  AfterClose(pairs) \in [Name -> Pair \cup {NoPair}]
  BY DEF AfterClose

(* The steps that make, change or delete a link on behalf of an invocation. *)
LEMMA LinkSteps ==
  ASSUME CInv, KernelTypeOK, NEW p \in Proc,
         \/ LinkAdd(p) \/ AliasHost(p) \/ AliasPeer(p) \/ MovePeer(p)
         \/ ConfigureAddress(p) \/ AddRoute(p) \/ VerifyHost(p) \/ UndoCreate(p)
         \/ LinkDel(p) \/ FindPeer(p)
  PROVE  /\ pair' \in [Name -> Pair \cup {NoPair}] /\ stray' \subseteq Pair
         /\ UNCHANGED <<nsUp, foreign>>
<1> DEFINE r == tx[p]
           h == Host(p)
           Pairing == [Name -> Pair \cup {NoPair}]
<1>1. r \in Tx /\ Sound(r, mem[p]) /\ pair \in Pairing /\ stray \subseteq Pair
  BY Here DEF KernelTypeOK
<1>2. UNCHANGED <<nsUp, foreign>>
  BY DEF LinkAdd, AliasHost, AliasPeer, MovePeer, ConfigureAddress, AddRoute,
         VerifyHost, UndoCreate, CreateStep, CreateFails, LinkDel, FindPeer, kernelVars
<1>3. r.key \in Key /\ h \in Name
  <2>1. r.pc # "idle"
    BY DEF LinkAdd, AliasHost, AliasPeer, MovePeer, ConfigureAddress, AddRoute,
           VerifyHost, UndoCreate, CreateStep, LinkDel, FindPeer, At
  <2>2. QED  BY <1>1, <2>1, CloudnetAssumption DEF Sound, Host, Key_
<1>4. \A q \in Pair \cup {NoPair} : [pair EXCEPT ![h] = q] \in Pairing
  BY <1>1
<1>5. AfterClose(pair) \in Pairing /\ AfterClose([pair EXCEPT ![h] = NoPair]) \in Pairing
  BY <1>1, <1>4, AfterCloseType
<1>6. pair[h] # NoPair => pair[h] \in Pair  BY <1>1, <1>3
<1>7. r.pc \in Creating => r.fd \in NetNS \cup {Limbo} /\ RecordOf(p).ip \in Addr
  BY <1>1 DEF Sound, Holding, RecordOf, Key_, Record
<1>8. ASSUME NEW from, NEW to, NEW can, NEW q, CreateStep(p, from, to, can, q),
             can => q \in Pair
      PROVE  pair' \in Pairing /\ stray' = stray
  <2>1. CASE can /\ pair' = [pair EXCEPT ![h] = q] /\ UNCHANGED <<stray, nsUp, foreign>>
    BY <1>4, <1>8, <2>1
  <2>2. CASE CreateFails(p, can)  BY <1>1, <2>2 DEF CreateFails, kernelVars
  <2>3. QED  BY <1>8, <2>1, <2>2 DEF CreateStep
<1>9. CASE LinkAdd(p)
  <2>1. stray' = stray  BY <1>9 DEF LinkAdd
  <2>2. \/ pair' = [pair EXCEPT ![h] =
                     [by |-> r.key, alias |-> NoKey, peerAlias |-> NoKey,
                      at |-> HostNS, addr |-> NoAddr, routed |-> FALSE]]
        \/ pair' = AfterClose(pair)
    BY <1>9 DEF LinkAdd, Key_
  <2>3. QED  BY <1>1, <1>3, <1>4, <1>5, <2>1, <2>2, NewPair, <1>2
<1>10. CASE AliasHost(p)
  <2>1. stray' = stray  BY <1>10 DEF AliasHost
  <2>2. \/ pair' = pair
        \/ pair[h] # NoPair /\ pair' = [pair EXCEPT ![h] = [pair[h] EXCEPT !.alias = r.key]]
    BY <1>10 DEF AliasHost, Made, Key_
  <2>3. QED  BY <1>1, <1>2, <1>3, <1>4, <1>6, <2>1, <2>2, PairChanges
<1>11. CASE AliasPeer(p)
  <2>1. Made(p) => [pair[h] EXCEPT !.peerAlias = r.key] \in Pair
    BY <1>3, <1>6, PairChanges DEF Made
  <2>2. pair' \in Pairing /\ stray' = stray  BY <1>8, <1>11, <2>1 DEF AliasPeer, Key_
  <2>3. QED  BY <1>1, <1>2, <2>2
<1>12. CASE MovePeer(p)
  <2>1. r.pc \in Creating  BY <1>12 DEF MovePeer, CreateStep, At, Creating
  <2>2. Made(p) => [pair[h] EXCEPT !.at = r.fd] \in Pair
    BY <1>6, <1>7, <2>1, PairChanges DEF Made
  <2>3. pair' \in Pairing /\ stray' = stray  BY <1>8, <1>12, <2>2 DEF MovePeer
  <2>4. QED  BY <1>1, <1>2, <2>3
<1>13. CASE ConfigureAddress(p)
  <2>1. r.pc \in Creating  BY <1>13 DEF ConfigureAddress, CreateStep, At, Creating
  <2>2. Made(p) => [pair[h] EXCEPT !.addr = RecordOf(p).ip] \in Pair
    BY <1>6, <1>7, <2>1, PairChanges DEF Made
  <2>3. pair' \in Pairing /\ stray' = stray
    BY <1>8, <1>13, <2>2 DEF ConfigureAddress
  <2>4. QED  BY <1>1, <1>2, <2>3
<1>14. CASE AddRoute(p)
  <2>1. Made(p) => [pair[h] EXCEPT !.routed = TRUE] \in Pair
    BY <1>6, PairChanges DEF Made
  <2>2. pair' \in Pairing /\ stray' = stray  BY <1>8, <1>14, <2>1 DEF AddRoute
  <2>3. QED  BY <1>1, <1>2, <2>2
<1>15. CASE VerifyHost(p)
  BY <1>1, <1>2, <1>5, <1>15 DEF VerifyHost, CreateFails, kernelVars
<1>16. CASE UndoCreate(p)
  <2>1. /\ stray' = stray
        /\ pair' \in {AfterClose(pair), AfterClose([pair EXCEPT ![h] = NoPair])}
    BY <1>16 DEF UndoCreate
  <2>2. QED  BY <1>1, <1>2, <1>5, <2>1
<1>17. CASE LinkDel(p)
  BY <1>1, <1>2, <1>4, <1>17 DEF LinkDel
<1>18. CASE FindPeer(p)
  BY <1>1, <1>2, <1>18 DEF FindPeer
<1>19. QED
  BY <1>9, <1>10, <1>11, <1>12, <1>13, <1>14, <1>15, <1>16, <1>17, <1>18

(* Every other step of an invocation leaves the kernel alone, but for a     *)
(* crash, which closes the namespace it held.                               *)
LEMMA InvocationLinks ==
  ASSUME CInv, KernelTypeOK, NEW p \in Proc, Invoke(p) \/ Lock(p) \/ Run(p) \/ Crash(p)
  PROVE  /\ pair' \in [Name -> Pair \cup {NoPair}] /\ stray' \subseteq Pair
         /\ UNCHANGED <<nsUp, foreign>>
<1> DEFINE Goal == /\ pair' \in [Name -> Pair \cup {NoPair}] /\ stray' \subseteq Pair
                   /\ UNCHANGED <<nsUp, foreign>>
<1>1. UNCHANGED kernelVars => Goal  BY DEF kernelVars, KernelTypeOK
<1>2. CASE Invoke(p) \/ Lock(p) \/ Load(p) \/ LoadFails(p) \/ Check(p) \/ Finish(p)
             \/ Return(p) \/ FindHost(p) \/ StatPeer(p) \/ DelRelease(p)
  BY <1>1, <1>2 DEF Invoke, InvokeAs, Lock, Load, LoadFails, Check, Finish, Return,
                    FindHost, StatPeer, DelRelease
<1>3. CASE \/ AddAllocate(p) \/ AddAllocateFails(p) \/ PersistPending(p)
           \/ AddEnsureBridge(p) \/ IdempotencyCheck(p) \/ ReconcilePending(p)
           \/ PersistReconcile(p) \/ Preflight(p) \/ AddMarkReady(p) \/ PersistReady(p)
           \/ RollbackDelete(p) \/ RollbackRelease(p) \/ PersistRelease(p)
           \/ RollbackEnds(p)
  BY <1>1, <1>3 DEF AddAllocate, AddAllocateFails, PersistPending, AddEnsureBridge,
       IdempotencyCheck, ReconcilePending, PersistReconcile, Preflight, AddMarkReady,
       PersistReady, RollbackDelete, RollbackRelease, PersistRelease, RollbackEnds
<1>4. CASE Crash(p)
  BY <1>4, AfterCloseType DEF Crash, KernelTypeOK
<1>5. CASE \/ LinkAdd(p) \/ AliasHost(p) \/ AliasPeer(p) \/ MovePeer(p)
           \/ ConfigureAddress(p) \/ AddRoute(p) \/ VerifyHost(p) \/ UndoCreate(p)
           \/ LinkDel(p) \/ FindPeer(p)
  BY <1>5, LinkSteps
<1>6. QED  BY <1>2, <1>3, <1>4, <1>5 DEF Run, AddNext, DeleteNext

LEMMA EnvironmentLinks ==
  ASSUME KernelTypeOK, CInv, Environment
  PROVE  /\ pair' \in [Name -> Pair \cup {NoPair}] /\ stray' \subseteq Pair
         /\ nsUp' \in [NetNS -> BOOLEAN] /\ foreign' \subseteq NetNS \X Iface
<1> USE DEF KernelTypeOK
<1>1. ASSUME NEW n \in NetNS, NamespaceGone(n)
      PROVE  /\ pair' \in [Name -> Pair \cup {NoPair}] /\ stray' \subseteq Pair
             /\ nsUp' \in [NetNS -> BOOLEAN] /\ foreign' \subseteq NetNS \X Iface
  <2>1. pair' = [h \in Name |->
          IF pair[h] = NoPair \/ pair[h].at # n THEN pair[h]
          ELSE IF HeldOpen(n) THEN [pair[h] EXCEPT !.at = Limbo] ELSE NoPair]
    BY <1>1 DEF NamespaceGone
  <2>2. \A h \in Name : pair[h] # NoPair => [pair[h] EXCEPT !.at = Limbo] \in Pair
    BY PairChanges
  <2>3. pair' \in [Name -> Pair \cup {NoPair}]  BY <2>1, <2>2
  <2>4. QED  BY <1>1, <2>3 DEF NamespaceGone
<1>2. ASSUME NEW n \in NetNS, NamespaceMade(n)
      PROVE  nsUp' \in [NetNS -> BOOLEAN] /\ UNCHANGED <<pair, stray, foreign>>
  BY <1>2 DEF NamespaceMade
<1>3. ASSUME NEW h \in Name, Drift(h) \/ AdminAdds(h) \/ AdminDeletes(h) \/ HostRenamed(h)
      PROVE  /\ pair' \in [Name -> Pair \cup {NoPair}] /\ stray' \subseteq Pair
             /\ UNCHANGED <<nsUp, foreign>>
  <2>1. CASE Drift(h)
    <3>1. [pair[h] EXCEPT !.routed = FALSE] \in Pair
      BY <2>1, PairChanges DEF Drift
    <3>2. pair' = [pair EXCEPT ![h] = [pair[h] EXCEPT !.routed = FALSE]]
      BY <2>1 DEF Drift
    <3>3. QED  BY <2>1, <3>1, <3>2 DEF Drift
  <2>2. CASE AdminAdds(h)  BY <2>2, NewPair DEF AdminAdds
  <2>3. CASE AdminDeletes(h)  BY <2>3 DEF AdminDeletes
  <2>4. CASE HostRenamed(h)  BY <2>4 DEF HostRenamed
  <2>5. QED  BY <1>3, <2>1, <2>2, <2>3, <2>4
<1>4. ASSUME NEW n \in NetNS, NEW i \in Iface, ForeignInterface(n, i)
      PROVE  foreign' \subseteq NetNS \X Iface /\ UNCHANGED <<pair, stray, nsUp>>
  BY <1>4 DEF ForeignInterface
<1>5. CASE StateLost \/ StateDamaged
  BY <1>5 DEF StateLost, StateDamaged, kernelVars
<1>6. QED  BY <1>1, <1>2, <1>3, <1>4, <1>5 DEF Environment

(* Every step goes without a fault or takes one from the budget. *)
LEMMA BudgetStep ==
  ASSUME KernelTypeOK, [Next]_vars
  PROVE  budget' \in 0..MaxFaults
<1> DEFINE Kept == NoFault \/ (budget > 0 /\ budget' = budget - 1)
<1>1. \A f : Fault(f) => Kept  BY DEF Fault
<1> HIDE DEF Kept
<1> USE DEF NoFault
<1>2. NoFault => Kept  BY DEF Kept
<1>3. ASSUME NEW p \in Proc, Invoke(p) \/ Lock(p) \/ Crash(p) PROVE Kept
  BY <1>1, <1>2, <1>3 DEF Invoke, InvokeAs, Lock, Crash
<1>4. ASSUME NEW p \in Proc, Run(p) PROVE Kept
  <2>1. CASE AddNext(p)
    BY <1>1, <1>2, <2>1 DEF AddNext, AddAllocate, AddAllocateFails, PersistPending,
      AddEnsureBridge, IdempotencyCheck, ReconcilePending, PersistReconcile, Preflight,
      LinkAdd, AliasHost, AliasPeer, MovePeer, ConfigureAddress, AddRoute, VerifyHost,
      UndoCreate, AddMarkReady, PersistReady, RollbackDelete, RollbackRelease,
      PersistRelease, RollbackEnds, CommitThen, CreateStep, CreateFails
  <2>2. CASE DeleteNext(p)
    BY <1>1, <1>2, <2>2 DEF DeleteNext, FindHost, LinkDel, StatPeer, FindPeer,
                                DelRelease
  <2>3. CASE Load(p) \/ LoadFails(p) \/ Check(p) \/ Finish(p) \/ Return(p)
    BY <1>1, <1>2, <2>3 DEF Load, LoadFails, Check, Finish, Return, CommitThen
  <2>4. QED  BY <1>4, <2>1, <2>2, <2>3 DEF Run
<1>5. ASSUME Environment PROVE Kept
  BY <1>1, <1>2, <1>5 DEF Environment, NamespaceGone, NamespaceMade, Drift, AdminAdds,
    AdminDeletes, HostRenamed, ForeignInterface, StateLost, StateDamaged
<1>6. ASSUME UNCHANGED vars PROVE Kept  BY <1>2, <1>6 DEF vars
<1>7. Kept  BY <1>3, <1>4, <1>5, <1>6 DEF Next
<1>8. QED  BY <1>7, CloudnetAssumption DEF Kept, KernelTypeOK

LEMMA KernelStep == CInv /\ KernelTypeOK /\ [Next]_vars => KernelTypeOK'
<1> SUFFICES ASSUME CInv, KernelTypeOK, [Next]_vars PROVE KernelTypeOK'  OBVIOUS
<1>1. budget' \in 0..MaxFaults  BY BudgetStep
<1>2. ASSUME NEW p \in Proc, Invoke(p) \/ Lock(p) \/ Run(p) \/ Crash(p)
      PROVE  KernelTypeOK'
  BY <1>1, <1>2, InvocationLinks DEF KernelTypeOK
<1>3. CASE Environment  BY <1>1, <1>3, EnvironmentLinks DEF KernelTypeOK
<1>4. CASE UNCHANGED vars  BY <1>4 DEF vars, KernelTypeOK
<1>5. QED  BY <1>2, <1>3, <1>4 DEF Next

(* Every variable of plugin, store and kernel keeps its type: the record of *)
(* an endpoint is in the copy whenever a step reads it, and a namespace is  *)
(* open whenever a step of CreateEndpoint uses it.                          *)
THEOREM PluginTypeCorrect == Spec => []CloudnetTypeOK
<1>1. Init => KernelTypeOK  BY CloudnetAssumption DEF Init, KernelTypeOK
<1>2. CInv /\ KernelTypeOK /\ [Next]_vars => KernelTypeOK'  BY KernelStep
<1>3. CInv /\ KernelTypeOK => CloudnetTypeOK
  BY DEF CInv, IInv, TxInv, CloudnetTypeOK
<1>4. QED  BY <1>1, <1>2, <1>3, PluginInvariant, PTL DEF Spec
=============================================================================
