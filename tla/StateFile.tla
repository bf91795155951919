----------------------------- MODULE StateFile -----------------------------
(***************************************************************************)
(* How the state file is reached, locked and written: openNetworkStateDir  *)
(* (internal/ipam/securefs.go), WithLock and Commit (store.go) and         *)
(* writeStateAtomic (state.go), one system call per step, on a file system *)
(* that forgets in a power loss what was not synced.                       *)
(*                                                                         *)
(* A state is the number of changes that led to it. inv[p] is where the    *)
(* invocation p stands:                                                    *)
(*   pc       the system call it makes next, or "callback"                 *)
(*   fd       the directory it has open                                    *)
(*   mem, dirty   its LockedStore                                          *)
(*   failed   a Commit has returned an error, so the invocation will too   *)
(*   tmp      its temporary file: "none", "new", "written", "synced"       *)
(* The lock file is opened relative to its directory and never removed, so *)
(* it is identified with the directory.                                    *)
(***************************************************************************)
EXTENDS Integers

CONSTANTS
  Proc, NoProc,
  Dir, NoDir,         \* directory inodes
  Level, Depth,       \* Level[d]: how many components lead to d; 0 is the root
  Root,
  Torn,               \* a file whose data did not all reach the disk
  MaxVersion,         \* bound on the number of changes
  Faults, MaxFaults   \* what may go wrong, and how often altogether

NetDir == {d \in Dir : Level[d] = Depth}

ASSUME StateFileAssumption ==
  /\ NoProc \notin Proc /\ NoDir \notin Dir /\ Torn \notin Nat
  /\ Depth \in Nat \ {0} /\ Level \in [Dir -> 0..Depth]
  /\ Root \in Dir /\ \A d \in Dir : Level[d] = 0 <=> d = Root
  /\ MaxVersion \in Nat /\ MaxFaults \in Nat

VARIABLES
  child,      \* child[d]: the next directory of the path in d, or NoDir
  settled,    \* settled[d]: that entry would survive a power loss
  holder,     \* holder[d]: who has the flock of the network directory d
  cur,        \* cur[d]: the state.json a reader finds; 0 is no file
  after,      \* after[d]: what a power loss may leave of it
  acked,      \* acked[d]: the last state a Commit reported as written
  promised,   \* promised[d]: the last state an invocation returned success on
  temps,      \* temps[d]: how many .state.json.tmp-* files d has
  peak,       \* peak[d]: the most it has had since its last sync
  inv,
  budget,     \* faults left
  toll        \* history: how many deaths there were, and faults that no clean-up follows

dirVars == <<child, settled>>
fileVars == <<cur, after, acked, promised>>
tempVars == <<temps, peak>>
faultVars == <<budget, toll>>
vars == <<child, settled, holder, cur, after, acked, promised, temps, peak, inv, budget, toll>>

Idle == [pc |-> "idle", fd |-> Root, mem |-> 0, dirty |-> FALSE, failed |-> FALSE,
         tmp |-> "none"]

Init ==
  /\ child = [d \in Dir |-> NoDir] /\ settled = [d \in Dir |-> FALSE]
  /\ holder = [d \in NetDir |-> NoProc]
  /\ cur = [d \in NetDir |-> 0] /\ after = [d \in NetDir |-> {0}]
  /\ acked = [d \in NetDir |-> 0] /\ promised = [d \in NetDir |-> 0]
  /\ temps = [d \in NetDir |-> 0] /\ peak = [d \in NetDir |-> 0]
  /\ inv = [p \in Proc |-> Idle]
  /\ budget = MaxFaults /\ toll = [deaths |-> 0, botched |-> 0]
-----------------------------------------------------------------------------
(* What the clean-up cannot follow: deaths, and a temporary file that      *)
(* cannot be inspected or removed.                                         *)
Tolled(fs) ==
  [toll EXCEPT !.deaths = IF fs \cap {"crash", "power"} = {} THEN @ ELSE @ + 1,
               !.botched = IF fs \cap {"inspect", "unlink"} = {} THEN @ ELSE @ + 1]

Fault(f) == f \in Faults /\ budget > 0 /\ budget' = budget - 1 /\ toll' = Tolled({f})

At(p, pc) == inv[p].pc = pc
Fd(p) == inv[p].fd
Become(p, i) == inv' = [inv EXCEPT ![p] = i]
Goto(p, pc) == Become(p, [inv[p] EXCEPT !.pc = pc])

Freed(p) == [d \in NetDir |-> IF holder[d] = p THEN NoProc ELSE holder[d]]
-----------------------------------------------------------------------------
(* WithLock up to the callback.                                            *)

Invoke(p) ==
  /\ At(p, "idle")
  /\ Goto(p, "open")
  /\ UNCHANGED <<dirVars, holder, fileVars, tempVars, faultVars>>

(* A mistake: a component that is missing is taken as it is. *)
OpenMissing(p) ==
  /\ At(p, "open")
  /\ Become(p, [inv[p] EXCEPT !.fd = child[Fd(p)], !.pc = "lock"])
  /\ UNCHANGED <<dirVars, holder, fileVars, tempVars, faultVars>>

(* openOrCreateDirectoryAt: openat, then, if there is nothing, mkdirat and *)
(* openat again.                                                           *)
Open(p) ==
  LET next == child[Fd(p)]
  IN  /\ At(p, "open")
      /\ IF next = NoDir THEN Goto(p, "mkdir")
         ELSE Become(p, [inv[p] EXCEPT !.fd = next,
                                       !.pc = IF Level[next] = Depth THEN "lock" ELSE "open"])
      /\ UNCHANGED <<dirVars, holder, fileVars, tempVars, faultVars>>

Fresh(d) == \A e \in Dir : child[e] # d

(* A mistake: a directory made meanwhile is replaced. *)
MkDirReplaces(p) ==
  /\ At(p, "mkdir")
  /\ \E d \in {e \in Dir : Level[e] = Level[Fd(p)] + 1 /\ Fresh(e)} :
       child' = [child EXCEPT ![Fd(p)] = d]
  /\ Goto(p, "open")
  /\ UNCHANGED <<settled, holder, fileVars, tempVars, faultVars>>

(* mkdirat; a directory that somebody has made meanwhile is as good.       *)
MkDir(p) ==
  /\ At(p, "mkdir")
  /\ IF child[Fd(p)] # NoDir THEN UNCHANGED dirVars
     ELSE \E d \in {e \in Dir : Level[e] = Level[Fd(p)] + 1 /\ Fresh(e)} :
            /\ child' = [child EXCEPT ![Fd(p)] = d]
            /\ settled' = [settled EXCEPT ![Fd(p)] = FALSE]
  /\ Goto(p, "open")
  /\ UNCHANGED <<holder, fileVars, tempVars, faultVars>>

(* A mistake: a lock that several may hold. *)
LockShared(p) ==
  /\ At(p, "lock")
  /\ holder' = [holder EXCEPT ![Fd(p)] = p]
  /\ Goto(p, "load")
  /\ UNCHANGED <<dirVars, fileVars, tempVars, faultVars>>

(* The permanent .lock, which openat creates if need be, and its flock.    *)
Lock(p) ==
  /\ At(p, "lock") /\ holder[Fd(p)] = NoProc
  /\ holder' = [holder EXCEPT ![Fd(p)] = p]
  /\ Goto(p, "load")
  /\ UNCHANGED <<dirVars, fileVars, tempVars, faultVars>>

Load(p) ==
  /\ At(p, "load") /\ cur[Fd(p)] # Torn
  /\ Become(p, [inv[p] EXCEPT !.pc = "callback", !.mem = cur[Fd(p)]])
  /\ UNCHANGED <<dirVars, holder, fileVars, tempVars, faultVars>>

(* Any of these calls may fail; the directory and the lock are closed.     *)
EarlyReturn(p) ==
  /\ inv[p].pc \in {"open", "mkdir", "lock", "load"} /\ Fault("open")
  /\ holder' = Freed(p)
  /\ Become(p, Idle)
  /\ UNCHANGED <<dirVars, fileVars, tempVars>>
-----------------------------------------------------------------------------
(* The callback, which may change its copy and commit it again and again,  *)
(* also after a Commit that failed (the rollback of ADD does).             *)

Modify(p) ==
  /\ At(p, "callback") /\ inv[p].mem < MaxVersion
  /\ Become(p, [inv[p] EXCEPT !.mem = @ + 1, !.dirty = TRUE])
  /\ UNCHANGED <<dirVars, holder, fileVars, tempVars, faultVars>>

Commit(p) ==
  /\ At(p, "callback") /\ inv[p].dirty
  /\ Goto(p, "create")
  /\ UNCHANGED <<dirVars, holder, fileVars, tempVars, faultVars>>

(* createStateTemporary: openat makes a file under a name of its own, then *)
(* fstat looks at it.                                                      *)
Create(p) ==
  LET d == Fd(p)
  IN  /\ At(p, "create")
      /\ temps' = [temps EXCEPT ![d] = @ + 1]
      /\ peak' = [peak EXCEPT ![d] = IF temps[d] < @ THEN @ ELSE temps[d] + 1]
      /\ Become(p, [inv[p] EXCEPT !.pc = "inspect", !.tmp = "new"])
      /\ UNCHANGED <<dirVars, holder, fileVars, faultVars>>

(* A call that changes nothing but the temporary file.                     *)
Prepare(p, from, to, tmp) ==
  /\ At(p, from)
  /\ Become(p, [inv[p] EXCEPT !.pc = to, !.tmp = tmp])
  /\ UNCHANGED <<dirVars, holder, fileVars, tempVars, faultVars>>

Inspect(p) == Prepare(p, "inspect", "write", "new")

(* The file cannot be inspected or has another name as well: an error, and *)
(* the deferred unlink is not registered yet.                              *)
InspectFails(p) ==
  /\ At(p, "inspect") /\ Fault("inspect")
  /\ Become(p, [inv[p] EXCEPT !.pc = "callback", !.failed = TRUE, !.tmp = "none"])
  /\ UNCHANGED <<dirVars, holder, fileVars, tempVars>>

Write(p) == Prepare(p, "write", "sync", "written")

(* A mistake: the data of the temporary file are not synced. *)
SyncSkipped(p) == Prepare(p, "sync", "rename", "written")
Sync(p) == Prepare(p, "sync", "rename", "synced")

(* renameat. Until the directory is synced, a power loss may undo it; data *)
(* that are not synced may be missing afterwards.                          *)
Rename(p) ==
  LET d == Fd(p)
      torn == IF inv[p].tmp = "synced" THEN {} ELSE {Torn}
  IN  /\ At(p, "rename")
      /\ cur' = [cur EXCEPT ![d] = inv[p].mem]
      /\ after' = [after EXCEPT ![d] = @ \cup {inv[p].mem} \cup torn]
      /\ temps' = [temps EXCEPT ![d] = @ - 1]
      /\ Become(p, [inv[p] EXCEPT !.pc = "dirsync", !.tmp = "none"])
      /\ UNCHANGED <<dirVars, holder, acked, promised, peak, faultVars>>

(* A mistake: the directory is not synced. *)
DirSyncSkipped(p) ==
  /\ At(p, "dirsync")
  /\ acked' = [acked EXCEPT ![Fd(p)] = inv[p].mem]
  /\ Become(p, [inv[p] EXCEPT !.pc = "callback", !.dirty = FALSE])
  /\ UNCHANGED <<dirVars, holder, cur, after, promised, tempVars, faultVars>>

(* fsync of the directory, and Commit returns.                             *)
DirSync(p) ==
  LET d == Fd(p)
  IN  /\ At(p, "dirsync")
      /\ after' = [after EXCEPT ![d] = {cur[d]} \cup (@ \cap {Torn})]
      /\ acked' = [acked EXCEPT ![d] = inv[p].mem]
      /\ peak' = [peak EXCEPT ![d] = temps[d]]
      /\ Become(p, [inv[p] EXCEPT !.pc = "callback", !.dirty = FALSE])
      /\ UNCHANGED <<dirVars, holder, cur, promised, temps, faultVars>>

(* A mistake: the temporary file of a Commit that failed stays. *)
CommitFailsLittering(p) ==
  /\ inv[p].pc \in {"create", "write", "sync", "rename"} /\ Fault("write")
  /\ Become(p, [inv[p] EXCEPT !.pc = "callback", !.failed = TRUE, !.tmp = "none"])
  /\ UNCHANGED <<dirVars, holder, fileVars, tempVars>>

(* The file cannot be made, or a later step up to the rename fails and the *)
(* deferred unlink removes it, unless that fails as well.                  *)
CommitFails(p) ==
  /\ inv[p].pc \in {"create", "write", "sync", "rename"}
  /\ \/ /\ Fault("write")
        /\ temps' = IF inv[p].tmp = "none" THEN temps ELSE [temps EXCEPT ![Fd(p)] = @ - 1]
     \/ /\ {"write", "unlink"} \subseteq Faults /\ budget > 1 /\ budget' = budget - 2
        /\ toll' = Tolled({"unlink"})
        /\ inv[p].tmp # "none" /\ UNCHANGED temps
  /\ Become(p, [inv[p] EXCEPT !.pc = "callback", !.failed = TRUE, !.tmp = "none"])
  /\ UNCHANGED <<dirVars, holder, fileVars, peak>>

(* Only the fsync of the directory fails: the new file is in place.        *)
DirSyncFails(p) ==
  /\ At(p, "dirsync") /\ Fault("fsync")
  /\ Become(p, [inv[p] EXCEPT !.pc = "callback", !.failed = TRUE])
  /\ UNCHANGED <<dirVars, holder, fileVars, tempVars>>

(* The invocation succeeds when its last Commit had nothing left to write, *)
(* or it fails and what is not committed is gone.                          *)
Succeed(p) ==
  /\ At(p, "callback") /\ ~inv[p].dirty /\ ~inv[p].failed
  /\ promised' = [promised EXCEPT ![Fd(p)] = inv[p].mem]
  /\ holder' = Freed(p)
  /\ Become(p, Idle)
  /\ UNCHANGED <<dirVars, cur, after, acked, tempVars, faultVars>>

Fail(p) ==
  /\ At(p, "callback")
  /\ holder' = Freed(p)
  /\ Become(p, Idle)
  /\ UNCHANGED <<dirVars, fileVars, tempVars, faultVars>>
-----------------------------------------------------------------------------
(* Deaths, power losses and what the kernel writes back by itself.         *)

Crash(p) ==
  /\ ~At(p, "idle") /\ Fault("crash")
  /\ holder' = Freed(p)
  /\ Become(p, Idle)
  /\ UNCHANGED <<dirVars, fileVars, tempVars>>

(* The path survives down to the level cut. The program never syncs the    *)
(* directories above the network directory, so an entry in one of them may *)
(* be lost, and the state file with it.                                    *)
Losable(cut) ==
  cut = Depth \/ \E d \in Dir : Level[d] = cut /\ child[d] # NoDir /\ ~settled[d]

(* Entries of one directory reach the disk in order, so of its temporary   *)
(* files as many are left as there were at some time since its last sync.  *)
PowerLoss ==
  /\ Fault("power")
  /\ \E cut \in 0..Depth : \E left \in [NetDir -> 0..MaxVersion \cup {Torn}] :
       /\ Losable(cut)
       /\ \A d \in NetDir : IF cut < Depth THEN left[d] = 0 ELSE left[d] \in after[d]
       /\ child' = [d \in Dir |-> IF Level[d] >= cut THEN NoDir ELSE child[d]]
       /\ settled' = [d \in Dir |-> Level[d] < cut]
       /\ cur' = left
       /\ after' = [d \in NetDir |-> {left[d]}]
       /\ IF cut < Depth
            THEN acked' = [d \in NetDir |-> 0] /\ promised' = [d \in NetDir |-> 0]
            ELSE UNCHANGED <<acked, promised>>
       /\ \E n \in [NetDir -> 0..MaxFaults + 1] :
            /\ \A d \in NetDir : n[d] <= IF cut < Depth THEN 0 ELSE peak[d]
            /\ temps' = n /\ peak' = n
  /\ holder' = [d \in NetDir |-> NoProc]
  /\ inv' = [p \in Proc |-> Idle]

WriteBackEntry(d) ==
  /\ child[d] # NoDir /\ ~settled[d]
  /\ settled' = [settled EXCEPT ![d] = TRUE]
  /\ UNCHANGED <<child, holder, fileVars, tempVars, inv, faultVars>>

WriteBackFile(d) ==
  /\ after[d] # {cur[d]}
  /\ after' = [after EXCEPT ![d] = {cur[d]}]
  /\ peak' = [peak EXCEPT ![d] = temps[d]]
  /\ UNCHANGED <<dirVars, holder, cur, acked, promised, temps, inv, faultVars>>

Opening(p) == Invoke(p) \/ Open(p) \/ MkDir(p) \/ Lock(p) \/ Load(p) \/ EarlyReturn(p)

Committing(p) ==
  \/ Commit(p) \/ Create(p) \/ Inspect(p) \/ Write(p) \/ Sync(p) \/ Rename(p) \/ DirSync(p)
  \/ InspectFails(p) \/ CommitFails(p) \/ DirSyncFails(p)

Next ==
  \/ \E p \in Proc : Opening(p) \/ Modify(p) \/ Committing(p) \/ Succeed(p) \/ Fail(p) \/ Crash(p)
  \/ PowerLoss
  \/ \E d \in Dir : WriteBackEntry(d)
  \/ \E d \in NetDir : WriteBackFile(d)

Spec == Init /\ [][Next]_vars
-----------------------------------------------------------------------------
Steps == {"idle", "open", "mkdir", "lock", "load", "callback", "create", "inspect",
          "write", "sync", "rename", "dirsync"}
Invocation == [pc : Steps, fd : Dir, mem : 0..MaxVersion, dirty : BOOLEAN,
               failed : BOOLEAN, tmp : {"none", "new", "written", "synced"}]

(* Every variable has its type; in particular what an invocation works on  *)
(* is a whole state (store.go:101-150).                                    *)
FileTypeOK ==
  /\ child \in [Dir -> Dir \cup {NoDir}] /\ settled \in [Dir -> BOOLEAN]
  /\ holder \in [NetDir -> Proc \cup {NoProc}]
  /\ cur \in [NetDir -> 0..MaxVersion \cup {Torn}]
  /\ after \in [NetDir -> SUBSET (0..MaxVersion \cup {Torn})]
  /\ acked \in [NetDir -> 0..MaxVersion] /\ promised \in [NetDir -> 0..MaxVersion]
  /\ temps \in [NetDir -> Nat] /\ peak \in [NetDir -> Nat]
  /\ budget \in 0..MaxFaults /\ toll \in [deaths : Nat, botched : Nat]
  /\ inv \in [Proc -> Invocation]

Inside(p) == inv[p].pc \notin {"idle", "open", "mkdir"}

(* However many first invocations create the path at once, and after every *)
(* power loss that took it away again, all that got through have the same  *)
(* network directory open and so the same lock (securefs.go:87-140,        *)
(* docs/design-v1.md:234).                                                 *)
FirstInvocationsMeet == \A p, q \in Proc : Inside(p) /\ Inside(q) => Fd(p) = Fd(q)

(* No reader ever finds half a state, whenever the power fails             *)
(* (state.go:308-309).                                                     *)
FileIsWhole == \A d \in NetDir : cur[d] # Torn

(* A state that Commit reported as written is never taken back, neither by *)
(* a later Commit that fails nor by a power loss, unless the directory     *)
(* itself is lost (state.go:344-351).                                      *)
AcknowledgedStays == \A d \in NetDir : cur[d] # Torn => cur[d] >= acked[d]

(* The temporary files of d that a running Commit still knows of.          *)
InUse(d) == IF \E p \in Proc : Fd(p) = d /\ inv[p].tmp # "none" THEN 1 ELSE 0

(* However often invocations fail, are killed or lose the power, the       *)
(* directory never has more temporary files than the one in use and one    *)
(* for each death, each failed inspection and each failed removal; and the *)
(* one in use is there until it is renamed (state.go:324-330, 344-347).    *)
TempsAccounted ==
  \A d \in NetDir :
    InUse(d) <= temps[d] /\ temps[d] <= InUse(d) + toll.deaths + toll.botched

(* The steps implement a file that is replaced as a whole by the holder of *)
(* its lock.                                                               *)
File(d) == INSTANCE AtomicFile WITH holder <- holder[d], value <- cur[d], safe <- after[d]

FileInit == \A d \in NetDir : File(d)!FileInit
FileStep(d) == File(d)!FileNext \/ UNCHANGED <<holder[d], cur[d], after[d]>>

ImplementsAtomicFile == FileInit /\ [][\A d \in NetDir : FileStep(d)]_vars
-----------------------------------------------------------------------------
(* state.go:309: the fsync of the directory makes sure that the entry      *)
(* survives a restart. So what an invocation has returned success on does. *)
SuccessSurvives == \A d \in NetDir : cur[d] # Torn => cur[d] >= promised[d]
=============================================================================
