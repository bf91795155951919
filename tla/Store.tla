------------------------------- MODULE Store -------------------------------
(***************************************************************************)
(* The state store of one network and the processes that use it: WithLock, *)
(* the operations of a LockedStore, Commit, crashes.                       *)
(*                                                                         *)
(* A process is one CNI invocation. It takes the flock, loads the file     *)
(* into its own copy, works on the copy, commits it as often as it likes   *)
(* and unlocks. What the callback of WithLock does is left open here: any  *)
(* operation in any order, and an end at any point. Cloudnet.tla has the   *)
(* callbacks of ADD, CHECK and DEL.                                        *)
(***************************************************************************)
EXTENDS StoreState

CONSTANTS
  Proc, NoProc,
  Absent,       \* there is no state.json
  Corrupt       \* a state.json that does not decode or validate

ASSUME StoreAssumption == NoProc \notin Proc /\ {Absent, Corrupt} \cap State = {}
                          /\ Absent # Corrupt

VARIABLES
  lock,         \* the process that holds the flock, or NoProc
  disk,         \* state.json
  active,       \* active[p]: p has loaded the state and its callback runs
  mem,          \* mem[p]: LockedStore.state of p
  dirty         \* dirty[p]: LockedStore.dirty of p

storeVars == <<lock, disk, active, mem, dirty>>

(* A mistake: a load that takes a missing file for a state. *)
LoadedRaw(d) == d

(* What a load of the file yields. *)
Loaded(d) == IF d = Absent THEN newPersistedState ELSE d

StoreInit ==
  /\ lock = NoProc
  /\ disk = Absent
  /\ active = [p \in Proc |-> FALSE]
  /\ mem = [p \in Proc |-> newPersistedState]
  /\ dirty = [p \in Proc |-> FALSE]
-----------------------------------------------------------------------------
(* Mistakes: a lock that does not exclude, a load that starts afresh from  *)
(* a damaged file.                                                         *)
LockShared == TRUE
LoadableAny == TRUE

LockFree == lock = NoProc
Loadable == disk # Corrupt
Committable(p) == validatePersistedState(mem[p])

(* flockExclusive: waits for the exclusive lock, retrying on EINTR. *)
flockExclusive(p) ==
  /\ LockFree
  /\ lock # p
  /\ lock' = p
  /\ UNCHANGED <<disk, active, mem, dirty>>

(* Only a missing file is an empty network. *)
loadState(p) ==
  /\ lock = p /\ ~active[p]
  /\ Loadable
  /\ active' = [active EXCEPT ![p] = TRUE]
  /\ mem' = [mem EXCEPT ![p] = IF disk = Corrupt THEN newPersistedState ELSE Loaded(disk)]
  /\ dirty' = [dirty EXCEPT ![p] = FALSE]
  /\ UNCHANGED <<lock, disk>>

(* The deferred end of WithLock: the LockedStore is closed, the copy with  *)
(* whatever was not committed is gone, the lock is free. A load that fails *)
(* ends here too, and so does a crash: the kernel drops the flock.         *)
unlock(p) ==
  /\ lock' = IF lock = p THEN NoProc ELSE lock
  /\ active' = [active EXCEPT ![p] = FALSE]
  /\ mem' = [mem EXCEPT ![p] = newPersistedState]
  /\ dirty' = [dirty EXCEPT ![p] = FALSE]
  /\ UNCHANGED disk

Unlock(p) == lock = p /\ unlock(p)

(* An operation replaces the copy of an active store. *)
Update(p, s) ==
  /\ active[p]
  /\ mem' = [mem EXCEPT ![p] = s]
  /\ dirty' = [dirty EXCEPT ![p] = @ \/ s # mem[p]]
  /\ UNCHANGED <<lock, disk, active>>

Allocate(p, k, c, n) ==
  /\ AllocateAllowed(mem[p], k, c)
  /\ \E t \in Clock : Update(p, AllocateResult(mem[p], k, c, n, t))

MarkPhase(p, k, phase) ==
  /\ HasEndpoint(mem[p], k)
  /\ \E t \in Clock : Update(p, MarkResult(mem[p], k, phase, t))

Release(p, k) ==
  /\ ReleaseAllowed(mem[p], k)
  /\ Update(p, ReleaseResult(mem[p], k))

(***************************************************************************)
(* Commit. Nothing to write, or a copy that does not validate: the file    *)
(* stays. A write that fails before the rename leaves the old file. When   *)
(* the rename is done and only the fsync of the directory fails, Commit    *)
(* returns an error although the new file is in place.                     *)
(***************************************************************************)
CommitClean(p) == active[p] /\ ~dirty[p] /\ UNCHANGED storeVars

CommitRefused(p) == active[p] /\ dirty[p] /\ ~Committable(p) /\ UNCHANGED storeVars

CommitUnwritten(p) == active[p] /\ dirty[p] /\ Committable(p) /\ UNCHANGED storeVars

CommitRenamed(p) ==
  /\ active[p] /\ dirty[p] /\ Committable(p)
  /\ disk' = mem[p]
  /\ UNCHANGED <<lock, active, mem, dirty>>

CommitWritten(p) ==
  /\ active[p] /\ dirty[p] /\ Committable(p)
  /\ disk' = mem[p]
  /\ dirty' = [dirty EXCEPT ![p] = FALSE]
  /\ UNCHANGED <<lock, active, mem>>

(***************************************************************************)
(* What others do to the file while no invocation holds the lock: the      *)
(* state directory is removed, the file is damaged.                        *)
(***************************************************************************)
LoseState == lock = NoProc /\ disk' = Absent /\ UNCHANGED <<lock, active, mem, dirty>>
DamageState == lock = NoProc /\ disk' = Corrupt /\ UNCHANGED <<lock, active, mem, dirty>>

ProcNext(p) ==
  \/ flockExclusive(p)
  \/ loadState(p)
  \/ Unlock(p)
  \/ \E k \in Key, c \in Config, n \in NetNS : Allocate(p, k, c, n)
  \/ \E k \in Key, phase \in Phase : MarkPhase(p, k, phase)
  \/ \E k \in Key : Release(p, k)
  \/ CommitRenamed(p)
  \/ CommitWritten(p)

StoreNext == (\E p \in Proc : ProcNext(p)) \/ LoseState \/ DamageState

StoreSpec == StoreInit /\ [][StoreNext]_storeVars
-----------------------------------------------------------------------------
(* The file, every copy and the lock have their types: what Commit writes  *)
(* and what a load yields is a whole state (store.go:98-188).              *)
StoreTypeOK ==
  /\ lock \in Proc \cup {NoProc}
  /\ disk \in State \cup {Absent, Corrupt}
  /\ active \in [Proc -> BOOLEAN]
  /\ mem \in [Proc -> State]
  /\ dirty \in [Proc -> BOOLEAN]

(* A copy without changes of its own is what the file holds: nobody has    *)
(* committed since it was loaded, so no commit overwrites one it has not   *)
(* seen (store.go:98-150).                                                 *)
NoLostUpdate == \A p \in Proc : active[p] /\ ~dirty[p] => mem[p] = Loaded(disk)

(* No two endpoints of the file or of a copy hold the same address.        *)
UniqueAddresses(s) ==
  \A j, k \in Key :
     HasEndpoint(s, j) /\ HasEndpoint(s, k) /\ s.endpoints[j].ip = s.endpoints[k].ip
       => j = k

NoDuplicateAddress ==
  /\ disk \notin {Absent, Corrupt} => UniqueAddresses(disk)
  /\ \A p \in Proc : UniqueAddresses(mem[p])

(* Whatever an invocation does in whatever order, the only thing that can  *)
(* make Commit refuse its copy is the wall clock: the two maps, the range  *)
(* and the configuration of the copy always agree.                         *)
TimesInOrder(s) == \A k \in Key : HasEndpoint(s, k) => s.endpoints[k].inOrder

OnlyClockRefuses ==
  \A p \in Proc : active[p] /\ dirty[p] /\ TimesInOrder(mem[p])
                    => validatePersistedState(mem[p])

(* The invariant behind them: the holder alone has a copy, the two maps of *)
(* every copy agree, a changed copy has a configuration, and the file is   *)
(* absent, damaged by others or valid.                                     *)
CallbackHoldsLock == \A p \in Proc : active[p] => lock = p

MapsAgree(s) ==
  /\ \A k \in Key : HasEndpoint(s, k) =>
       /\ s.config # NoConfig /\ s.endpoints[k].config = s.config
       /\ s.endpoints[k].ip \in Pool[s.config]
       /\ s.allocations[s.endpoints[k].ip] = k
  /\ \A a \in Used(s) : AllocationValid(s, a)

CopiesAgree == \A p \in Proc : /\ MapsAgree(mem[p])
                               /\ dirty[p] => mem[p].config # NoConfig

DiskValid == disk \in {Absent, Corrupt} \/ validatePersistedState(disk)

(* And of a running callback: its file is not damaged, and if there is a   *)
(* file, it has the configuration of the copy.                             *)
CopyFollowsFile ==
  \A p \in Proc : active[p] =>
    /\ disk # Corrupt
    /\ disk # Absent => mem[p].config = disk.config

(* No invocation replaces a damaged file: it stays as evidence until       *)
(* someone else removes or restores it (state.go:83-84).                   *)
DamageIsKept == [][disk = Corrupt => disk' \in {Corrupt, Absent}]_storeVars

(* Once a network has a configuration, every later state of it has the     *)
(* same one, also after the last endpoint is released (state.go:61-63).    *)
ConfigIsSticky ==
  [][ {disk, disk'} \cap {Absent, Corrupt} = {} => disk'.config = disk.config ]_storeVars
=============================================================================
