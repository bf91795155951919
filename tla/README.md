# A verification project for cloudnet V1

cloudnet is a CNI plugin for one host: `ADD` gives a container interface an IPv4
address from a local pool and a veth pair into a Linux bridge, `CHECK` compares
what is recorded with what is there, `DEL` takes both back. Every invocation is a
process of its own. The processes share a state file under a `flock`, and the
kernel's links. This directory holds TLA+ models of that program, the TLC runs
that check them, and TLAPS proofs. Paths below are relative to the repository.

Contents: [inventory](#inventory) ·
[modules and code](#modules-and-the-code-they-model) · [runs](#runs) ·
[fairness](#fairness) · [findings](#findings) · [proofs](#proofs) ·
[abstractions](#abstractions) · [not modelled](#not-modelled) · [plan](#plan)

## Inventory

| Component | State | Operations | What makes it correct |
| --- | --- | --- | --- |
| Allocation range, `internal/ipam/range.go` | an immutable `Range`: subnet, gateway, start, end | `NewRange`, `Contains`, `NextAvailable` | the scan returns the lowest usable address nobody holds, reports exhaustion only when there is none, and ends also at the highest address |
| State store, `internal/ipam/store.go`, `state.go` | `state.json`: network configuration, endpoints, and the reverse map of allocations; a permanent lock file; in memory the `LockedStore` copy and its dirty flag | `WithLock`, `Allocate`, `GetEndpoint`, `MarkPending`, `MarkReady`, `Release`, `Commit` | no lost update, no address given twice, a copy that `Commit` accepts, damage kept as evidence, a configuration that does not change |
| Endpoint record, `internal/endpoint/state.go` | phase, address, namespace path, timestamps | `Validate`, `Key.ID` | a record that validates is one the store can persist |
| Transactions, `internal/cni/service.go` | the local variables of one invocation | `Add`, `Check`, `Del` | success means what it says; a failed or dead `ADD` leaves something a later command can clean; an address is released only after its link is gone |
| Rollback stack, `internal/transaction/rollback.go` | registered compensations | `Defer`, `DeferCritical`, `Rollback`, `Commit` | newest first; a critical failure stops the chain |
| Endpoint links, `internal/network/{veth,netns,cleanup,check,ownership,route,link,names}.go` | the kernel's veth pairs, aliases, addresses, routes | `CreateEndpoint`, `DeleteEndpoint`, `CheckEndpoint` | only links that prove their ownership are deleted; a failure after `LinkAdd` undoes the pair |
| Shared bridge, `internal/network/bridge.go`, `state.go` | the bridge, its ports and address | `EnsureBridge`, `CheckBridge` | a bridge in conflict is left alone; a half-made one is completed; success means complete; only what this call made is undone |
| Configuration, `internal/config` | none | `Parse`, `ValidateRuntime` | accepts exactly the V1 values, and no network that a later layer refuses |
| Input types, `internal/network/types.go` | none | `validateBridgeSpec`, `validateEndpointSpec` | agree with the configuration, the range and the record on which addresses are usable |
| Result and prevResult, `internal/cni/{result,prev_result}.go` | none here; the runtime caches the result | `BuildResult`, `ValidatePrevResult` | `CHECK` takes the result of the endpoint's own `ADD`, also when other plugins have extended it, and no older one |
| Secure file access, `internal/ipam/securefs.go` | directories and lock file | open, create, checks of mode and type | concurrent first invocations end up with one directory and one lock |
| State write, `writeStateAtomic` in `state.go` | temporary file, `state.json`, their directory | create, write, fsync, rename, fsync | no torn file, an acknowledged state survives a power loss, every temporary file that stays has a reason |
| Errors and logging, entry points, scripts | none | | |

How they interact. `Service.Add` calls `Store.WithLock` with a callback. The
callback allocates, commits `pending`, calls `EnsureBridge` and
`CreateEndpoint`, marks `ready` and commits again, with compensations on a
rollback stack; `WithLock` commits what is still dirty after a successful callback
and drops it after a failed one. `Del` calls `DeleteEndpoint` and then `Release`
in its callback. `Check` only reads. All kernel work of a network therefore happens
under its lock, but nothing stops other actors from changing the kernel: the
runtime removes namespaces, administrators make, rename and delete links, other
plugins add interfaces.

What is hard: a process that dies between any two steps and a runtime that calls
again; a `Commit` that fails before or after the rename took effect; a
compensation that fails; a retry with another namespace path; a link or a
namespace that disappears between two system calls; host interface names that
are truncated hashes and may collide; a state file that is lost or damaged while
links live; waiters for the lock; two first invocations that create the same
directories; a power loss between the steps of a write; a shared bridge that others
change between two requests; a result that comes back old or extended. `PROJECT.json` lists these hazards with their
lines and the property that watches each.

## Modules and the code they model

| Module | Models | Notes |
| --- | --- | --- |
| `Range` | `range.go` as operators | W-bit addresses, W = 32 in the program |
| `RangeScan` | the loop of `NextAvailable`, one iteration per step | |
| `StoreState` | `persistedState`, its validation and the `LockedStore` operations as functions on it | a Go map is a total function with a null value |
| `Store` | `WithLock`, flock, load, `Commit`, any number of processes | callbacks left open: any operations in any order |
| `Cloudnet` | `Add`, `Check`, `Del`, `CreateEndpoint`, `DeleteEndpoint`, `CheckEndpoint`, the rollback, the environment | extends `Store`; each step of the plugin that touches the state is an action of `Store` |
| `AddressBook` | nothing in the code: what the plugin promises | abstract specification, implemented by `Cloudnet` |
| `StateFile` | `openNetworkStateDir`, `WithLock`, `Commit`, `writeStateAtomic` | one system call per step, on a file system that forgets what was not synced |
| `AtomicFile` | nothing in the code: a locked file that is replaced as a whole | abstract specification, implemented by `StateFile`; the file `Store` works with |
| `Bridge` | `EnsureBridge`, `CheckBridge`, the rollback of a new bridge | one netlink request per step, administrators in between |
| `PrevResult` | `BuildResult`, `ValidatePrevResult`, the end of `Service.Check` | with the runtime's copy of the result and the other plugins of a chain |
| `Validation` | the address rules of configuration, range, network layer and record, and three computations of the broadcast address | operators, used by `RangeScan` |
| `MCRangeScan`, `MCStore`, `MCCloudnet`, `MCStateFile`, `MCBridge`, `MCPrevResult` | instances for TLC | |
| `RangeProofs`, `StoreProofs`, `StateFileProofs`, `BridgeProofs`, `PrevResultProofs` | theorems | |
| `CloudnetProofs`, `LinkProofs`, `BookProofs` | theorems about `Cloudnet` | each extends the one before: store and stack; file and links; complete links and the address book |

**Range and RangeScan.** `Contains` is the predicate of `Range.Contains`;
`Take`, `Advance` and `Exhaust` are the three ways through the loop body.
`NextAddr` is `netip.Addr.Next`, which yields no address past the last one.

**StoreState and Store.** `lock` is the flock, `disk` the file (`Absent`,
`Corrupt`, or a state), `mem[p]`, `dirty[p]` and `active[p]` the `LockedStore` of
process `p`. `loadState` copies the file, `Update` is what an operation does to the
copy, and `Commit` has five outcomes: nothing to write, refused by validation,
failed before the rename, failed after it (`CommitRenamed`: the file is new but
`Commit` returns an error and the copy stays dirty), and done. Of the timestamps
only their order is kept (`inOrder`), because `Record.Validate` rejects an
`updatedAt` before `createdAt`; `Clock` says whether the wall clock may step back.

**Cloudnet.** `tx[p].pc` follows the phases the code logs: `lock`, `load`,
`allocate`, `persist-pending`, `ensure-bridge`, `idempotency-check`,
`reconcile-pending`, `persist-reconcile`, `create-veth`, `link-add` ...
`verify-host`, `mark-ready`, `persist-ready`, `finish`, `unlock`. `undo` is the
rollback stack. `DeleteEndpoint` is shared code: `caller` remembers who
called it and `Deleted` and `NotDeleted` say how each caller goes on. Its look-up
(`find-host`), its `LinkDel`, its stat of the namespace (`stat-peer`) and its work in
the namespace (`find-peer`) are steps of their own, so that links and namespaces may
disappear between any two of them. A step of
`CreateEndpoint` that fails goes to `undo-create`, the failure closure of
`veth.go:51-71`; the closure goes by the link's name until the first look-up has
succeeded (`undo-by-name`) and by its index afterwards. `pair[h]` is the veth pair whose
host end is named `h`; a namespace without a path that somebody still holds open
is `Limbo`, and the pairs in it disappear when it is closed.

Environment actions, each drawing on a budget of `MaxFaults`: `Crash`, a netlink
call that fails, a write or a directory fsync that fails, a namespace removed,
drift inside a container, an administrator who adds, deletes or renames a link, a
foreign interface, a lost or a damaged state file. `NamespaceMade` is free.
`Faults` says which of them a run admits.

**Validation.** `ConfigAccepts`, `NewRangeAccepts`, `BridgeAccepts`, `EndpointAccepts` and
`RecordAccepts` are the rules of five layers for one subnet, gateway, range and
address. `lastIPv4`, `ipv4Broadcast` and `isIPv4Broadcast` keep the `uint32` shifts of their
functions, as arithmetic modulo 2^W: the first shifts 1 by the full width for a prefix
of no bits and relies on the wrap-around of the subtraction, the other two treat that
prefix on its own.

**StateFile.** `inv[p].pc` is the next system call of an invocation: `open` and `mkdir` of
one path component after the other, `lock`, `load`, the `callback`, and `create`, `inspect`,
`write`, `sync`, `rename`, `dirsync` of a commit. `child` and `settled` are the directory entries and
whether they would survive a power loss; `cur[d]` is the `state.json` a reader finds in
the network directory `d`, `after[d]` the versions a power loss may leave. A state
is the number of changes that led to it. The callback is open: it may change and
commit as often as it likes, also after a commit that failed, as the rollback of
`ADD` does. `acked` and `promised` are history: what a `Commit` has acknowledged, and
what an invocation has returned success on. `temps[d]` is the number of temporary files in
the directory, whoever made them: `Create` makes one, `Rename` and the deferred unlink of
`CommitFails` take one away, and nobody else does. `peak[d]` is the highest number since the last
sync of the directory, of which a power loss may leave any. `toll` is history: the deaths,
and the temporary files that could not be inspected (`InspectFails`: the unlink is not
registered yet) or not removed. A power loss undoes the renames that are
not settled, loses data that were not synced, and may cut the path at any
directory whose entry nobody has synced. The program syncs only the network
directory itself, never its parents, so the whole directory can vanish; then
nothing that was acknowledged in it is held against the program.

**Bridge.** `call.pc` is the next netlink request. `snap` is the link as `EnsureBridge` looked
it up: later requests go by its index and trust its MTU, master and UP flag, so
they act on what may no longer be true. `seen` is the same for the `CheckBridge` at
the end. Ports are veths with an alias of the network (`OwnPort`) and all others
(`ForeignPort`). There is one call at a time because invocations of a network hold its
lock. `hist` is history: the link when the call began, what has happened to it since, and in
`shared` the link that belongs to others: it was there when the call began, or an
administrator made it before the call's `LinkAdd`. `Cloudnet` keeps `EnsureBridge` as one step that succeeds or fails; `Bridge` is what
happens inside it, and the two share no state but the ports.

**PrevResult.** `record` is the endpoint in the state file, `cache` what the runtime keeps,
`origin` the record it was made from. The answer of each `ADD` and `DEL` reaches the runtime or
not. `Chain` is what other plugins put into a result: interfaces in front of or
behind ours (the indices shift), addresses on other interfaces or on none, IPv6, routes;
`Meddles` are the entries that contradict ours. `Reinstall` is an upgrade that changes the
fixed configuration, with the state of the network kept or removed.

**AddressBook.** Per endpoint a phase, an address and the state of its link.
An address is assigned while nobody holds it and no link is left, a link is built
while its record is `pending`, the phase becomes `ready` only when the link is
complete, and the address is freed only when the link is gone. Transactions,
rollbacks, locks and crashes do not appear in it.

## Runs

| Run | Instance | Shows |
| --- | --- | --- |
| `range_scan` | 3-bit addresses, every valid range and every set of used addresses | `ScanCorrect`, `ScanTerminates`, loop invariant; `BroadcastsAgree`, `ConfiguredPoolIsWhole`, `LayersAgree` |
| `store` | 2 processes, 3 endpoints, 2 configurations with pools of 3 and 1 addresses, a clock that may step back | `NoLostUpdate`, `NoDuplicateAddress`, `OnlyClockRefuses`, `DamageIsKept`, `ConfigIsSticky` |
| `transactions` | 1 process at a time, 2 endpoints, 2 addresses, 2 namespaces; crash, netlink, write, fsync; 3 faults | `RollbackFollows`, `AddDelivers`, `DelCleans`, `QuarantinedBeforeDelete`, `ImplementsAddressBook` |
| `surroundings` | 2 endpoints with one host interface name; crash, netlink, netns, drift, admin, foreign, rename, damaged file; 3 faults | `OnlyOwnLinksDeleted`, `ReleasedAfterDelete`, `ImplementsStore` |
| `liveness` | 2 processes, 2 endpoints, 1 address; crash, write, fsync, netns, lost file; 2 faults | `EveryInvocationReturns`, `Reclaimed`, `DelFailsLate` |
| `state_file` | 2 processes, a path of 2 directories with one to spare at each level, 2 changes; failing calls, a failing inspection or unlink of the temporary file, crash, power loss; 3 faults | `FirstInvocationsMeet`, `FileIsWhole`, `AcknowledgedStays`, `TempsAccounted`, `ImplementsAtomicFile` |
| `bridge` | 3 link identities, 2 MTUs, 2 addresses, a port of each kind; netlink, crash, admin; 3 faults | `ConflictsLeftAlone`, `EnsureDelivers`, `EnsureHeals`, `CreatedOrUndone`, `SharedBridgeKept` |
| `prev_result` | 2 namespaces, 2 addresses, 2 configurations, 2 entries of other plugins | `AcceptsOwn`, `RefusesStale`, and in `PrevTypeOK` that every index names an interface |
| `crash_evidence`, `fsync_quarantine`, `renamed_host`, `undurable_success` | one or two endpoints or invocations, the faults the scenario needs | violated: see findings |

Why the bounds are enough. A three-bit address space has ranges at both of its
ends, with the gateway, the network and the broadcast address inside and
outside start..end, and of one address. The lock serialises invocations, so
two processes show every way of waiting and overtaking, and because a process
starts over after it returns, one process runs every *sequence* of
invocations. Two endpoints are what it takes to meet on an address, a name or
a namespace; three in `store` let one be freed between two others. Three
faults are one more than any recovery in the code has to survive: a failure, a
failure of its compensation, and a crash of the retry. In `state_file` the spare
directories are what a racing `mkdirat` could wrongly use, and two changes tell
the old, the acknowledged and the new version apart. In `bridge` three identities let
the bridge be replaced twice within a call; in `prev_result` two foreign entries are one in
front and one behind, or an interface and its address. No run
bounds the number of invocations. TLC's deadlock check is on everywhere but for
the scan, which stops when it has its result.

`ReleasedAfterDelete` is about a file that is damaged, not lost: after the loss of
the file an `ADD` starts with an empty network, and an address is released although the
link of the lost record still has it. The code promises no more than that `DEL` finds the
link by its name, which `Reclaimed` checks with a lost file.

The rest of `PROJECT.json` says for every property which plausible mistake in the
code breaks it; the mistakes are the definitions marked "A mistake" in the
modules.

## Fairness

`FairSpec` in `Cloudnet` assumes three things. A process that is not waiting
goes on (`WF` of `Run`): nothing in the code waits but the flock. A process
that waits for the lock gets it if it becomes free again and again (`SF` of
`Lock`): Linux keeps waiters of a flock in a queue. And the runtime repeats `DEL`
for every endpoint (`SF` of its invocation), because CNI asks it to repeat a
`DEL` until it succeeds. Crashes and other faults are finite in number and not
fair. `ADD` is not fair, so `Reclaimed` is not won by starving it: it can be
called at any time in between, and says that whenever the address was
taken it is given back later.

The `liveness` run leaves out three kinds of fault, each because the code
then really does not finish: a crash directly after `LinkAdd` (finding 1), a netlink
failure (a failing `LinkSetAlias` whose compensation fails as well leaves the same
unaliased link) and links of administrators and other plugins (the plugin refuses
to delete what it does not own, by design, and `DEL` reports that).

## Findings

1. `crash_evidence`. `docs/design-v1.md:152` says that after a crash between veth
   creation and `ready`, alias and pending record together are the evidence to
   recover from. Between `LinkAdd` (`veth.go:45`) and `LinkSetAlias` (`veth.go:96`) the
   link has no alias. If the process dies there, every later `ADD` and `DEL` finds the
   link by its name, fails the ownership check and keeps the `pending` record until
   somebody deletes the link by hand.
2. `fsync_quarantine`. `README.md:125` says that an allocation whose clean-up fails
   is quarantined as `pending`, also if it was the `ready` state that could not be
   persisted. If only the directory fsync failed (`state.go:349`), the file already says
   `ready`, and the rollback, which stops at the failing deletion, leaves it so. The
   address stays reserved, and the next `ADD` or `DEL` recovers.
3. `renamed_host`. `service.go:125` says that a missing host end means a missing pair.
   A renamed host end is missing by its name: the pair lives on in the container.
   The retry of `ADD` finds the endpoint broken, its deletion finds nothing,
   `CreateEndpoint` fails because the interface exists in the namespace, and the
   rollback releases the address, which the next endpoint then shares with the old link.
4. `undurable_success`. `state.go:309` says that the directory fsync makes the new entry survive
   a restart. If that fsync fails, the invocation fails, as it should. The next one
   loads the new file, finds nothing to change, and `Commit` returns at once because the
   copy is not dirty (`store.go:176`): success, though nobody has synced the directory
   since. After a power loss the old file may be back: without the endpoint an `ADD` has
   reported, or with the one a `DEL` has reported gone.

Smaller observations, not violations of a run: the state diagram in
`internal/endpoint/state.go:21-25` has no edge from `ready` to `pending`, which
`Service.Add` takes at `service.go:219`. When two endpoints collide on a host
interface name, the second `ADD` fails in `CreateEndpoint` and its rollback cannot
delete the other endpoint's link, so its record stays `pending` until that link is gone.
The comment of `NewRange` (`internal/ipam/range.go:52`) says that the gateway must not lie
between start and end; `NewRange` does not check this, `Contains` passes over the gateway
instead, and the configuration refuses such a range before (`ConfiguredPoolIsWhole`).
If a new bridge is replaced between `LinkAdd` and the look-up after it, the rollback of
`EnsureBridge` takes the other link for its own and deletes it (`bridge.go:34-46`).
`SharedBridgeKept` is silent on a link made after `LinkAdd`: the program cannot tell it from its own.
`docs/design-v1.md:243` says that the temporary file is cleaned up if any step fails. `openRegularFileAt`
can fail after `openat` has made it (`securefs.go:165-178`), and `createStateTemporary` returns that
error (`state.go:374`) before the unlink is deferred: the file stays, and nothing removes it
later. `TempsAccounted` counts it in `toll.botched`.
`cleanup.go:15` says that the deletion is idempotent for missing links and a missing
namespace. If the namespace goes, and the pair with it, after the look-up of the host end,
`LinkDel` fails and so does the `DEL` (`cleanup.go:31`); the record stays, and the next
`DEL` succeeds. The same race between stat and open of the namespace is treated as success
(`cleanup.go:47-52`). `DelFailsLate` says that the link that vanished is the only such case, next
to a failing write.
An `ADD` whose namespace loses its path while it is held open can succeed, although
the pair disappears as soon as the namespace is closed.

## Proofs

`RangeProofs` proves for every width, range and set of used addresses:

* `ScanTypeCorrect`: the loop variable is always an address, also where the range ends at
  the highest one and has no successor.
* `ScanStaysInRange`: the loop invariant, `addr` in start..end and everything passed
  is held or reserved. It is inductive together with the type invariant.
* `ScanIsCorrect`: the result is the lowest free usable address, or exhaustion
  only when nothing is free. A returned address is free by `Take`; that it is the
  lowest is the loop invariant.
* `BroadcastsAlwaysAgree`, `ConfiguredPoolAlwaysWhole`, `LayersAlwaysAgree`: the layers
  agree on the broadcast address and on which networks and addresses are valid. The
  argument is arithmetic: with B the block of a prefix and C the number of blocks, B * C =
  2^W, each of the three bit computations comes to B - 1 (`HostBits`), also where a
  shift by the full width loses its 1; and an address of a block masks back to the network
  (`MaskedBack`). Both rest on the uniqueness of quotient and remainder (`DivideUnique`).

`StoreProofs` proves for any number of processes, endpoints, addresses and
configurations, and for every callback:

* `StoreTypeCorrect`, `LockPreventsLostUpdate`, `AddressesAreUnique`,
  `CommitRefusesOnlyClock`, all from the inductive invariant `IInv`.
  Its parts: the holder of the lock alone has a copy (`CallbackHoldsLock`); the two maps of
  every copy agree with each other, the pool and the configuration, and a changed copy
  has a configuration (`CopiesAgree`); the file is absent, damaged or valid (`DiskValid`); a
  clean copy equals the file (`NoLostUpdate`). None of the properties is
  inductive alone: that no address is given twice needs the agreement of the
  maps (`Allocate` looks only at the reverse map), the agreement needs the file to be valid
  when it is loaded, and the file stays valid only because `Commit` validates and
  because no other copy can overwrite it.
* `DamageStays` and `ConfigStays`, action properties, from `IInv` and
  `CopyFollowsFile`: the file of a running callback is not damaged and has the
  configuration of the copy.

`CloudnetProofs` proves for any number of invocations, endpoints, names, namespaces
and faults:

* `PluginUsesStore`: `Cloudnet` implements `Store`. Every step of the three commands,
  a crash included, is an action of `Store` by that process or leaves the store alone, so
  everything `StoreProofs` proves holds of the plugin;
  `PluginAddressesUnique` is the case that matters most.
* `RollbackStackFollows`: the stack holds the compensations of the step a
  transaction has reached, the release once and the deletion above it.
* `PluginTypeCorrect`: the types of all variables, the kernel's links included.

The argument. That a step of `Cloudnet` is an action of `Store` is not a matter of
form: the operations of `Store` take a key, a configuration and a namespace of the
right type, so the arguments of the transaction have to be known at every step, and a
process that dies may be without the lock, in which case its death may not change the
store. So the invariant `CInv` has three parts: `IInv` of the store; `CopyNeedsLock`,
a process without the lock has no copy; and `RollbackFollows`, which ties `pc`,
`undo`, `caller` and the record in the copy together. That the rollback of an `ADD` releases
exactly once depends on how it came to its step: a new record registers the release after the
first `Commit`, a pending one before the old link is deleted, a ready one after
that. There is one lemma per group of actions (`AddStoreSteps`, `CreateSteps`,
`DeleteSteps`, ...), and each shows at once that the transaction stays sound and that
the store allows the step.

`LinkProofs` proves for any number of invocations, endpoints, names, namespaces and
faults, with host interface names that may collide:

* `PendingBeforeDelete`: outside the rollback of its own creation, an `ADD` deletes a link
  only while the file says `pending`. No hypothesis: also a lost or damaged file, which
  others can change only between invocations, does not matter.
* `PluginDeletesOwnLinks`: what is deleted is the plugin's own, with the two exceptions
  `OnlyOwnLinksDeleted` names. No hypothesis either.
* `SuccessfulDelCleans`: a `DEL` that reports success leaves neither record nor link. Hypothesis:
  no host end is renamed; `RenamedHost` is the run that shows what happens otherwise.
* `AddressOutlivesLink`: a record is dropped only when the link is gone. Hypothesis: the state
  directory is not removed. After that a link may stand without a record, and the rollback of the
  next `ADD` releases the new record while the old link is there.

`BookProofs` proves

* `SuccessfulAddDelivers`: an `ADD` that reports success has its ready record in the file
  and the complete link in the kernel. Hypothesis: nobody else removes namespaces,
  changes the container or adds and deletes links; crashes, failing
  netlink requests, renamed links, foreign interfaces, a lost and a damaged file are allowed.
  `AddDelivers` speaks of the kernel at the moment of success, which an administrator can change
  just before it.
* `PluginKeepsBook`: `Cloudnet` implements `AddressBook`. Hypothesis: none of the faults in
  which somebody else changes file, links or namespaces (`netns`, `drift`, `admin`,
  `rename`, `lose`, `damage`): the book has no action for them. Crashes, failed requests and
  failed writes are allowed, as in the run `transactions`, and foreign interfaces.
* `BookAlwaysConsistent`: under the same hypothesis the invariant of the book holds of
  file and links at every moment.

The argument. None of these is inductive, because each relates the file, the copy and the
links, and which of them is ahead depends on the step of the transaction that holds the
lock. The invariant says it step by step; its parts are in `Cloudnet.tla`, in layers that need
ever more of the surroundings:

1. `Serial` and `Ledger` (no hypothesis): past the wait for the lock an invocation holds it,
   past the load it has a copy; the copy differs from the file at most at the
   endpoint of the invocation, and there as the step says: the file holds no
   record at `persist-pending`, a pending one from then on (`Quarantined`), a ready one while
   an existing endpoint is looked at (`Reusing`). `PendingBeforeDelete` is one case of it. That
   other invocations and the surroundings do not change the file meanwhile is the lock.
2. `LinksFollow` (no hypothesis): a pair has the name of the key it was made for and no alias
   but of this key (`Attributed`), after `LinkAdd` the name is taken, and after a successful
   `DeleteEndpoint` no pair of the endpoint is left (`Taken`).
3. `NoOrphans` (needs the directory): a link has a record in the file, and a transaction that is
   about to drop or to make a record has no link (`Unlinked`).
4. `AllBuilt` (needs namespaces and links left alone): the new pair has got what
   the steps so far give it, and whoever goes on to `mark-ready`, and every `ADD` that succeeds,
   has all of it (`Built`).

For the refinement, `BookShows` says that one record and one host name tell what the book
shows of an endpoint; `OneEndpoint` that a step which leaves the other endpoints alone changes
one entry; and then there is one lemma per kind of step: `LinkAddBooks` (Build), `SetUpBooks`
(Complete, or a stutter), `RemovalBooks` (Remove), `CommitBooks` (Assign, Quarantine, Activate,
Free), `QuietBook` for all the rest. Free is the step that needs layer 3, Activate the one that
needs layer 4, Assign the unique addresses of `StoreProofs`.

`StateFileProofs` proves for any number of invocations, directories, levels, changes and
faults: `FileTypeCorrect`, `OneDirectory`, `NoTornFile`, `AcknowledgedSurvives`, `LitterIsOnTheToll` and
`StepsImplementAtomicFile`, that every system call maps to a step of `AtomicFile` or to a stutter.
The inductive invariant `Inv` has four parts. `Tree`: the entries form one path, each
directory has at most one parent, and its level fits, so whoever walks down
reaches the same network directory. `Versions`: what a power loss may leave is never torn, never
older than what was acknowledged, and contains the present file. `Good` of each
invocation: its directory lies on the path (`Place`), it has the lock from `load` on
(`Latch`), its copy is the file or newer (`Copy`), and its temporary file is as complete as its step
says (`Temp`). None of the properties is inductive alone: that an acknowledged version stays
needs the lock, the lock needs the one directory, and that needs the tree.
`LitterIsOnTheToll` has an invariant of its own on top: two running commits never share a
directory (the lock again), so each `rename` and each unlink takes away the file its own commit
made, and what is left over is bounded by `toll`.

`BridgeProofs` proves for any identities, MTUs, addresses and ports: `BridgeTypeCorrect`,
`ConflictsUntouched`, `DeliversComplete`, `HealsEverything`, `FailedCallUndone` and
`SharedBridgeSurvives`. The invariant says of each step what the call has verified so far and
what it has changed (`Verified`, `Own`, `Removed`), and `Story` how the bridge relates to the
link the call began with while nobody else touches it: that is what an undisturbed call
that fails needs to blame the conflict it found. `SharedBridgeSurvives` needs a second one,
`Sharing`: a call that has created a link found none that belongs to others, so
what its rollback deletes is never the shared one, and no endpoint is attached to it because
endpoints of the network attach only between two calls.

`PrevResultProofs` proves `AcceptsExactlyOwn` (the comparison takes a result nobody extended
exactly if it was built from the record it is compared with), `PrevTypeCorrect`, `OwnResultAccepted`
and `StaleResultRefused`, for any number of plugins in the chain. The invariant says
that our three interfaces occur once each wherever others have pushed them, that the
container's IPv4 address is the only one bound to its index, and that our default route is the
only one, unless another plugin has contradicted it.

The assumptions are those of the modules: addresses are numbers, a pool is a set of
addresses, every key has a host interface name, the null values differ from the
values they stand beside. `PowersOfTwo` in `Range` is no assumption about the program: it
states that 2^n is a positive number and that 2^(W-n) * 2^n = 2^W, because the provers know
nothing of exponents. The hypotheses on `Faults` of single theorems are named above; the
other theorems hold for every set of faults.

Only model-checked: liveness, that is `ScanTerminates`, `EveryInvocationReturns` and
`Reclaimed`, which TLAPS cannot prove, and `DelFailsLate`: its hypotheses are those of its run
(no failing requests, no crash directly after `LinkAdd`, nobody else makes links), and its proof
would need one more layer, that every link carries the alias of its endpoint between
invocations. Every other property of a passing run is a theorem.

## Abstractions

* An endpoint key is a model value. `HostName` may be injective or not: both are
  checked.
* Of MTU, UP flags, bridge port, default route and loopback a pair has one flag,
  `routed`. What tells them apart are error messages.
* `Preflight` and `CheckEndpoint` are one step each. Both only read, and what may
  change between their reads is caught again by the step that acts on it
  (`LinkAdd` refuses a name that exists, `MovePeer` and `configureContainer` look again).
* `HostRenamed`, `StateLost` and `StateDamaged` happen between invocations. A rename during
  `CreateEndpoint` would need the model to follow links by index and name at once.
* JSON is not modelled: a file decodes and validates, or it is `Corrupt`.
* The plugin's configuration is one of a set; which bytes it came from is not modelled.
* In `Cloudnet`, `EnsureBridge` succeeds or fails; `Bridge` models it on its own.
* `StateFile` identifies the permanent lock file with its directory: it is opened relative to it
  and never removed. A state is its version number, what it says is in `Store`.
* A power loss ends every invocation and restarts the file from what is on disk; the links,
  which the kernel loses as well, are not in that module.
* In `Bridge` an interface index is not reused while a call may still use it.
* MAC addresses are left out of `PrevResult`: the service never has one to compare. The kernel
  side of its endpoint is healthy, `Cloudnet` models when it is not.

## Not modelled

* Syntax: the JSON tokens of configuration and state (duplicate keys, unknown fields, a second
  value), names, paths, aliases, MTU bounds, log levels. Each is a check of one input
  without state; the tests of the repository enumerate them. The comparison of a configuration with the
  constants of V1 is left out of `ConfigAccepts`: it picks one of the networks that are modelled.
* The checks of `securefs.go` on entry types, link counts and modes: nothing in the program makes
  such entries. That the inspection of a new temporary file may fail is modelled.
* The general rollback stack: the program only ever builds the three stacks of
  `CloudnetTypeOK`.
* Errors and logging, the entry points, the scripts.

`PROJECT.json` gives the reason for each component.

## Plan

The order followed what a failure would cost: first the addresses and links, then what
keeps the file, then the shared bridge, then the conversions. Done: range, store,
transactions, address book, state file, bridge, prevResult, validation, with their runs and
proofs. What is left:

1. `Bridge` composed with two networks on one bridge name, should V1's single network be lifted.
2. Duplicate-key JSON decoding at the level of tokens.
