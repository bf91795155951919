----------------------------- MODULE StoreState -----------------------------
(***************************************************************************)
(* The persisted state of one network (internal/ipam/state.go) and the     *)
(* LockedStore operations that change it (internal/ipam/store.go).         *)
(*                                                                         *)
(* A map of the program is a total function here, and a key it does not    *)
(* hold maps to a null value. A Config is the network's IPAM identity:     *)
(* subnet, gateway, range, bridge and MTU. Pool[c] is the set of addresses *)
(* Range.Contains accepts under c. Of the two timestamps of a record only  *)
(* their order matters: inOrder says that updatedAt is not before          *)
(* createdAt, and Clock says what the wall clock can do to it.             *)
(***************************************************************************)
EXTENDS Integers, FiniteSetsExt

CONSTANTS
  Key,            \* endpoint identities (network, container, interface)
  Addr,           \* addresses of the subnet
  NetNS,          \* namespace paths
  Config, Pool,
  Clock,          \* {TRUE}: the clock never steps back; BOOLEAN: it may
  NoKey, NoConfig, NoRecord

Phase == {"pending", "ready"}

Record == [ip : Addr, phase : Phase, netns : NetNS, config : Config,
           inOrder : BOOLEAN]

ASSUME StoreStateAssumption ==
  /\ Addr \subseteq Nat
  /\ Pool \in [Config -> SUBSET Addr]
  /\ Clock \subseteq BOOLEAN
  /\ NoKey \notin Key /\ NoConfig \notin Config /\ NoRecord \notin Record

State == [config      : Config \cup {NoConfig},
          endpoints   : [Key -> Record \cup {NoRecord}],
          allocations : [Addr -> Key \cup {NoKey}]]

newPersistedState == [config      |-> NoConfig,
                      endpoints   |-> [k \in Key |-> NoRecord],
                      allocations |-> [a \in Addr |-> NoKey]]

HasEndpoint(s, k) == s.endpoints[k] # NoRecord

Used(s) == {a \in Addr : s.allocations[a] # NoKey}

(***************************************************************************)
(* validatePersistedState, shared by the load and the commit. That the two *)
(* maps have equal size follows from the last two conjuncts.               *)
(***************************************************************************)
EndpointValid(s, k) ==
  LET r == s.endpoints[k]
  IN  /\ r.inOrder
      /\ r.config = s.config
      /\ r.ip \in Pool[s.config]
      /\ s.allocations[r.ip] = k

AllocationValid(s, a) ==
  /\ HasEndpoint(s, s.allocations[a])
  /\ s.endpoints[s.allocations[a]].ip = a

validatePersistedState(s) ==
  /\ s.config # NoConfig
  /\ \A k \in Key : HasEndpoint(s, k) => EndpointValid(s, k)
  /\ \A a \in Used(s) : AllocationValid(s, a)

(***************************************************************************)
(* Allocate under configuration c from namespace path n.                   *)
(***************************************************************************)
(* A mistake: a network that takes the configuration of any request. *)
ConfigIgnored(s, c) == TRUE

ConfigMatches(s, c) == s.config \in {NoConfig, c}

FreeAddresses(s, c) == Pool[c] \ Used(s)

AllocateAllowed(s, k, c) ==
  /\ ConfigMatches(s, c)
  /\ IF HasEndpoint(s, k)
       THEN s.endpoints[k].config = c /\ s.endpoints[k].ip \in Pool[c]
       ELSE FreeAddresses(s, c) # {}

(* A mistake: the lowest address of the pool, whoever holds it. *)
NextAvailableTaken(s, c) == Min(Pool[c])

NextAvailable(s, c) == Min(FreeAddresses(s, c))

NewRecord(s, c, n) ==
  [ip |-> NextAvailable(s, c), phase |-> "pending", netns |-> n, config |-> c,
   inOrder |-> TRUE]

AllocateNew(s, k, c, n) ==
  [s EXCEPT !.config = c,
            !.endpoints[k] = NewRecord(s, c, n),
            !.allocations[NextAvailable(s, c)] = k]

(* A mistake: the path of the first ADD stays in the record. *)
AllocateUnchanged(s, k, n, t) == s

(* A retry keeps the record and its address, and takes the new path.       *)
AllocateExisting(s, k, n, t) ==
  IF s.endpoints[k].netns = n THEN s
  ELSE [s EXCEPT !.endpoints[k].netns = n, !.endpoints[k].inOrder = t]

AllocateResult(s, k, c, n, t) ==
  IF HasEndpoint(s, k) THEN AllocateExisting(s, k, n, t)
                       ELSE AllocateNew(s, k, c, n)

(* MarkPending and MarkReady; marking twice changes nothing.               *)
MarkResult(s, k, phase, t) ==
  IF s.endpoints[k].phase = phase THEN s
  ELSE [s EXCEPT !.endpoints[k].phase = phase, !.endpoints[k].inOrder = t]

(* Release drops both mappings of an endpoint. A missing endpoint is a     *)
(* success; maps that disagree are reported as corruption.                 *)
ReleaseAllowed(s, k) ==
  HasEndpoint(s, k) => s.allocations[s.endpoints[k].ip] = k

(* A mistake: the address stays allocated to a key that is gone. *)
ReleaseHalf(s, k) == [s EXCEPT !.endpoints[k] = NoRecord]

ReleaseResult(s, k) ==
  IF ~HasEndpoint(s, k) THEN s
  ELSE [s EXCEPT !.endpoints[k] = NoRecord,
                 !.allocations[s.endpoints[k].ip] = NoKey]
=============================================================================
