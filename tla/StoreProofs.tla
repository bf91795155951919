---------------------------- MODULE StoreProofs ----------------------------
(***************************************************************************)
(* The state store is safe for any number of invocations, endpoints,       *)
(* addresses and configurations, whatever the callbacks of WithLock do.    *)
(***************************************************************************)
EXTENDS Store, WellFoundedInduction, TLAPS

(* A non-empty set of natural numbers has a minimum, and Min returns it. *)
LEMMA MinOfNats ==
  ASSUME NEW S \in SUBSET Nat, S # {}
  PROVE  Min(S) \in S
<1>1. \E m \in S : \A y \in S : ~(<<y, m>> \in OpToRel(<, Nat))
  BY NatLessThanWellFounded, WFMin
<1>2. PICK m \in S : \A y \in S : ~(<<y, m>> \in OpToRel(<, Nat))
  BY <1>1
<1>3. \A y \in S : ~(y < m)  BY <1>2 DEF OpToRel
<1>4. \A y \in S : m <= y  BY <1>3
<1>5. \E x \in S : \A y \in S : x <= y  BY <1>4
<1>6. QED  BY <1>5 DEF Min

(* The address Allocate picks is free and in the pool of the request. *)
LEMMA NextAvailableFree ==
  ASSUME NEW s \in State, NEW c \in Config, FreeAddresses(s, c) # {}
  PROVE  /\ NextAvailable(s, c) \in Addr
         /\ NextAvailable(s, c) \in Pool[c]
         /\ s.allocations[NextAvailable(s, c)] = NoKey
<1>1. FreeAddresses(s, c) \in SUBSET Nat
  BY StoreStateAssumption DEF FreeAddresses
<1>2. NextAvailable(s, c) \in FreeAddresses(s, c)
  BY <1>1, MinOfNats DEF NextAvailable
<1>3. Pool[c] \subseteq Addr  BY StoreStateAssumption
<1>4. QED  BY <1>2, <1>3 DEF FreeAddresses, Used

(* An empty network is a state whose maps agree. *)
LEMMA EmptyAgrees == newPersistedState \in State /\ MapsAgree(newPersistedState)
  BY DEF newPersistedState, State, MapsAgree, HasEndpoint, Used

(* A copy validates exactly when its maps agree, it has a configuration and *)
(* its times are in order.                                                  *)
LEMMA ValidIsAgreement ==
  ASSUME NEW s \in State
  PROVE  validatePersistedState(s)
           <=> MapsAgree(s) /\ s.config # NoConfig /\ TimesInOrder(s)
  BY DEF validatePersistedState, MapsAgree, TimesInOrder, EndpointValid, HasEndpoint

(* When the maps agree, no two endpoints share an address. *)
LEMMA AgreementIsUnique ==
  ASSUME NEW s \in State, MapsAgree(s)
  PROVE  UniqueAddresses(s)
  BY DEF MapsAgree, UniqueAddresses

(* A new record is a record. *)
LEMMA NewRecordType ==
  ASSUME NEW s \in State, NEW c \in Config, NEW n \in NetNS, FreeAddresses(s, c) # {}
  PROVE  NewRecord(s, c, n) \in Record /\ NewRecord(s, c, n) # NoRecord
<1>1. NewRecord(s, c, n) \in Record
  BY NextAvailableFree DEF NewRecord, Record, Phase
<1>2. QED  BY <1>1, StoreStateAssumption

(* Allocating a new endpoint keeps the maps in agreement. *)
LEMMA AllocateNewAgrees ==
  ASSUME NEW s \in State, MapsAgree(s), NEW k \in Key, NEW c \in Config,
         NEW n \in NetNS, ConfigMatches(s, c), ~HasEndpoint(s, k),
         FreeAddresses(s, c) # {}
  PROVE  LET r == AllocateNew(s, k, c, n)
         IN  r \in State /\ MapsAgree(r) /\ r.config # NoConfig
<1> DEFINE r == AllocateNew(s, k, c, n)
           a == NextAvailable(s, c)
           new == NewRecord(s, c, n)
<1>1. a \in Addr /\ a \in Pool[c] /\ s.allocations[a] = NoKey
  BY NextAvailableFree
<1>2. new \in Record /\ new # NoRecord  BY NewRecordType
<1>3. new.ip = a /\ new.config = c  BY DEF NewRecord
<1>4. /\ r.config = c
      /\ r.endpoints = [s.endpoints EXCEPT ![k] = new]
      /\ r.allocations = [s.allocations EXCEPT ![a] = k]
  BY DEF AllocateNew, State
<1>5. s.endpoints \in [Key -> Record \cup {NoRecord}]
      /\ s.allocations \in [Addr -> Key \cup {NoKey}]
  BY DEF State
<1>6. r \in State
  <2>1. r.endpoints \in [Key -> Record \cup {NoRecord}]  BY <1>2, <1>4, <1>5
  <2>2. r.allocations \in [Addr -> Key \cup {NoKey}]  BY <1>4, <1>5
  <2>3. QED  BY <1>4, <2>1, <2>2 DEF AllocateNew, State
<1>7. c # NoConfig  BY StoreStateAssumption
<1>8. ASSUME NEW j \in Key, HasEndpoint(r, j)
      PROVE  /\ r.endpoints[j].config = c
             /\ r.endpoints[j].ip \in Pool[c]
             /\ r.allocations[r.endpoints[j].ip] = j
  <2>1. CASE j = k  BY <2>1, <1>1, <1>3, <1>4, <1>5
  <2>2. CASE j # k
    <3>1. r.endpoints[j] = s.endpoints[j] /\ HasEndpoint(s, j)
      BY <2>2, <1>4, <1>5, <1>8 DEF HasEndpoint
    <3>2. /\ s.config # NoConfig /\ s.endpoints[j].config = s.config
          /\ s.endpoints[j].ip \in Pool[s.config]
          /\ s.allocations[s.endpoints[j].ip] = j
      BY <3>1 DEF MapsAgree
    <3>3. s.config = c  BY <3>2 DEF ConfigMatches
    <3>4. s.endpoints[j].ip \in Addr  BY <3>2, <3>3, StoreStateAssumption
    <3>5. s.endpoints[j].ip # a  BY <1>1, <3>2, StoreStateAssumption
    <3>6. QED  BY <3>1, <3>2, <3>3, <3>4, <3>5, <1>4, <1>5
  <2>3. QED  BY <2>1, <2>2
<1>9. ASSUME NEW b \in Used(r) PROVE AllocationValid(r, b)
  <2>1. b \in Addr /\ r.allocations[b] # NoKey  BY <1>9 DEF Used
  <2>2. CASE b = a
    BY <2>2, <1>1, <1>2, <1>3, <1>4, <1>5 DEF AllocationValid, HasEndpoint
  <2>3. CASE b # a
    <3>1. r.allocations[b] = s.allocations[b] /\ b \in Used(s)
      BY <2>1, <2>3, <1>4, <1>5 DEF Used
    <3>2. AllocationValid(s, b) /\ s.allocations[b] \in Key
      BY <3>1, <2>1, <1>5 DEF MapsAgree
    <3>3. s.allocations[b] # k  BY <3>2 DEF AllocationValid
    <3>4. QED  BY <3>1, <3>2, <3>3, <1>4, <1>5 DEF AllocationValid, HasEndpoint
  <2>4. QED  BY <2>2, <2>3
<1>10. QED  BY <1>4, <1>6, <1>7, <1>8, <1>9 DEF MapsAgree

(* Rewriting a record without touching its address or configuration keeps   *)
(* the maps in agreement.                                                   *)
LEMMA RewriteAgrees ==
  ASSUME NEW s \in State, MapsAgree(s), NEW k \in Key, HasEndpoint(s, k),
         NEW new \in Record, new.ip = s.endpoints[k].ip,
         new.config = s.endpoints[k].config,
         NEW r, r = [s EXCEPT !.endpoints[k] = new]
  PROVE  r \in State /\ MapsAgree(r) /\ r.config # NoConfig
<1>1. /\ r.config = s.config /\ r.allocations = s.allocations
      /\ r.endpoints = [s.endpoints EXCEPT ![k] = new]
  BY DEF State
<1>2. new # NoRecord  BY StoreStateAssumption
<1>3. s.endpoints \in [Key -> Record \cup {NoRecord}]  BY DEF State
<1>4. r \in State
  <2>1. r.endpoints \in [Key -> Record \cup {NoRecord}]  BY <1>1, <1>3
  <2>2. QED  BY <1>1, <2>1 DEF State
<1>5. r.config # NoConfig  BY <1>1 DEF MapsAgree
<1>6. \A j \in Key : /\ HasEndpoint(r, j) <=> HasEndpoint(s, j)
                     /\ r.endpoints[j].ip = s.endpoints[j].ip
                     /\ r.endpoints[j].config = s.endpoints[j].config
  BY <1>1, <1>2, <1>3 DEF HasEndpoint
<1>7. Used(r) = Used(s)  BY <1>1 DEF Used
<1>8. \A a \in Used(s) : s.allocations[a] \in Key  BY DEF Used, State
<1>9. \A a \in Used(r) : AllocationValid(r, a)
  BY <1>1, <1>6, <1>7, <1>8 DEF AllocationValid, MapsAgree
<1>10. QED  BY <1>1, <1>4, <1>5, <1>6, <1>9 DEF MapsAgree

(* A retried Allocate, MarkPending and MarkReady rewrite a record. *)
LEMMA AllocateExistingAgrees ==
  ASSUME NEW s \in State, MapsAgree(s), NEW k \in Key, HasEndpoint(s, k),
         NEW n \in NetNS, NEW t \in BOOLEAN
  PROVE  LET r == AllocateExisting(s, k, n, t)
         IN  r \in State /\ MapsAgree(r) /\ r.config # NoConfig
<1> DEFINE new == [s.endpoints[k] EXCEPT !.netns = n, !.inOrder = t]
<1>1. s.endpoints[k] \in Record  BY DEF State, HasEndpoint
<1>2. new \in Record /\ new.ip = s.endpoints[k].ip /\ new.config = s.endpoints[k].config
  BY <1>1 DEF Record
<1>3. [s EXCEPT !.endpoints[k].netns = n, !.endpoints[k].inOrder = t]
        = [s EXCEPT !.endpoints[k] = new]
  BY <1>1 DEF State, Record
<1>4. [s EXCEPT !.endpoints[k] = new] \in State
      /\ MapsAgree([s EXCEPT !.endpoints[k] = new])
      /\ [s EXCEPT !.endpoints[k] = new].config # NoConfig
  BY <1>2, RewriteAgrees
<1>5. s.config # NoConfig  BY DEF MapsAgree
<1>6. QED  BY <1>3, <1>4, <1>5 DEF AllocateExisting

LEMMA MarkAgrees ==
  ASSUME NEW s \in State, MapsAgree(s), NEW k \in Key, HasEndpoint(s, k),
         NEW phase \in Phase, NEW t \in BOOLEAN
  PROVE  LET r == MarkResult(s, k, phase, t)
         IN  r \in State /\ MapsAgree(r) /\ r.config # NoConfig
<1> DEFINE new == [s.endpoints[k] EXCEPT !.phase = phase, !.inOrder = t]
<1>1. s.endpoints[k] \in Record  BY DEF State, HasEndpoint
<1>2. new \in Record /\ new.ip = s.endpoints[k].ip /\ new.config = s.endpoints[k].config
  BY <1>1 DEF Record
<1>3. [s EXCEPT !.endpoints[k].phase = phase, !.endpoints[k].inOrder = t]
        = [s EXCEPT !.endpoints[k] = new]
  BY <1>1 DEF State, Record
<1>4. [s EXCEPT !.endpoints[k] = new] \in State
      /\ MapsAgree([s EXCEPT !.endpoints[k] = new])
      /\ [s EXCEPT !.endpoints[k] = new].config # NoConfig
  BY <1>2, RewriteAgrees
<1>5. s.config # NoConfig  BY DEF MapsAgree
<1>6. QED  BY <1>3, <1>4, <1>5 DEF MarkResult

(* Releasing an endpoint keeps the maps in agreement. *)
LEMMA ReleaseAgrees ==
  ASSUME NEW s \in State, MapsAgree(s), NEW k \in Key
  PROVE  LET r == ReleaseResult(s, k)
         IN  r \in State /\ MapsAgree(r) /\ r.config = s.config
             /\ (r # s => r.config # NoConfig)
<1>1. CASE ~HasEndpoint(s, k)  BY <1>1 DEF ReleaseResult
<1>2. CASE HasEndpoint(s, k)
  <2> DEFINE r == ReleaseResult(s, k)
             a == s.endpoints[k].ip
  <2>1. s.endpoints[k] \in Record /\ s.allocations[a] = k /\ s.config # NoConfig
    BY <1>2 DEF State, HasEndpoint, MapsAgree
  <2>2. a \in Addr  BY <2>1 DEF Record
  <2>3. /\ r.config = s.config
        /\ r.endpoints = [s.endpoints EXCEPT ![k] = NoRecord]
        /\ r.allocations = [s.allocations EXCEPT ![a] = NoKey]
    BY <1>2 DEF ReleaseResult, State
  <2>4. s.endpoints \in [Key -> Record \cup {NoRecord}]
        /\ s.allocations \in [Addr -> Key \cup {NoKey}]
    BY DEF State
  <2>5. r \in State
    <3>1. r.endpoints \in [Key -> Record \cup {NoRecord}]  BY <2>3, <2>4
    <3>2. r.allocations \in [Addr -> Key \cup {NoKey}]  BY <2>3, <2>4
    <3>3. QED  BY <1>2, <2>3, <3>1, <3>2 DEF ReleaseResult, State
  <2>6. ASSUME NEW j \in Key, HasEndpoint(r, j)
        PROVE  /\ r.endpoints[j].config = s.config
               /\ r.endpoints[j].ip \in Pool[s.config]
               /\ r.allocations[r.endpoints[j].ip] = j
    <3>1. j # k /\ r.endpoints[j] = s.endpoints[j] /\ HasEndpoint(s, j)
      BY <2>3, <2>4, <2>6 DEF HasEndpoint
    <3>2. /\ s.endpoints[j].config = s.config
          /\ s.endpoints[j].ip \in Pool[s.config]
          /\ s.allocations[s.endpoints[j].ip] = j
      BY <3>1 DEF MapsAgree
    <3>3. s.endpoints[j] \in Record  BY <3>1 DEF State, HasEndpoint
    <3>4. s.endpoints[j].ip \in Addr  BY <3>3 DEF Record
    <3>5. s.endpoints[j].ip # a  BY <2>1, <3>1, <3>2
    <3>6. QED  BY <3>1, <3>2, <3>4, <3>5, <2>3, <2>4
  <2>7. ASSUME NEW b \in Used(r) PROVE AllocationValid(r, b)
    <3>1. b \in Addr /\ b # a /\ r.allocations[b] = s.allocations[b] /\ b \in Used(s)
      BY <2>2, <2>3, <2>4, <2>7 DEF Used
    <3>2. AllocationValid(s, b) /\ s.allocations[b] \in Key
      BY <3>1, <2>4 DEF MapsAgree, Used
    <3>3. s.allocations[b] # k  BY <3>1, <3>2 DEF AllocationValid
    <3>4. QED  BY <3>1, <3>2, <3>3, <2>3, <2>4 DEF AllocationValid, HasEndpoint
  <2>8. QED  BY <2>1, <2>3, <2>5, <2>6, <2>7 DEF MapsAgree
<1>3. QED  BY <1>1, <1>2

-----------------------------------------------------------------------------
(* The inductive invariant. *)
IInv ==
  /\ StoreTypeOK
  /\ CallbackHoldsLock
  /\ CopiesAgree
  /\ DiskValid
  /\ NoLostUpdate

LEMMA StoreInitInv == StoreInit => IInv
<1> SUFFICES ASSUME StoreInit PROVE IInv  OBVIOUS
<1>1. StoreTypeOK  BY EmptyAgrees DEF StoreInit, StoreTypeOK
<1>2. CopiesAgree  BY EmptyAgrees DEF StoreInit, CopiesAgree
<1>3. QED
  BY <1>1, <1>2 DEF StoreInit, IInv, CallbackHoldsLock, DiskValid, NoLostUpdate

(* The state of a file that loads. *)
LEMMA LoadedAgrees ==
  ASSUME IInv, disk # Corrupt
  PROVE  Loaded(disk) \in State /\ MapsAgree(Loaded(disk))
<1>1. CASE disk = Absent  BY <1>1, EmptyAgrees DEF Loaded
<1>2. CASE disk # Absent
  <2>1. disk \in State /\ validatePersistedState(disk)
    BY <1>2 DEF IInv, StoreTypeOK, DiskValid
  <2>2. QED  BY <1>2, <2>1, ValidIsAgreement DEF Loaded
<1>3. QED  BY <1>1, <1>2

(* Ending a callback, in whatever way, leaves an empty copy behind. *)
LEMMA UnlockStep ==
  ASSUME IInv, NEW p \in Proc, unlock(p)
  PROVE  IInv'
<1>1. /\ disk' = disk
      /\ active' = [active EXCEPT ![p] = FALSE]
      /\ mem' = [mem EXCEPT ![p] = newPersistedState]
      /\ dirty' = [dirty EXCEPT ![p] = FALSE]
      /\ lock' = IF lock = p THEN NoProc ELSE lock
  BY DEF unlock
<1>2. StoreTypeOK'  BY <1>1, EmptyAgrees DEF IInv, StoreTypeOK
<1>3. CallbackHoldsLock'
  BY <1>1 DEF IInv, StoreTypeOK, CallbackHoldsLock
<1>4. CopiesAgree'
  BY <1>1, EmptyAgrees DEF IInv, StoreTypeOK, CopiesAgree
<1>5. DiskValid'  BY <1>1 DEF IInv, DiskValid
<1>6. NoLostUpdate'  BY <1>1 DEF IInv, StoreTypeOK, NoLostUpdate
<1>7. QED  BY <1>2, <1>3, <1>4, <1>5, <1>6 DEF IInv

(* An operation on the copy keeps the invariant when its result is a state  *)
(* whose maps agree and that has a configuration once it differs.           *)
LEMMA UpdateStep ==
  ASSUME IInv, NEW p \in Proc, NEW s \in State, MapsAgree(s),
         s # mem[p] => s.config # NoConfig, Update(p, s)
  PROVE  IInv'
<1>1. /\ active[p] /\ UNCHANGED <<lock, disk, active>>
      /\ mem' = [mem EXCEPT ![p] = s]
      /\ dirty' = [dirty EXCEPT ![p] = @ \/ s # mem[p]]
  BY DEF Update
<1>2. StoreTypeOK'
  <2>1. mem' \in [Proc -> State]  BY <1>1 DEF IInv, StoreTypeOK
  <2>2. dirty' \in [Proc -> BOOLEAN]  BY <1>1 DEF IInv, StoreTypeOK
  <2>3. QED  BY <1>1, <2>1, <2>2 DEF IInv, StoreTypeOK
<1>3. CallbackHoldsLock'  BY <1>1 DEF IInv, CallbackHoldsLock
<1>4. CopiesAgree'
  <2>1. ASSUME NEW q \in Proc
        PROVE MapsAgree(mem'[q]) /\ (dirty'[q] => mem'[q].config # NoConfig)
    <3>1. CASE q = p
      <4>1. mem'[q] = s  BY <1>1, <3>1 DEF IInv, StoreTypeOK
      <4>2. dirty'[q] => dirty[p] \/ s # mem[p]
        BY <1>1, <3>1 DEF IInv, StoreTypeOK
      <4>3. dirty[p] => mem[p].config # NoConfig  BY DEF IInv, CopiesAgree
      <4>4. s = mem[p] \/ s.config # NoConfig  OBVIOUS
      <4>5. QED  BY <4>1, <4>2, <4>3, <4>4
    <3>2. CASE q # p
      <4>1. mem'[q] = mem[q] /\ dirty'[q] = dirty[q]
        BY <1>1, <3>2 DEF IInv, StoreTypeOK
      <4>2. QED  BY <4>1 DEF IInv, CopiesAgree
    <3>3. QED  BY <3>1, <3>2
  <2>2. QED  BY <2>1 DEF CopiesAgree
<1>5. DiskValid'  BY <1>1 DEF IInv, DiskValid
<1>6. NoLostUpdate'
  <2>1. ASSUME NEW q \in Proc, active'[q], ~dirty'[q]
        PROVE mem'[q] = Loaded(disk')
    <3>1. CASE q = p
      <4>1. ~dirty[p] /\ s = mem[p]  BY <1>1, <2>1, <3>1 DEF IInv, StoreTypeOK
      <4>2. mem'[q] = mem[p]  BY <1>1, <3>1, <4>1 DEF IInv, StoreTypeOK
      <4>3. QED  BY <1>1, <4>1, <4>2 DEF IInv, NoLostUpdate
    <3>2. CASE q # p
      BY <1>1, <2>1, <3>2 DEF IInv, StoreTypeOK, NoLostUpdate
    <3>3. QED  BY <3>1, <3>2
  <2>2. QED  BY <2>1 DEF NoLostUpdate
<1>7. QED  BY <1>2, <1>3, <1>4, <1>5, <1>6 DEF IInv

(* A commit writes a valid copy of the holder; nobody else has one. *)
LEMMA CommitStep ==
  ASSUME IInv, NEW p \in Proc, CommitWritten(p) \/ CommitRenamed(p)
  PROVE  IInv'
<1>1. /\ active[p] /\ validatePersistedState(mem[p]) /\ disk' = mem[p]
      /\ UNCHANGED <<lock, active, mem>>
      /\ dirty' \in {dirty, [dirty EXCEPT ![p] = FALSE]}
  BY DEF CommitWritten, CommitRenamed, Committable
<1>2. mem[p] \in State  BY DEF IInv, StoreTypeOK
<1>3. StoreTypeOK'  BY <1>1, <1>2 DEF IInv, StoreTypeOK
<1>4. CallbackHoldsLock'  BY <1>1 DEF IInv, CallbackHoldsLock
<1>5. CopiesAgree'
  BY <1>1 DEF IInv, StoreTypeOK, CopiesAgree
<1>6. DiskValid'  BY <1>1 DEF DiskValid
<1>7. NoLostUpdate'
  <2>1. ASSUME NEW q \in Proc, active'[q], ~dirty'[q]
        PROVE mem'[q] = Loaded(disk')
    <3>1. q = p  BY <1>1, <2>1 DEF IInv, CallbackHoldsLock
    <3>2. mem[p] # Absent  BY <1>2, StoreAssumption
    <3>3. QED  BY <1>1, <3>1, <3>2 DEF Loaded
  <2>2. QED  BY <2>1 DEF NoLostUpdate
<1>8. QED  BY <1>3, <1>4, <1>5, <1>6, <1>7 DEF IInv

LEMMA StoreStep == IInv /\ [StoreNext]_storeVars => IInv'
<1> SUFFICES ASSUME IInv, [StoreNext]_storeVars PROVE IInv'  OBVIOUS
<1>1. ASSUME NEW p \in Proc, flockExclusive(p) PROVE IInv'
  <2>1. lock = NoProc /\ lock' = p /\ UNCHANGED <<disk, active, mem, dirty>>
    BY <1>1 DEF flockExclusive, LockFree
  <2>2. \A q \in Proc : ~active[q]
    BY <2>1, StoreAssumption DEF IInv, CallbackHoldsLock
  <2>3. QED
    BY <2>1, <2>2 DEF IInv, StoreTypeOK, CallbackHoldsLock, CopiesAgree,
                      DiskValid, NoLostUpdate
<1>2. ASSUME NEW p \in Proc, loadState(p) PROVE IInv'
  <2>1. /\ lock = p /\ disk # Corrupt /\ UNCHANGED <<lock, disk>>
        /\ active' = [active EXCEPT ![p] = TRUE]
        /\ mem' = [mem EXCEPT ![p] = Loaded(disk)]
        /\ dirty' = [dirty EXCEPT ![p] = FALSE]
    BY <1>2 DEF loadState, Loadable
  <2>2. Loaded(disk) \in State /\ MapsAgree(Loaded(disk))
    BY <2>1, LoadedAgrees
  <2>3. StoreTypeOK'  BY <2>1, <2>2 DEF IInv, StoreTypeOK
  <2>4. CallbackHoldsLock'
    BY <2>1 DEF IInv, StoreTypeOK, CallbackHoldsLock
  <2>5. CopiesAgree'  BY <2>1, <2>2 DEF IInv, StoreTypeOK, CopiesAgree
  <2>6. DiskValid'  BY <2>1 DEF IInv, DiskValid
  <2>7. NoLostUpdate'
    BY <2>1 DEF IInv, StoreTypeOK, NoLostUpdate
  <2>8. QED  BY <2>3, <2>4, <2>5, <2>6, <2>7 DEF IInv
<1>3. ASSUME NEW p \in Proc, Unlock(p) PROVE IInv'
  BY <1>3, UnlockStep DEF Unlock
<1>4. ASSUME NEW p \in Proc, NEW k \in Key, NEW c \in Config, NEW n \in NetNS,
             Allocate(p, k, c, n)
      PROVE IInv'
  <2>1. mem[p] \in State /\ MapsAgree(mem[p])
    BY DEF IInv, StoreTypeOK, CopiesAgree
  <2>2. AllocateAllowed(mem[p], k, c)  BY <1>4 DEF Allocate
  <2>3. PICK t \in Clock : Update(p, AllocateResult(mem[p], k, c, n, t))
    BY <1>4 DEF Allocate
  <2>4. t \in BOOLEAN  BY StoreStateAssumption
  <2>5. CASE HasEndpoint(mem[p], k)
    BY <2>1, <2>3, <2>4, <2>5, AllocateExistingAgrees, UpdateStep DEF AllocateResult
  <2>6. CASE ~HasEndpoint(mem[p], k)
    BY <2>1, <2>2, <2>3, <2>6, AllocateNewAgrees, UpdateStep
    DEF AllocateResult, AllocateAllowed
  <2>7. QED  BY <2>5, <2>6
<1>5. ASSUME NEW p \in Proc, NEW k \in Key, NEW phase \in Phase, MarkPhase(p, k, phase)
      PROVE IInv'
  <2>1. mem[p] \in State /\ MapsAgree(mem[p])
    BY DEF IInv, StoreTypeOK, CopiesAgree
  <2>2. PICK t \in Clock : Update(p, MarkResult(mem[p], k, phase, t))
    BY <1>5 DEF MarkPhase
  <2>3. t \in BOOLEAN /\ HasEndpoint(mem[p], k)
    BY <1>5, StoreStateAssumption DEF MarkPhase
  <2>4. QED  BY <2>1, <2>2, <2>3, MarkAgrees, UpdateStep
<1>6. ASSUME NEW p \in Proc, NEW k \in Key, Release(p, k) PROVE IInv'
  <2>1. mem[p] \in State /\ MapsAgree(mem[p])
    BY DEF IInv, StoreTypeOK, CopiesAgree
  <2>2. QED  BY <1>6, <2>1, ReleaseAgrees, UpdateStep DEF Release
<1>7. ASSUME NEW p \in Proc, CommitWritten(p) \/ CommitRenamed(p) PROVE IInv'
  BY <1>7, CommitStep
<1>8. ASSUME LoseState \/ DamageState PROVE IInv'
  <2>1. /\ lock = NoProc /\ UNCHANGED <<lock, active, mem, dirty>>
        /\ disk' \in {Absent, Corrupt}
    BY <1>8 DEF LoseState, DamageState
  <2>2. \A q \in Proc : ~active[q]
    BY <2>1, StoreAssumption DEF IInv, CallbackHoldsLock
  <2>3. QED
    BY <2>1, <2>2 DEF IInv, StoreTypeOK, CallbackHoldsLock, CopiesAgree,
                      DiskValid, NoLostUpdate
<1>9. CASE UNCHANGED storeVars
  BY <1>9 DEF storeVars, IInv, StoreTypeOK, CallbackHoldsLock, CopiesAgree,
              DiskValid, NoLostUpdate
<1>10. QED
  BY <1>1, <1>2, <1>3, <1>4, <1>5, <1>6, <1>7, <1>8, <1>9 DEF StoreNext, ProcNext

LEMMA StoreInvariant == StoreSpec => []IInv
  BY StoreInitInv, StoreStep, PTL DEF StoreSpec

(* Every variable has its type. *)
THEOREM StoreTypeCorrect == StoreSpec => []StoreTypeOK
<1>1. IInv => StoreTypeOK  BY DEF IInv
<1>2. QED  BY <1>1, StoreInvariant, PTL

(* No commit overwrites a commit its invocation has not seen: a copy        *)
(* without changes of its own is what the file holds (store.go:101-150).    *)
THEOREM LockPreventsLostUpdate == StoreSpec => []NoLostUpdate
<1>1. IInv => NoLostUpdate  BY DEF IInv
<1>2. QED  BY <1>1, StoreInvariant, PTL

(* Neither the file nor any copy ever gives one address to two endpoints    *)
(* (store.go:192-249, 382-402).                                             *)
THEOREM AddressesAreUnique == StoreSpec => []NoDuplicateAddress
<1>1. IInv => NoDuplicateAddress
  <2> SUFFICES ASSUME IInv PROVE NoDuplicateAddress  OBVIOUS
  <2>1. ASSUME disk \notin {Absent, Corrupt} PROVE UniqueAddresses(disk)
    <3>1. disk \in State /\ validatePersistedState(disk)
      BY <2>1 DEF IInv, StoreTypeOK, DiskValid
    <3>2. QED  BY <3>1, ValidIsAgreement, AgreementIsUnique
  <2>2. ASSUME NEW p \in Proc PROVE UniqueAddresses(mem[p])
    <3>1. mem[p] \in State /\ MapsAgree(mem[p])
      BY DEF IInv, StoreTypeOK, CopiesAgree
    <3>2. QED  BY <3>1, AgreementIsUnique
  <2>3. QED  BY <2>1, <2>2 DEF NoDuplicateAddress
<1>2. QED  BY <1>1, StoreInvariant, PTL

(* Only a clock that stepped back makes Commit refuse a copy: no sequence   *)
(* of operations drives the two maps apart (store.go:172-188).              *)
THEOREM CommitRefusesOnlyClock == StoreSpec => []OnlyClockRefuses
<1>1. IInv => OnlyClockRefuses
  <2> SUFFICES ASSUME IInv, NEW p \in Proc, dirty[p], TimesInOrder(mem[p])
               PROVE validatePersistedState(mem[p])
    BY DEF OnlyClockRefuses
  <2>1. mem[p] \in State /\ MapsAgree(mem[p]) /\ mem[p].config # NoConfig
    BY DEF IInv, StoreTypeOK, CopiesAgree
  <2>2. QED  BY <2>1, ValidIsAgreement
<1>2. QED  BY <1>1, StoreInvariant, PTL
-----------------------------------------------------------------------------
(* No operation changes the configuration of a copy that has one. *)
LEMMA ConfigKept ==
  ASSUME NEW s \in State, s.config # NoConfig, NEW k \in Key, NEW t \in BOOLEAN
  PROVE  /\ \A c \in Config, n \in NetNS : AllocateAllowed(s, k, c)
              => AllocateResult(s, k, c, n, t).config = s.config
         /\ \A phase \in Phase : MarkResult(s, k, phase, t).config = s.config
         /\ ReleaseResult(s, k).config = s.config
<1>1. ASSUME NEW c \in Config, NEW n \in NetNS, AllocateAllowed(s, k, c)
      PROVE  AllocateResult(s, k, c, n, t).config = s.config
  <2>1. s.config = c  BY <1>1 DEF AllocateAllowed, ConfigMatches
  <2>2. AllocateNew(s, k, c, n).config = c  BY DEF AllocateNew, State
  <2>3. AllocateExisting(s, k, n, t).config = s.config
    BY DEF AllocateExisting, State
  <2>4. QED  BY <2>1, <2>2, <2>3 DEF AllocateResult
<1>2. ASSUME NEW phase \in Phase PROVE MarkResult(s, k, phase, t).config = s.config
  BY DEF MarkResult, State
<1>3. ReleaseResult(s, k).config = s.config  BY DEF ReleaseResult, State
<1>4. QED  BY <1>1, <1>2, <1>3

(* An operation on a copy keeps it in step with the file. *)
LEMMA UpdateFollows ==
  ASSUME IInv, CopyFollowsFile, NEW p \in Proc, NEW s, Update(p, s),
         mem[p].config # NoConfig => s.config = mem[p].config
  PROVE  CopyFollowsFile'
<1>1. /\ active[p] /\ UNCHANGED <<lock, disk, active>>
      /\ mem' = [mem EXCEPT ![p] = s]
  BY DEF Update
<1>2. ASSUME NEW q \in Proc, active'[q]
      PROVE  disk' # Corrupt /\ (disk' # Absent => mem'[q].config = disk'.config)
  <2>1. disk # Corrupt /\ (disk # Absent => mem[q].config = disk.config)
    BY <1>1, <1>2 DEF CopyFollowsFile
  <2>2. CASE q # p  BY <1>1, <2>1, <2>2 DEF IInv, StoreTypeOK
  <2>3. CASE q = p
    <3>1. mem'[q] = s  BY <1>1, <2>3 DEF IInv, StoreTypeOK
    <3>2. disk # Absent => disk.config # NoConfig
      BY <2>1 DEF IInv, DiskValid, validatePersistedState
    <3>3. QED  BY <1>1, <2>1, <2>3, <3>1, <3>2
  <2>4. QED  BY <2>2, <2>3
<1>3. QED  BY <1>2 DEF CopyFollowsFile

LEMMA FollowsStep ==
  IInv /\ CopyFollowsFile /\ [StoreNext]_storeVars => CopyFollowsFile'
<1> SUFFICES ASSUME IInv, CopyFollowsFile, [StoreNext]_storeVars
             PROVE  CopyFollowsFile'
  OBVIOUS
<1>1. ASSUME NEW p \in Proc, flockExclusive(p) PROVE CopyFollowsFile'
  BY <1>1 DEF flockExclusive, CopyFollowsFile
<1>2. ASSUME NEW p \in Proc, loadState(p) PROVE CopyFollowsFile'
  <2>1. /\ lock = p /\ disk # Corrupt /\ UNCHANGED <<lock, disk>>
        /\ active' = [active EXCEPT ![p] = TRUE]
        /\ mem' = [mem EXCEPT ![p] = Loaded(disk)]
    BY <1>2 DEF loadState, Loadable
  <2>2. ASSUME NEW q \in Proc, active'[q]
        PROVE  disk' # Corrupt /\ (disk' # Absent => mem'[q].config = disk'.config)
    <3>1. CASE q = p  BY <2>1, <3>1 DEF IInv, StoreTypeOK, Loaded
    <3>2. CASE q # p  BY <2>1, <2>2, <3>2 DEF IInv, StoreTypeOK, CopyFollowsFile
    <3>3. QED  BY <3>1, <3>2
  <2>3. QED  BY <2>2 DEF CopyFollowsFile
<1>3. ASSUME NEW p \in Proc, Unlock(p) PROVE CopyFollowsFile'
  <2>1. /\ active' = [active EXCEPT ![p] = FALSE] /\ UNCHANGED disk
        /\ mem' = [mem EXCEPT ![p] = newPersistedState]
    BY <1>3 DEF Unlock, unlock
  <2>2. QED  BY <2>1 DEF IInv, StoreTypeOK, CopyFollowsFile
<1>4. ASSUME NEW p \in Proc, NEW k \in Key, NEW c \in Config, NEW n \in NetNS,
             Allocate(p, k, c, n)
      PROVE CopyFollowsFile'
  <2>1. AllocateAllowed(mem[p], k, c)  BY <1>4 DEF Allocate
  <2>2. PICK t \in Clock : Update(p, AllocateResult(mem[p], k, c, n, t))
    BY <1>4 DEF Allocate
  <2>3. t \in BOOLEAN /\ mem[p] \in State
    BY StoreStateAssumption DEF IInv, StoreTypeOK
  <2>4. mem[p].config # NoConfig
          => AllocateResult(mem[p], k, c, n, t).config = mem[p].config
    BY <2>1, <2>3, ConfigKept
  <2>5. QED  BY <2>2, <2>4, UpdateFollows
<1>5. ASSUME NEW p \in Proc, NEW k \in Key, NEW phase \in Phase, MarkPhase(p, k, phase)
      PROVE CopyFollowsFile'
  <2>1. PICK t \in Clock : Update(p, MarkResult(mem[p], k, phase, t))
    BY <1>5 DEF MarkPhase
  <2>2. t \in BOOLEAN /\ mem[p] \in State
    BY StoreStateAssumption DEF IInv, StoreTypeOK
  <2>3. mem[p].config # NoConfig => MarkResult(mem[p], k, phase, t).config = mem[p].config
    BY <2>2, ConfigKept
  <2>4. QED  BY <2>1, <2>3, UpdateFollows
<1>6. ASSUME NEW p \in Proc, NEW k \in Key, Release(p, k) PROVE CopyFollowsFile'
  <2>1. Update(p, ReleaseResult(mem[p], k)) /\ mem[p] \in State
    BY <1>6 DEF Release, IInv, StoreTypeOK
  <2>2. mem[p].config # NoConfig => ReleaseResult(mem[p], k).config = mem[p].config
    BY <2>1, ConfigKept
  <2>3. QED  BY <2>1, <2>2, UpdateFollows
<1>7. ASSUME NEW p \in Proc, CommitWritten(p) \/ CommitRenamed(p) PROVE CopyFollowsFile'
  <2>1. active[p] /\ disk' = mem[p] /\ UNCHANGED <<active, mem>>
    BY <1>7 DEF CommitWritten, CommitRenamed
  <2>2. mem[p] # Corrupt  BY StoreAssumption DEF IInv, StoreTypeOK
  <2>3. \A q \in Proc : active[q] => q = p  BY <2>1 DEF IInv, CallbackHoldsLock
  <2>4. QED  BY <2>1, <2>2, <2>3 DEF CopyFollowsFile
<1>8. ASSUME LoseState \/ DamageState PROVE CopyFollowsFile'
  <2>1. lock = NoProc /\ UNCHANGED active  BY <1>8 DEF LoseState, DamageState
  <2>2. \A q \in Proc : ~active[q]
    BY <2>1, StoreAssumption DEF IInv, CallbackHoldsLock
  <2>3. QED  BY <2>1, <2>2 DEF CopyFollowsFile
<1>9. CASE UNCHANGED storeVars
  BY <1>9 DEF storeVars, CopyFollowsFile
<1>10. QED
  BY <1>1, <1>2, <1>3, <1>4, <1>5, <1>6, <1>7, <1>8, <1>9 DEF StoreNext, ProcNext

LEMMA StoreFollows == StoreSpec => [](IInv /\ CopyFollowsFile)
<1>1. StoreInit => IInv /\ CopyFollowsFile
  <2>1. StoreInit => CopyFollowsFile  BY DEF StoreInit, CopyFollowsFile
  <2>2. QED  BY <2>1, StoreInitInv
<1>2. QED  BY <1>1, StoreStep, FollowsStep, PTL DEF StoreSpec

(* Only the two commits and the world outside change the file. *)
LEMMA WhoWrites ==
  ASSUME StoreNext, disk' # disk
  PROVE  \/ \E p \in Proc : active[p] /\ disk' = mem[p]
         \/ disk' \in {Absent, Corrupt}
<1>1. ASSUME NEW p \in Proc, ProcNext(p), disk' # disk
      PROVE  active[p] /\ disk' = mem[p]
  BY <1>1 DEF ProcNext, flockExclusive, loadState, Unlock, unlock, Allocate, MarkPhase,
              Release, Update, CommitRenamed, CommitWritten
<1>2. LoseState \/ DamageState => disk' \in {Absent, Corrupt}
  BY DEF LoseState, DamageState
<1>3. QED  BY <1>1, <1>2 DEF StoreNext

(* A damaged file is never replaced by an invocation (state.go:83-114).     *)
THEOREM DamageStays == StoreSpec => DamageIsKept
<1>1. ASSUME CopyFollowsFile, [StoreNext]_storeVars, disk = Corrupt
      PROVE  disk' \in {Corrupt, Absent}
  <2>1. \A p \in Proc : ~active[p]  BY <1>1 DEF CopyFollowsFile
  <2>2. CASE StoreNext  BY <1>1, <2>1, <2>2, WhoWrites
  <2>3. CASE UNCHANGED storeVars  BY <1>1, <2>3 DEF storeVars
  <2>4. QED  BY <1>1, <2>2, <2>3
<1>2. CopyFollowsFile /\ [StoreNext]_storeVars
        => [disk = Corrupt => disk' \in {Corrupt, Absent}]_storeVars
  BY <1>1
<1>3. QED  BY <1>2, StoreFollows, PTL DEF StoreSpec, DamageIsKept

(* The configuration of a network never changes once it is on disk          *)
(* (store.go:192-249, state.go:61-63).                                      *)
THEOREM ConfigStays == StoreSpec => ConfigIsSticky
<1>1. ASSUME CopyFollowsFile, [StoreNext]_storeVars,
             {disk, disk'} \cap {Absent, Corrupt} = {}
      PROVE  disk'.config = disk.config
  <2>1. CASE StoreNext /\ disk' # disk
    <3>1. PICK p \in Proc : active[p] /\ disk' = mem[p]
      BY <1>1, <2>1, WhoWrites
    <3>2. QED  BY <1>1, <3>1 DEF CopyFollowsFile
  <2>2. CASE UNCHANGED storeVars  BY <2>2 DEF storeVars
  <2>3. QED  BY <1>1, <2>1, <2>2
<1>2. CopyFollowsFile /\ [StoreNext]_storeVars
        => [{disk, disk'} \cap {Absent, Corrupt} = {} => disk'.config = disk.config]_storeVars
  BY <1>1
<1>3. QED  BY <1>2, StoreFollows, PTL DEF StoreSpec, ConfigIsSticky
=============================================================================
