----------------------------- MODULE RangeScan -----------------------------
(***************************************************************************)
(* Range.NextAvailable, one loop iteration per step: the scan from start   *)
(* to end that hands out the lowest usable address nobody holds.           *)
(***************************************************************************)
EXTENDS Validation

CONSTANTS Searching, Exhausted

ASSUME ScanAssumption == {Searching, Exhausted} \cap (Int \cup {NoAddr}) = {}
                         /\ Searching # Exhausted

VARIABLES
  range,     \* the receiver, a Range that NewRange built
  used,      \* the addresses the persisted state has given out
  addr,      \* the loop variable
  result     \* Searching, then the address returned or Exhausted

scanVars == <<range, used, addr, result>>

(* The callers pass the allocations of a state that was loaded under the   *)
(* same range, so every used address is usable.                            *)
Init ==
  /\ range \in {r \in Range_ : NewRangeAccepts(r)}
  /\ used \in SUBSET Usable(range)
  /\ addr = range.start
  /\ result = Searching

(* A mistake: a loop that stops at the zero Addr only. *)
AtEndNever(a) == a = NoAddr /\ a = range.end

AtEnd(a) == a = range.end

Free(a) == Contains(range, a) /\ a \notin used

Take ==
  /\ result = Searching
  /\ Free(addr)
  /\ result' = addr
  /\ UNCHANGED <<range, used, addr>>

Advance ==
  /\ result = Searching
  /\ ~Free(addr) /\ ~AtEnd(addr)
  /\ addr' = NextAddr(addr)
  /\ UNCHANGED <<range, used, result>>

Exhaust ==
  /\ result = Searching
  /\ ~Free(addr) /\ AtEnd(addr)
  /\ result' = Exhausted
  /\ UNCHANGED <<range, used, addr>>

Next == Take \/ Advance \/ Exhaust

Spec == Init /\ [][Next]_scanVars

(* The loop body runs until it returns: nothing in it waits. *)
FairSpec == Spec /\ WF_scanVars(Next)
-----------------------------------------------------------------------------
(* The loop variable is always an address: Next() past the last one, which *)
(* netip reports as the zero Addr, is never scanned (range.go:156-168).    *)
ScanTypeOK ==
  /\ range \in Range_ /\ NewRangeAccepts(range)
  /\ used \subseteq Usable(range)
  /\ addr \in Address
  /\ result \in Address \cup {Searching, Exhausted}

Passed == range.start .. (addr - 1)

(* The scan never leaves start..end, and everything it has passed is held  *)
(* by someone or reserved: the loop invariant of range.go:156-168.         *)
ScanInvariant ==
  /\ addr \in range.start .. range.end
  /\ \A a \in Passed : ~Free(a)

(* NextAvailable returns the lowest usable address that nobody holds, it   *)
(* is never a reserved address (a reserved one inside start..end is passed *)
(* over), and exhaustion means that every usable address is held.          *)
ScanCorrect ==
  /\ result \in Address =>
       /\ result = LowestFree(range, used)
       /\ result \in (range.start .. range.end) \ used
       /\ result \notin {range.subnet.addr, Broadcast(range.subnet), range.gateway}
  /\ result = Exhausted => Usable(range) \subseteq used

(* The scan ends, also when the range reaches the highest address, where   *)
(* the successor of the loop variable is no address at all.                *)
ScanTerminates == <>(result # Searching)

(* The three computations of the broadcast address agree, also for the     *)
(* subnet 0.0.0.0/0, where each treats the shift by the full width in its  *)
(* own way (validate.go:195, range.go:178-181, types.go:193-198).          *)
BroadcastsAgree ==
  LET p == range.subnet
  IN  /\ lastIPv4(p) = Broadcast(p) /\ ipv4Broadcast(p) = Broadcast(p)
      /\ \A a \in Address : isIPv4Broadcast(a, p) <=> a = Broadcast(p)

(* A network over this subnet that the configuration accepts is accepted   *)
(* by the later layers, and every address from rangeStart to rangeEnd is a *)
(* usable one: the scan has nothing to pass over (validate.go:83-152).     *)
ConfiguredPoolIsWhole ==
  \A g, s, e \in Address :
    LET r == [subnet |-> range.subnet, gateway |-> g, start |-> s, end |-> e]
    IN  ConfigAccepts(r) =>
          NewRangeAccepts(r) /\ BridgeAccepts(r) /\ Usable(r) = s .. e

(* An address the scan returns passes every later check of the ADD that    *)
(* asked for it: the endpoint it configures is valid, and so is the record *)
(* in the file, which has been committed by then and would otherwise be    *)
(* taken for damage by the next load (types.go:85, endpoint/state.go:163). *)
LayersAgree ==
  result \in Address =>
    /\ BridgeAccepts(range)
    /\ EndpointAccepts(range, result) /\ RecordAccepts(range, result)
=============================================================================
