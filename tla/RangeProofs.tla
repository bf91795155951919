---------------------------- MODULE RangeProofs ----------------------------
(***************************************************************************)
(* The scan of NextAvailable is correct for every address width, range and *)
(* set of held addresses.                                                  *)
(***************************************************************************)
EXTENDS RangeScan, TLAPS

(* The minimum of a set of integers with a least element is that element.  *)
LEMMA MinIsLeast ==
  ASSUME NEW S \in SUBSET Int, NEW m \in S, \A x \in S : m <= x
  PROVE  Min(S) = m
<1>1. \A y \in S : (\A x \in S : y <= x) => y = m  OBVIOUS
<1>2. QED  BY <1>1 DEF Min

(* Addresses are integers. *)
LEMMA AddressIsInt == Address \subseteq Int
  BY PowersOfTwo DEF Address

(* Every usable address lies between start and end and is not reserved.    *)
LEMMA UsableBounds ==
  ASSUME NEW r \in Range_, NEW a \in Usable(r)
  PROVE  /\ a \in r.start .. r.end
         /\ a \notin {r.subnet.addr, Broadcast(r.subnet), r.gateway}
<1>1. r.start \in Int /\ r.end \in Int  BY AddressIsInt DEF Range_
<1>2. a \in Int  BY AddressIsInt DEF Usable
<1>3. QED  BY <1>1, <1>2 DEF Usable, Contains

(* An address between start and end that is not the last one has a         *)
(* successor that is an address, still at most end.                        *)
LEMMA NextInRange ==
  ASSUME NEW r \in Range_, NEW a \in r.start .. r.end, a # r.end
  PROVE  NextAddr(a) = a + 1 /\ a + 1 \in r.start .. r.end
<1>2. r.start \in Address /\ r.end \in Address  BY DEF Range_
<1>3. r.start \in Int /\ r.end \in Int  BY <1>2, AddressIsInt
<1>4. a \in Int /\ r.start <= a /\ a + 1 <= r.end  BY <1>3
<1> DEFINE top == 2^W - 1
<1>5. Address = 0 .. top /\ top \in Int  BY PowersOfTwo DEF Address
<1> HIDE DEF top
<1>6. a \in 0 .. top /\ a + 1 \in 0 .. top  BY <1>2, <1>3, <1>4, <1>5
<1>7. QED  BY <1>3, <1>4, <1>5, <1>6 DEF NextAddr

(* Outside the distinguished values an address is a result of its own.     *)
LEMMA ResultsDistinct ==
  Searching \notin Address /\ Exhausted \notin Address /\ Searching # Exhausted
  BY ScanAssumption, AddressIsInt

IInv == ScanTypeOK /\ ScanInvariant /\ ScanCorrect
        /\ (result = Exhausted => addr = range.end /\ ~Free(addr))

LEMMA ScanInit == Init => IInv
<1> SUFFICES ASSUME Init PROVE IInv  OBVIOUS
<1>1. range \in Range_ /\ NewRangeAccepts(range)  BY DEF Init
<1>2. range.start \in Address /\ range.end \in Address /\ range.start <= range.end
  BY <1>1 DEF Range_, NewRangeAccepts
<1>3. range.start \in Int /\ range.end \in Int  BY <1>2, AddressIsInt
<1>4. ScanTypeOK  BY <1>1, <1>2 DEF Init, ScanTypeOK
<1>5. ScanInvariant
  <2>1. addr \in range.start .. range.end  BY <1>2, <1>3 DEF Init
  <2>2. Passed = {}  BY <1>3 DEF Init, Passed
  <2>3. QED  BY <2>1, <2>2 DEF ScanInvariant
<1>6. ScanCorrect /\ result # Exhausted
  BY ResultsDistinct DEF Init, ScanCorrect
<1>7. QED  BY <1>4, <1>5, <1>6 DEF IInv

(* What the scan returns is the least element of the usable free set.      *)
LEMMA TakeIsLowest ==
  ASSUME IInv, Free(addr)
  PROVE  /\ addr = LowestFree(range, used)
         /\ addr \in (range.start .. range.end) \ used
         /\ addr \notin {range.subnet.addr, Broadcast(range.subnet), range.gateway}
<1> DEFINE S == Usable(range) \ used
<1>1. range \in Range_ /\ addr \in Address  BY DEF IInv, ScanTypeOK
<1>2. addr \in S  BY <1>1 DEF Free, Usable
<1>3. S \in SUBSET Int  BY AddressIsInt DEF Usable
<1>4. ASSUME NEW x \in S PROVE addr <= x
  <2>1. x \in range.start .. range.end  BY <1>1, UsableBounds
  <2>2. Free(x)  BY DEF Usable, Free
  <2>3. x \notin Passed  BY <2>2 DEF IInv, ScanInvariant
  <2>4. addr \in Int /\ x \in Int /\ range.start \in Int /\ range.start <= x
    <3>1. range.start \in Int /\ range.end \in Int  BY <1>1, AddressIsInt DEF Range_
    <3>2. QED  BY <1>1, <1>3, <2>1, <3>1, AddressIsInt
  <2>5. QED  BY <2>3, <2>4 DEF Passed
<1>5. addr = Min(S)  BY <1>2, <1>3, <1>4, MinIsLeast
<1>6. QED  BY <1>1, <1>2, <1>5, UsableBounds DEF LowestFree

(* When the last address is not free either, nothing usable is.            *)
LEMMA ExhaustIsFull ==
  ASSUME IInv, ~Free(addr), AtEnd(addr)
  PROVE  Usable(range) \subseteq used
<1> SUFFICES ASSUME NEW x \in Usable(range), x \notin used PROVE FALSE  OBVIOUS
<1>1. range \in Range_ /\ addr \in Address  BY DEF IInv, ScanTypeOK
<1>2. x \in range.start .. range.end  BY <1>1, UsableBounds
<1>3. Free(x)  BY DEF Usable, Free
<1>4. x \notin Passed /\ x # addr  BY <1>3 DEF IInv, ScanInvariant
<1>5. x \in Int /\ range.start \in Int /\ addr = range.end /\ addr \in Int
  BY <1>1, <1>2, AddressIsInt DEF AtEnd, Range_
<1>6. QED  BY <1>2, <1>4, <1>5 DEF Passed

LEMMA ScanStep == IInv /\ [Next]_scanVars => IInv'
<1> SUFFICES ASSUME IInv, [Next]_scanVars PROVE IInv'  OBVIOUS
<1>1. CASE Take
  <2>1. UNCHANGED <<range, used, addr>> /\ result' = addr /\ Free(addr)  BY <1>1 DEF Take
  <2>2. addr \in Address  BY DEF IInv, ScanTypeOK
  <2>3. ScanTypeOK'  BY <2>1, <2>2 DEF IInv, ScanTypeOK
  <2>4. ScanInvariant'  BY <2>1 DEF IInv, ScanInvariant, Passed, Free
  <2>5. ScanCorrect'
    BY <2>1, <2>2, TakeIsLowest, ResultsDistinct DEF ScanCorrect
  <2>6. QED  BY <2>1, <2>2, <2>3, <2>4, <2>5, ResultsDistinct DEF IInv
<1>2. CASE Advance
  <2>1. UNCHANGED <<range, used, result>> /\ addr' = NextAddr(addr)
        /\ ~Free(addr) /\ addr # range.end /\ result = Searching
    BY <1>2 DEF Advance, AtEnd
  <2>2. range \in Range_ /\ addr \in range.start .. range.end
    BY DEF IInv, ScanTypeOK, ScanInvariant
  <2>3. addr' = addr + 1 /\ addr' \in range.start .. range.end
    BY <2>1, <2>2, NextInRange
  <2>4. range.start \in Int /\ addr \in Int
    <3>1. range.start \in Int /\ range.end \in Int  BY <2>2, AddressIsInt DEF Range_
    <3>2. QED  BY <2>2, <3>1
  <2>5. addr' \in Address
    <3>1. NextAddr(addr) \in Address
      <4>1. addr + 1 \in Int  BY <2>4
      <4>2. NextAddr(addr) # NoAddr  BY <2>1, <2>3, <4>1, RangeAssumption
      <4>3. QED  BY <2>1, <2>3, <4>2 DEF NextAddr
    <3>2. QED  BY <2>1, <3>1
  <2>6. ScanTypeOK'  BY <2>1, <2>5 DEF IInv, ScanTypeOK
  <2>7. ScanInvariant'
    <3>1. ASSUME NEW a \in Passed' PROVE ~Free(a)
      <4>1. a \in Passed \/ a = addr  BY <2>1, <2>3, <2>4 DEF Passed
      <4>2. QED  BY <4>1, <2>1 DEF IInv, ScanInvariant
    <3>2. QED  BY <2>1, <2>3, <3>1 DEF ScanInvariant, Free
  <2>8. ScanCorrect' /\ result' # Exhausted  BY <2>1, ResultsDistinct DEF ScanCorrect
  <2>9. QED  BY <2>6, <2>7, <2>8 DEF IInv
<1>3. CASE Exhaust
  <2>1. UNCHANGED <<range, used, addr>> /\ result' = Exhausted
        /\ ~Free(addr) /\ AtEnd(addr)
    BY <1>3 DEF Exhaust
  <2>2. ScanTypeOK'  BY <2>1 DEF IInv, ScanTypeOK
  <2>3. ScanInvariant'  BY <2>1 DEF IInv, ScanInvariant, Passed, Free
  <2>4. ScanCorrect'
    BY <2>1, ExhaustIsFull, ResultsDistinct DEF ScanCorrect
  <2>5. QED  BY <2>1, <2>2, <2>3, <2>4 DEF IInv, AtEnd, Free
<1>4. CASE UNCHANGED scanVars
  BY <1>4 DEF scanVars, IInv, ScanTypeOK, ScanInvariant, ScanCorrect, Passed, Free
<1>5. QED  BY <1>1, <1>2, <1>3, <1>4 DEF Next

(* NextAvailable hands out the lowest free usable address, never a         *)
(* reserved one, and reports exhaustion only of a full range, for every    *)
(* address width, range and set of held addresses (range.go:152-170).      *)
THEOREM ScanIsCorrect == Spec => []ScanCorrect
<1>1. Init => IInv  BY ScanInit
<1>2. IInv /\ [Next]_scanVars => IInv'  BY ScanStep
<1>3. IInv => ScanCorrect  BY DEF IInv
<1>4. QED  BY <1>1, <1>2, <1>3, PTL DEF Spec

(* The loop variable is an address at every iteration: the scan never      *)
(* takes the successor of the highest address for one (range.go:156-168).  *)
THEOREM ScanTypeCorrect == Spec => []ScanTypeOK
<1>1. Init => IInv  BY ScanInit
<1>2. IInv /\ [Next]_scanVars => IInv'  BY ScanStep
<1>3. IInv => ScanTypeOK  BY DEF IInv
<1>4. QED  BY <1>1, <1>2, <1>3, PTL DEF Spec

(* The scan stays between start and end, and everything it has passed is   *)
(* held or reserved: the loop invariant of NextAvailable (range.go:156).   *)
THEOREM ScanStaysInRange == Spec => []ScanInvariant
<1>1. Init => IInv  BY ScanInit
<1>2. IInv /\ [Next]_scanVars => IInv'  BY ScanStep
<1>3. IInv => ScanInvariant  BY DEF IInv
<1>4. QED  BY <1>1, <1>2, <1>3, PTL DEF Spec

-----------------------------------------------------------------------------
(* What the three computations of the broadcast address have in common: the *)
(* arithmetic of a prefix, of which both factors of 2^W are positive.       *)
LEMMA DivideUnique ==
  ASSUME NEW m \in Nat \ {0}, NEW q \in Int, NEW r \in 0 .. (m - 1)
  PROVE  (q * m + r) % m = r /\ (q * m + r) \div m = q
<1> DEFINE x == q * m + r
           d == x \div m
<1>1. x \in Int /\ d \in Int /\ x = d * m + (x % m) /\ x % m \in 0 .. (m - 1)
  OBVIOUS
<1>2. (q - d) * m = (x % m) - r  BY <1>1
<1>3. (q - d) * m < m /\ (q - d) * m > -m  BY <1>1, <1>2
<1>4. q - d < 1 /\ q - d > -1  BY <1>1, <1>3
<1>5. q = d  BY <1>1, <1>4
<1>6. QED  BY <1>1, <1>5

(* The block of a prefix and its complement. *)
LEMMA BlockFacts ==
  ASSUME NEW p \in Prefix
  PROVE  /\ Block(p) \in Nat \ {0} /\ 2^p.bits \in Nat \ {0}
         /\ Block(p) * 2^p.bits = 2^W /\ 2^W \in Nat \ {0}
         /\ p.addr \in 0 .. (2^W - 1) /\ Block(p) <= 2^W
<1> DEFINE B == 2^(W - p.bits)
           C == 2^p.bits
           T == 2^W
<1>1. p.bits \in 0 .. W /\ p.addr \in 0 .. (T - 1)  BY DEF Prefix, Address
<1>2. B \in Nat \ {0} /\ C \in Nat \ {0} /\ B * C = T /\ T \in Nat  BY <1>1, PowersOfTwo
<1> HIDE DEF B, C, T
<1>3. T \in Nat \ {0} /\ B <= T  BY <1>2
<1>4. QED  BY <1>1, <1>2, <1>3 DEF B, C, T, Block

(* The network address of a prefix is a multiple of its block, and so the   *)
(* address of each other prefix that shares block and length.               *)
LEMMA MaskedFacts ==
  ASSUME NEW p \in Prefix
  PROVE  /\ Masked(p).addr = p.addr - (p.addr % Block(p)) /\ Masked(p).bits = p.bits
         /\ Block(Masked(p)) = Block(p) /\ Masked(p).addr \in Nat
         /\ p = Masked(p) => \E q \in Int : p.addr = q * Block(p)
<1> DEFINE B == Block(p)
           m == p.addr - (p.addr % B)
<1>1. Masked(p).addr = m /\ Masked(p).bits = p.bits  BY DEF Masked, Prefix
<1>2. Block(Masked(p)) = B  BY <1>1 DEF Block
<1>3. B \in Nat \ {0} /\ p.addr \in Nat  BY BlockFacts
<1> HIDE DEF B
<1>4. /\ m \in Nat /\ p.addr \div B \in Int
      /\ p.addr = (p.addr \div B) * B + (p.addr % B)
  <2> DEFINE a == p.addr
  <2>1. a \in Nat  BY <1>3
  <2> HIDE DEF a
  <2>2. /\ a \div B \in Int /\ a = (a \div B) * B + (a % B)
        /\ a % B \in Int /\ a % B <= a
    BY <1>3, <2>1
  <2>3. QED  BY <2>1, <2>2 DEF a
<1>5. ASSUME p = Masked(p) PROVE \E q \in Int : p.addr = q * B
  <2>1. p.addr = m  BY <1>1, <1>5
  <2>2. p.addr = (p.addr \div B) * B  BY <1>3, <1>4, <2>1
  <2>3. QED  BY <1>4, <2>2
<1>6. QED  BY <1>1, <1>2, <1>4, <1>5 DEF B

(* The three ways to the host bits of a prefix: each yields Block - 1.      *)
LEMMA HostBits ==
  ASSUME NEW p \in Prefix
  PROVE  /\ (ShiftLeft(1, W - p.bits) - 1) % 2^W = Block(p) - 1
         /\ Ones - (IF p.bits > 0 THEN ShiftLeft(Ones, W - p.bits) ELSE 0) = Block(p) - 1
         /\ (IF p.bits = 0 THEN Ones ELSE Ones \div 2^p.bits) = Block(p) - 1
<1> DEFINE B == 2^(W - p.bits)
           C == 2^p.bits
           T == 2^W
<1>1. /\ B \in Nat \ {0} /\ C \in Nat \ {0} /\ B * C = T /\ T \in Nat \ {0} /\ B <= T
      /\ Block(p) = B /\ p.bits \in 0 .. W
  BY BlockFacts DEF Block, Prefix
<1>2. p.bits = 0 => B = T
  BY PowersOfTwo, RangeAssumption
<1> HIDE DEF B, C, T
<1>3. (((1 * B) % T) - 1) % T = B - 1
  <2>1. CASE B = T
    <3>1. B = 1 * T + 0 /\ -1 = (-1) * T + (T - 1)  BY <1>1, <2>1
    <3>2. B % T = 0  BY <1>1, <3>1, DivideUnique
    <3>3. (-1) % T = T - 1
      <4>1. T - 1 \in 0 .. (T - 1) /\ -1 \in Int  BY <1>1
      <4>2. ((-1) * T + (T - 1)) % T = T - 1  BY <1>1, <4>1, DivideUnique
      <4>3. QED  BY <3>1, <4>2
    <3>4. QED  BY <1>1, <2>1, <3>2, <3>3
  <2>2. CASE B < T
    <3>1. ASSUME NEW x \in 0 .. (T - 1) PROVE x % T = x
      <4>1. (0 * T + x) % T = x  BY <1>1, DivideUnique
      <4>2. QED  BY <1>1, <4>1
    <3>2. B \in 0 .. (T - 1) /\ B - 1 \in 0 .. (T - 1) /\ 1 * B = B  BY <1>1, <2>2
    <3>3. QED  BY <3>1, <3>2
  <2>3. QED  BY <1>1, <2>1, <2>2
<1>4. ((T - 1) * B) % T = T - B
  <2>1. (T - 1) * B = (B - 1) * T + (T - B)  BY <1>1
  <2>2. T - B \in 0 .. (T - 1) /\ B - 1 \in Int  BY <1>1
  <2>3. ((B - 1) * T + (T - B)) % T = T - B  BY <1>1, <2>2, DivideUnique
  <2>4. QED  BY <2>1, <2>3
<1>5. (T - 1) \div C = B - 1
  <2>1. T - 1 = (B - 1) * C + (C - 1)  BY <1>1
  <2>2. C - 1 \in 0 .. (C - 1) /\ B - 1 \in Int  BY <1>1
  <2>3. ((B - 1) * C + (C - 1)) \div C = B - 1  BY <1>1, <2>2, DivideUnique
  <2>4. QED  BY <2>1, <2>3
<1>6. (T - 1) - (T - B) = B - 1  BY <1>1
<1>7. /\ ShiftLeft(1, W - p.bits) = (1 * B) % T
      /\ ShiftLeft(Ones, W - p.bits) = ((T - 1) * B) % T
      /\ Ones = T - 1 /\ Ones \div 2^p.bits = (T - 1) \div C /\ 2^W = T
  BY DEF ShiftLeft, Ones, B, C, T
<1>8. (ShiftLeft(1, W - p.bits) - 1) % 2^W = B - 1  BY <1>3, <1>7
<1>9. Ones - (IF p.bits > 0 THEN ShiftLeft(Ones, W - p.bits) ELSE 0) = B - 1
  <2>1. CASE p.bits > 0  BY <1>4, <1>6, <1>7, <2>1
  <2>2. CASE ~(p.bits > 0)
    <3>1. p.bits = 0  BY <1>1, <2>2
    <3>2. T - 1 - 0 = B - 1  BY <1>1, <1>2, <3>1
    <3>3. QED  BY <1>7, <2>2, <3>2
  <2>3. QED  BY <2>1, <2>2
<1>10. (IF p.bits = 0 THEN Ones ELSE Ones \div 2^p.bits) = B - 1
  BY <1>2, <1>5, <1>7
<1>11. QED  BY <1>1, <1>8, <1>9, <1>10

(* So all three agree with the last address of the block.                   *)
LEMMA BroadcastIsLast ==
  ASSUME NEW p \in Prefix
  PROVE  /\ \A a : isIPv4Broadcast(a, p) <=> a = Broadcast(p)
         /\ p = Masked(p) => /\ lastIPv4(p) = Broadcast(p) /\ ipv4Broadcast(p) = Broadcast(p)
                             /\ Broadcast(p) = p.addr + (Block(p) - 1)
<1> DEFINE H == Block(p) - 1
<1>1. /\ Block(p) \in Nat \ {0} /\ Masked(p).addr \in Nat /\ p.addr \in Nat
  BY BlockFacts, MaskedFacts
<1>2. Broadcast(p) = Masked(p).addr + H  BY <1>1 DEF Broadcast
<1>3. \A a : isIPv4Broadcast(a, p) <=> a = Masked(p).addr + H
  BY HostBits DEF isIPv4Broadcast
<1>4. lastIPv4(p) = p.addr + H /\ ipv4Broadcast(p) = p.addr + H
  BY HostBits DEF lastIPv4, ipv4Broadcast
<1>5. QED  BY <1>2, <1>3, <1>4

(* The three computations of the broadcast address agree for every subnet,  *)
(* the one without network bits included (validate.go:195, range.go:178,    *)
(* types.go:181).                                                           *)
THEOREM BroadcastsAlwaysAgree == Spec => []BroadcastsAgree
<1>1. Spec => []ScanTypeOK  BY ScanTypeCorrect
<1>2. ASSUME ScanTypeOK PROVE BroadcastsAgree
  <2>1. range.subnet \in Prefix /\ range.subnet = Masked(range.subnet)
    BY <1>2 DEF ScanTypeOK, Range_, NewRangeAccepts
  <2>2. QED  BY <2>1, BroadcastIsLast DEF BroadcastsAgree
<1>3. ScanTypeOK => BroadcastsAgree  BY <1>2
<1>4. QED  BY <1>1, <1>3, PTL

(* Of a network the configuration accepts, the range holds usable addresses *)
(* only.                                                                    *)
LEMMA AcceptedIsWhole ==
  ASSUME NEW r \in Range_, ConfigAccepts(r)
  PROVE  NewRangeAccepts(r) /\ BridgeAccepts(r) /\ Usable(r) = r.start .. r.end
<1> DEFINE p == r.subnet
           top == p.addr + (Block(p) - 1)
<1>1. /\ p \in Prefix /\ p = Masked(p)
      /\ r.start \in Address /\ r.end \in Address /\ r.gateway \in Address
  BY DEF Range_, ConfigAccepts
<1>2. /\ lastIPv4(p) = Broadcast(p) /\ Broadcast(p) = top
      /\ \A a : isIPv4Broadcast(a, p) <=> a = Broadcast(p)
  BY <1>1, BroadcastIsLast
<1>3. p.addr \in Int /\ top \in Int
  BY <1>1, BlockFacts
<1> HIDE DEF top
<1>4. \A a : PrefixContains(p, a) <=> a \in p.addr .. top
  BY <1>1, <1>2, <1>3, BlockFacts DEF PrefixContains, Broadcast
<1>5. /\ r.start \in p.addr .. top /\ r.end \in p.addr .. top
      /\ r.start # p.addr /\ r.end # top
      /\ r.gateway \notin r.start .. r.end /\ r.gateway \in p.addr .. top
      /\ r.gateway \notin {p.addr, top} /\ r.start <= r.end
      /\ p.bits <= W - 2
  BY <1>1, <1>2, <1>4 DEF ConfigAccepts
<1>6. NewRangeAccepts(r)  BY <1>1, <1>2, <1>4, <1>5 DEF NewRangeAccepts
<1>7. BridgeAccepts(r)  BY <1>1, <1>2, <1>4, <1>5 DEF BridgeAccepts
<1>8. ASSUME NEW a \in r.start .. r.end PROVE a \in Usable(r)
  <2>1. r.start \in Int /\ r.end \in Int /\ a \in Int /\ r.start <= a /\ a <= r.end
    <3>1. r.start \in Int /\ r.end \in Int  BY <1>1, AddressIsInt
    <3>2. QED  BY <3>1
  <2>2. a \in Address
    <3> DEFINE last == 2^W - 1
    <3>1. Address = 0 .. last /\ last \in Int  BY PowersOfTwo DEF Address
    <3> HIDE DEF last
    <3>2. QED  BY <1>1, <2>1, <3>1
  <2>3. a \in p.addr .. top /\ a # p.addr /\ a # top /\ a # r.gateway
    BY <1>3, <1>5, <2>1
  <2>4. PrefixContains(p, a)  BY <1>4, <2>3
  <2>5. QED  BY <1>2, <2>1, <2>2, <2>3, <2>4 DEF Usable, Contains
<1>9. Usable(r) \subseteq r.start .. r.end  BY UsableBounds
<1>10. QED  BY <1>6, <1>7, <1>8, <1>9

(* What the configuration accepts, the later layers accept, and the scan    *)
(* has nothing to pass over, for every address width and every network      *)
(* (validate.go:83-152, range.go:64-101, types.go:46-72).                   *)
THEOREM ConfiguredPoolAlwaysWhole == Spec => []ConfiguredPoolIsWhole
<1>1. Spec => []ScanTypeOK  BY ScanTypeCorrect
<1>2. ASSUME ScanTypeOK, NEW g \in Address, NEW s \in Address, NEW e \in Address,
             ConfigAccepts([subnet |-> range.subnet, gateway |-> g, start |-> s, end |-> e])
      PROVE  LET r == [subnet |-> range.subnet, gateway |-> g, start |-> s, end |-> e]
             IN  NewRangeAccepts(r) /\ BridgeAccepts(r) /\ Usable(r) = s .. e
  <2> DEFINE r == [subnet |-> range.subnet, gateway |-> g, start |-> s, end |-> e]
  <2>1. r \in Range_ /\ r.start = s /\ r.end = e  BY <1>2 DEF ScanTypeOK, Range_
  <2>2. ConfigAccepts(r)  BY <1>2
  <2> HIDE DEF r
  <2>3. NewRangeAccepts(r) /\ BridgeAccepts(r) /\ Usable(r) = s .. e
    BY <2>1, <2>2, AcceptedIsWhole
  <2>4. QED  BY <2>3 DEF r
<1>3. ScanTypeOK => ConfiguredPoolIsWhole  BY <1>2 DEF ConfiguredPoolIsWhole
<1>4. QED  BY <1>1, <1>3, PTL

(* Masking an address of a block leads back to the network address.         *)
LEMMA MaskedBack ==
  ASSUME NEW p \in Prefix, p = Masked(p), NEW a \in Address, PrefixContains(p, a)
  PROVE  Masked([addr |-> a, bits |-> p.bits]) = p
<1> DEFINE q == [addr |-> a, bits |-> p.bits]
           B == Block(p)
<1>1. q \in Prefix /\ q.addr = a /\ Block(q) = B  BY DEF Prefix, Block
<1>2. B \in Nat \ {0} /\ a \in Int  BY BlockFacts, AddressIsInt
<1>3. PICK n \in Int : p.addr = n * B  BY MaskedFacts
<1>4. p.addr \in Int /\ a \in p.addr .. (p.addr + (B - 1))
  <2>1. p.addr \in Int  BY BlockFacts
  <2>2. a \in p.addr .. (p.addr + B - 1)  BY DEF PrefixContains
  <2>3. QED  BY <1>2, <2>1, <2>2
<1> HIDE DEF B, q
<1>5. a - p.addr \in 0 .. (B - 1) /\ a = n * B + (a - p.addr)
  BY <1>2, <1>3, <1>4
<1>6. a % B = a - p.addr  BY <1>2, <1>5, DivideUnique
<1>7. Masked(q).addr = p.addr  BY <1>1, <1>2, <1>4, <1>6, MaskedFacts
<1>8. Masked(q) = [q EXCEPT !.addr = p.addr]  BY <1>1, <1>7 DEF Masked, Prefix
<1>9. [q EXCEPT !.addr = p.addr] = [addr |-> p.addr, bits |-> p.bits]  BY DEF q
<1>10. p = [addr |-> p.addr, bits |-> p.bits]  BY DEF Prefix
<1>11. QED  BY <1>8, <1>9, <1>10 DEF q

(* An address the scan returns passes every later check of the ADD that     *)
(* asked for it, so no ADD fails on its own address, nor leaves a record    *)
(* that the next load takes for damage (types.go:75-113,                    *)
(* endpoint/state.go:163-199).                                              *)
THEOREM LayersAlwaysAgree == Spec => []LayersAgree
<1>1. Spec => [](ScanTypeOK /\ ScanInvariant /\ ScanCorrect)
  BY ScanTypeCorrect, ScanStaysInRange, ScanIsCorrect, PTL
<1>2. ASSUME ScanTypeOK, ScanCorrect, result \in Address
      PROVE  /\ BridgeAccepts(range)
             /\ EndpointAccepts(range, result) /\ RecordAccepts(range, result)
  <2> DEFINE p == range.subnet
  <2>1. /\ range \in Range_ /\ NewRangeAccepts(range) /\ p \in Prefix /\ p = Masked(p)
        /\ range.start \in Address /\ range.end \in Address
    BY <1>2 DEF ScanTypeOK, Range_, NewRangeAccepts
  <2>2. \A a : isIPv4Broadcast(a, p) <=> a = Broadcast(p)  BY <2>1, BroadcastIsLast
  <2>3. /\ PrefixContains(p, range.gateway) /\ PrefixContains(p, range.start)
        /\ PrefixContains(p, range.end) /\ range.start <= range.end
        /\ range.gateway \notin {p.addr, Broadcast(p)}
    BY <2>1 DEF NewRangeAccepts
  <2>4. BridgeAccepts(range)  BY <2>1, <2>2, <2>3 DEF BridgeAccepts
  <2>5. /\ result \in range.start .. range.end
        /\ result \notin {p.addr, Broadcast(p), range.gateway}
    BY <1>2 DEF ScanCorrect
  <2>6. PrefixContains(p, result)
    <3> DEFINE first == p.addr
               last == p.addr + Block(p) - 1
    <3>1. first \in Int /\ last \in Int  BY <2>1, BlockFacts
    <3>2. \A a : PrefixContains(p, a) <=> a \in first .. last
      BY <2>1 DEF PrefixContains
    <3> HIDE DEF first, last
    <3>3. range.start \in first .. last /\ range.end \in first .. last
      BY <2>3, <3>2
    <3>4. QED  BY <2>5, <3>1, <3>2, <3>3
  <2>7. Masked([addr |-> result, bits |-> p.bits]) = p
    BY <1>2, <2>1, <2>6, MaskedBack
  <2>8. EndpointAccepts(range, result)
    BY <2>2, <2>3, <2>5, <2>7 DEF EndpointAccepts
  <2>9. RecordAccepts(range, result)  BY <2>1, <2>3, <2>6 DEF RecordAccepts
  <2>10. QED  BY <2>4, <2>8, <2>9
<1>3. ScanTypeOK /\ ScanCorrect => LayersAgree  BY <1>2 DEF LayersAgree
<1>4. QED  BY <1>1, <1>3, PTL
=============================================================================
