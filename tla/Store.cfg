SPECIFICATION StoreSpec
CONSTANTS
  p1 = p1
  p2 = p2
  k1 = k1
  k2 = k2
  k3 = k3
  c1 = c1
  c2 = c2
  Proc <- MCProc
  Key <- MCKey
  Config <- MCConfig
  Addr <- MCAddr
  Pool <- MCPool
  NetNS = {n1}
  Clock = {TRUE, FALSE}
  NoProc = NoProc
  NoKey = NoKey
  NoConfig = NoConfig
  NoRecord = NoRecord
  Absent = Absent
  Corrupt = Corrupt
SYMMETRY Symmetry
INVARIANTS StoreTypeOK NoLostUpdate NoDuplicateAddress OnlyClockRefuses
PROPERTIES DamageIsKept ConfigIsSticky
