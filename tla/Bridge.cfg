SPECIFICATION Spec
CONSTANTS
  i1 = i1
  i2 = i2
  i3 = i3
  Id <- MCId
  NoLink = NoLink
  Mtu = {1400, 1500}
  SpecMtu = 1500
  Address = {gw, other}
  Gateway = gw
  OwnPort = {own}
  ForeignPort = {foreign}
  Faults = {"netlink", "crash", "admin"}
  MaxFaults = 3
SYMMETRY Symmetry
INVARIANTS BridgeTypeOK ConflictsLeftAlone EnsureDelivers EnsureHeals CreatedOrUndone
PROPERTY SharedBridgeKept
