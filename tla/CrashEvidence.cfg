SPECIFICATION Spec
CONSTANTS
  p1 = p1
  p2 = p2
  k1 = k1
  k2 = k2
  n1 = n1
  n2 = n2
  c1 = c1
  h1 = h1
  h2 = h2
  Proc = {p1}
  Key <- MCKey
  Config <- MCConfig
  Addr = {1, 2}
  Pool <- MCPool
  NetNS = {n1}
  Clock = {TRUE}
  NoProc = NoProc
  NoKey = NoKey
  NoConfig = NoConfig
  NoRecord = NoRecord
  Absent = Absent
  Corrupt = Corrupt
  Name <- MCNames
  HostName <- NameOwn
  Iface = {"eth0", "eth1"}
  IfName <- IfOwn
  Admin = Admin
  NoPair = NoPair
  NoAddr = NoAddr
  NoNS = NoNS
  HostNS = HostNS
  Limbo = Limbo
  Ops = {"ADD", "DEL"}
  Faults = {"crash"}
  MaxFaults = 1
  CrashPoints <- AllPoints
INVARIANT RecoveryEvidence
