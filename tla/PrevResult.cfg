SPECIFICATION Spec
CONSTANTS
  n1 = n1
  n2 = n2
  a1 = a1
  a2 = a2
  b1 = b1
  g1 = g1
  g2 = g2
  m1 = m1
  m2 = m2
  NetNS = {n1, n2}
  HostNS = host
  Conf <- TheConf
  Address = {a1, a2}
  IfName = eth0
  HostName = veth
  OtherName = other
  Unbound = unbound
  NoRecord = NoRecord
  NoResult = NoResult
  MaxPlugins = 2
INVARIANTS
  PrevTypeOK
  AcceptsOwn
  RefusesStale
