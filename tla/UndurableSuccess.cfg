SPECIFICATION Spec
CONSTANTS
  p1 = p1
  p2 = p2
  r = r
  a1 = a1
  a2 = a2
  b1 = b1
  b2 = b2
  Proc <- MCProc
  NoProc = NoProc
  Dir <- MCDir
  NoDir = NoDir
  Level <- MCLevel
  Depth = 2
  Root = r
  Torn = Torn
  MaxVersion = 2
  Faults = {"fsync", "power"}
  MaxFaults = 3
INVARIANT SuccessSurvives
