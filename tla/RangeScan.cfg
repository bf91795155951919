SPECIFICATION FairSpec
CONSTANTS
  W = 3
  NoAddr = NoAddr
  Searching = Searching
  Exhausted = Exhausted
INVARIANTS ScanTypeOK ScanInvariant ScanCorrect
  BroadcastsAgree ConfiguredPoolIsWhole LayersAgree
PROPERTY ScanTerminates
CHECK_DEADLOCK FALSE
