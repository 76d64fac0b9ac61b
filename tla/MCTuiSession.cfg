SPECIFICATION FairSpec
CHECK_DEADLOCK FALSE
CONSTANTS
  Names = {1, 2}
  Ips = {}
  Slots = {1}
  MaxPeers = 2
  MaxStatus = 1
  DiffLines = 1
  Files <- SessionFiles
INVARIANTS Consistent DiffIsDraft
PROPERTY IndicatorFollows
