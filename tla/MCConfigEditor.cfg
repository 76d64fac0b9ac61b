SPECIFICATION Spec
CONSTANTS
  Names = {1}
  Ips = {1, 2}
  MaxPeers = 3
  MaxScroll = 1
  Files <- EditorFiles
INVARIANTS PlaceholdersTracked NothingUnkeyedSaved
