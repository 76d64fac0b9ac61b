SPECIFICATION FairSpec
CONSTANTS
  Ip = {"1.1.1.1"}
  Base64 = {"k"}
  U16 = {"0", "1420"}
  U32 = {"0", "1420", "70000"}
  CleanStem = {"mia", "tus", "long"}
  StemLength <- Stems
  Rank <- Alphabet
  MaxNameLen = 64
  Task = {1, 2}
  Source <- Sources
  Draft <- Drafts
  Before <- Files
  Faults = {"kill", "disk"}
CHECK_DEADLOCK FALSE
INVARIANTS NoChangeLost Recoverable Consistent TuiMatchesFile
PROPERTIES ReconnectGetsSaved DaemonCatchesUp
