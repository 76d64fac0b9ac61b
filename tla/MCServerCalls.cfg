SPECIFICATION FairSpec
CONSTANTS
  d1 = d1
  d2 = d2
  c1 = c1
  c2 = c2
  k1 = k1
  k2 = k2
  NoDaemon = NoDaemon
  NoClient = NoClient
  Daemon = {d1}
  Client = {c1, c2}
  Starter = {}
  Command = {"Up", "Down", "Status", "Shutdown", "StreamLogs", "Unknown"}
  MaxPolls = 2
  Overlap = FALSE
  ByHand = "stopped"
  Faults = {"crash", "accept"}
INVARIANT Consistent
PROPERTIES CallsReturn ShutdownEnds
