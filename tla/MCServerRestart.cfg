SPECIFICATION Spec
CONSTANTS
  d1 = d1
  d2 = d2
  c1 = c1
  c2 = c2
  k1 = k1
  k2 = k2
  NoDaemon = NoDaemon
  NoClient = NoClient
  Daemon = {d1, d2}
  Client = {c1, k1}
  Starter = {k1}
  Command = {"Up", "Down", "Shutdown"}
  MaxPolls = 2
  Overlap = FALSE
  ByHand = "stopped"
  Faults = {"crash", "accept", "sudo"}
INVARIANTS TunnelsReachable SetupSucceeds
