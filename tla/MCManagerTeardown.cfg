SPECIFICATION Spec
CONSTANTS
  a = a
  b = b
  r1 = r1
  r2 = r2
  r3 = r3
  t1 = t1
  t2 = t2
  t3 = t3
  NoTun = NoTun
  NoConn = NoConn
  NoBackend = NoBackend
  Order <- MCOrder
  Conn = {a, b}
  Backend = {"boringtun", "gotatun"}
  Compiled = {"boringtun", "gotatun"}
  Tun = {t1, t2, t3}
  Cidr = {r1, r2, r3}
  Port = {2}
  Configs <- TeardownConfigs
  Platform = "macos"
  Faults = {"resolve", "tun", "configure"}
SYMMETRY TunSymmetry
INVARIANT RoutesFollowActive
PROPERTY DownRestoresDns
