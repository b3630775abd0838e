SPECIFICATION FairSpec
CONSTANTS
  vpn = vpn  vpn2 = vpn2  t1 = t1  t2 = t2  c1 = c1  c2 = c2
  Components = {vpn}
  Threads = {t1, t2}
  Configs = {c1, c2}
  Unusable = {}
  Kinds = {"persistent", "retyped", "ephemeral"}
  FaultKinds = {}
  KeepEvents = FALSE
  MaxFaults = 0
  MaxEdits = 2
  MayShutDown = FALSE
PROPERTIES
  WantedIsServed
