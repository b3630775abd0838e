SPECIFICATION Spec
CONSTANTS
  vpn = vpn  vpn2 = vpn2  t1 = t1  t2 = t2  c1 = c1  c2 = c2
  Components = {vpn, vpn2}
  Threads = {t1, t2}
  Configs = {c1}
  Unusable = {}
  Kinds = {"persistent", "retyped", "ephemeral"}
  FaultKinds = {"db"}
  KeepEvents = FALSE
  MaxFaults = 1
  MaxEdits = 1
  MayShutDown = FALSE
SYMMETRY PairSymmetry
INVARIANTS
  SyncServesAll
CHECK_DEADLOCK FALSE
