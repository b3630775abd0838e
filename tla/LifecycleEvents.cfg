SPECIFICATION Spec
CONSTANTS
  vpn = vpn  vpn2 = vpn2  t1 = t1  t2 = t2  c1 = c1  c2 = c2
  Components = {vpn}
  Threads = {t1, t2}
  Configs = {c1, c2}
  Unusable = {}
  Kinds = {"persistent", "retyped", "ephemeral"}
  FaultKinds = {"netns", "connect", "drop"}
  KeepEvents = TRUE
  MaxFaults = 2
  MaxEdits = 2
  MayShutDown = TRUE
SYMMETRY SupervisorSymmetry
INVARIANTS
  LifecyclePaired
CHECK_DEADLOCK FALSE
