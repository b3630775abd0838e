SPECIFICATION FairSpec
CONSTANTS
  vpn = vpn  vpn2 = vpn2  t1 = t1  t2 = t2  c1 = c1  c2 = c2
  Components = {vpn}
  Threads = {t1, t2}
  Configs = {c1, c2}
  Unusable = {c2}
  Kinds = {"persistent"}
  FaultKinds = {"db", "netns", "os", "connect", "probe", "drop", "join"}
  KeepEvents = FALSE
  MaxFaults = 1
  MaxEdits = 1
  MayShutDown = FALSE
PROPERTIES
  StoppedWorkerFinishes
  TableConverges
  TunnelRecovers
  OutageIsReported
