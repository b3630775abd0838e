SPECIFICATION Spec
CONSTANTS
  vpn = vpn
  Components = {vpn}
  UploadSupported = TRUE
  Interval = 2
  Backoff = 4
  Gap = 1
  MaxTime = 5
PROPERTIES
  LifecycleKeepsSpeed
CHECK_DEADLOCK FALSE
