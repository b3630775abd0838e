SPECIFICATION Spec
CONSTANTS
  vpn = vpn
  Components = {vpn}
  UploadSupported = TRUE
  Interval = 2
  Backoff = 4
  Gap = 1
  MaxTime = 5
INVARIANTS
  TypeOK
  SuccessRemembered
  SamplesCounted
  AttemptRemembered
  SpeedStaysVisible
  ViewsAgree
PROPERTIES
  TestsAreSpaced
CHECK_DEADLOCK FALSE
