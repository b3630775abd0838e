SPECIFICATION Spec
CONSTANTS
  v1 = v1
  v2 = v2
  h = h
  OpenVpn = {v1}
  Xray = {v2}
  Http = {h}
  Id <- MCId
  None = None
  Poll = 1
  TestInterval = 2
  Gap = 1
  MaxEvents = 1
INVARIANTS
  TypeOK
  LastCheckedIsNewest
PROPERTIES
  ChecksRecorded
  TurnsTaken
