SPECIFICATION Spec
CONSTANTS
  Components = {c1, c2}
  Incidents = {i1}
  Editors = {a1, a2}
  None = None
  Stamps = {3}
  DayLength = 2
  MaxTime = 3
  MaxEvents = 3
  MaxUpdates = 2
SYMMETRY Symmetry
INVARIANTS TypeOK UptimeExact PageCoherent EndsAfterStart IncidentViewsAgree
CHECK_DEADLOCK FALSE
