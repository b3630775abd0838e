SPECIFICATION Spec
CONSTANTS
  udp = udp
  tcp = tcp
  i1 = i1
  i2 = i2
  c1 = c1
  c2 = c2
  c3 = c3
  c4 = c4
  c5 = c5
  c6 = c6
  p1 = p1
  p2 = p2
  None = None
  Importers = {i1, i2}
  ServerList <- MCServerList
  ServerOf <- MCServerOf
  NameOf <- MCNameOf
  SlugOf <- MCSlugOf
  FullSlugs <- MCFullSlugs
  ConfigOf <- MCConfigOf
  RowIds <- MCRowIds
  CnPrefixes = {p1, p2}
  Starts <- MCStarts
  Requests <- MCRequests
  MaxEvents = 3
  MaxEdits = 1
  MaxFaults = 1
SYMMETRY MCSymmetry
INVARIANTS
  TypeOK
  MonitorIssuedOnce
PROPERTIES
  AtMostOneLinkAdded
CHECK_DEADLOCK FALSE
