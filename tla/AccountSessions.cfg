SPECIFICATION Spec
CONSTANTS
  ann = ann  bob = bob  gid = gid  tab = tab  phone = phone  t1 = t1  t2 = t2
  Emails = {ann, bob}
  Subs = {gid}
  Browsers = {tab, phone}
  Threads = {t1, t2}
  None = None
  AllowRegistration = TRUE
  RequireEmailVerification = FALSE
  MaxTokens = 4
  MaxSecrets = 2
  MaxEvents = 4
SYMMETRY Symmetry
INVARIANTS
  TypeOK
  TokenLineage
  ForksNeedOverlap
  CookieLive
  SignedOutStaysOut
  TotpConfirmed
  BootstrapAdmin
PROPERTIES
  RevocationIsFinal
CHECK_DEADLOCK FALSE
