CONSTANTS
  e1 = e1
  e2 = e2
  m1 = m1
  m2 = m2
  Unknown = Unknown
  NoValue = NoValue
  Normal = 4
  Shift = 1
  Transition = 6
  Eans = {e1, e2}
  Meters = {m1, m2}
  OurEan = e1
  OurMeter = m1
  Owner <- MCOwner
  MAX_REDIRECTS = 2
  FirstDay = 1
  LastDay = 1
  MaxRuns = 2
SPECIFICATION FairSessionSpec
INVARIANTS
  CredentialsGoOnce
  DamageIsConfined
  MeterIsConfigured
  OutcomeIsTrue
PROPERTIES
  CycleEnds
CHECK_DEADLOCK FALSE
