CONSTANTS
  b1 = b1
  b2 = b2
  b3 = b3
  t1 = t1
  t2 = t2
  f1 = f1
  f2 = f2
  NoId = NoId
  NoToken = NoToken
  NoFinalizer = NoFinalizer
  Ids = {b1, b2, b3}
  Tokens = {t1, t2}
  Finalizers = {f1}
  MAX_BOOTSTRAP_ATTEMPTS = 2
  MaxFaults = 2
  MaxLate = 1
SPECIFICATION Spec
SYMMETRY Symmetry
INVARIANTS
  CredentialRecoverable
  FinalizedIsDurable
  MarkersHaveJournal
  CleanMarkersMeanFinalized
  TokensAgree
