CONSTANTS
  b1 = b1
  b2 = b2
  b3 = b3
  b4 = b4
  t1 = t1
  t2 = t2
  f1 = f1
  f2 = f2
  NoId = NoId
  NoToken = NoToken
  Ids = {b1, b2, b3, b4}
  Tokens = {t1, t2}
  Finalizers = {f1, f2}
  MAX_BOOTSTRAP_ATTEMPTS = 2
  MaxFaults = 2
SPECIFICATION FairDiscoverySpec
PROPERTIES
  DiscoveryRenewed
  FinalizeAnswered
  WithdrawnWhenFinalized
  FinalizedStaysQuiet
  ClaimantKeepsBootstrap
  ActiveNeverRevoked
INVARIANTS
  RecordedDiscoveryIsCurrent
