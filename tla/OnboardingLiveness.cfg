CONSTANTS
  b1 = b1
  b2 = b2
  b3 = b3
  t1 = t1
  f1 = f1
  NoId = NoId
  NoToken = NoToken
  NoFinalizer = NoFinalizer
  Ids = {b1, b2, b3}
  Tokens = {t1}
  Finalizers = {f1}
  MAX_BOOTSTRAP_ATTEMPTS = 2
  MaxFaults = 1
  MaxLate = 0
SPECIFICATION FairSpec
PROPERTIES
  SetupSettles
