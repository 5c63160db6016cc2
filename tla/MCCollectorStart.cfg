CONSTANTS
  Absent = Absent
  Torn = Torn
  MaxFaults = 2
  MAX_RECOVERY_ENTRIES = 3
  MaxSaves = 3
  MaxCrashes = 3
SPECIFICATION FairStartSpec
INVARIANTS
  PairingSurvives
PROPERTIES
  ServesAgain
CHECK_DEADLOCK FALSE
