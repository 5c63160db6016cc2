CONSTANTS
  Quarters = 6
  Energy = {0, 1, 2}
  Missing = Missing
  Invalid = Invalid
  Absent = Absent
  None = None
  Collections <- MCCollections
  MAX_LIMIT = 4
  MAX_PAGES = 2
  MAX_RANGE = 4
  DAY = 2
  HOUR = 2
  HISTORY_WINDOW = 4
  RECENT_CORRECTION = 4
  MAX_HISTORY_WINDOWS = 2
  MaxAttempts = 3
  MaxFaults = 2
SPECIFICATION FairSpec
INVARIANT SynchronizedMeansImported
CHECK_DEADLOCK FALSE
