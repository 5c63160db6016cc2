SPECIFICATION SyncSpec
CONSTANTS
  NoDay <- MCNoDay
  Starts = {2, 7}
  FirstDay = 4
  LastDay = 8
  BACKFILL_CHUNK_DAYS = 2
  BACKFILL_MAX_CHUNKS_PER_CYCLE = 2
  CORRECTION_OVERLAP_DAYS = 2
  ShortExports = TRUE
  MaxFaults = 0
INVARIANT
  ProgressMeansStored
CHECK_DEADLOCK FALSE
