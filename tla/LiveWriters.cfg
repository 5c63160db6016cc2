CONSTANTS
  c1 = c1
  c2 = c2
  c3 = c3
  c4 = c4
  sync = sync
  pairing = pairing
  Connections = {c1, c2}
  Subscribers = {c1}
  Writers = {sync, pairing}
  Publisher = sync
  MAX_ACTIVE_HANDLERS = 2
  MAX_EVENT_WAITERS = 1
  NoCursor = NoCursor
  OldCursor = OldCursor
  FirstCursors = {NoCursor, OldCursor}
  MaxEvents = 2
  MaxFaults = 1
SPECIFICATION ServiceSpec
INVARIANTS
  NoExitWithLiveWriters
CHECK_DEADLOCK FALSE
