CONSTANTS
  c1 = c1
  c2 = c2
  c3 = c3
  c4 = c4
  sync = sync
  pairing = pairing
  Connections = {c1, c2, c3, c4}
  Subscribers = {c1, c2, c3}
  Writers = {sync}
  Publisher = sync
  MAX_ACTIVE_HANDLERS = 3
  MAX_EVENT_WAITERS = 2
  NoCursor = NoCursor
  OldCursor = OldCursor
  FirstCursors = {NoCursor, OldCursor}
  MaxEvents = 2
  MaxFaults = 1
SPECIFICATION ServiceSpec
SYMMETRY Symmetry
INVARIANTS
  NothingSleptThrough
  PlacesReturned
  CleanExitIsQuiet
CHECK_DEADLOCK FALSE
