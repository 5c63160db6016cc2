CONSTANTS
  c1 = c1
  c2 = c2
  c3 = c3
  c4 = c4
  sync = sync
  pairing = pairing
  Connections = {c1, c2, c3}
  Subscribers = {c1, c2}
  Writers = {sync}
  Publisher = sync
  MAX_ACTIVE_HANDLERS = 2
  MAX_EVENT_WAITERS = 1
  NoCursor = NoCursor
  OldCursor = OldCursor
  FirstCursors = {OldCursor}
  MaxEvents = 1
  MaxFaults = 1
SPECIFICATION FairServiceSpec
PROPERTIES
  EventsReachSubscribers
  HandlerPlacesReturn
  ShutdownCompletes
CHECK_DEADLOCK FALSE
