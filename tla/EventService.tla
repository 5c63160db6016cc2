---------------------------- MODULE EventService ----------------------------
(***************************************************************************)
(* The Collector's HTTP service: EventBroker (event_broker.py) with its    *)
(* bounded waiters, CollectorHttpServer (server.py) with its bounded       *)
(* handler threads, the events route of CollectorApi (api.py), and the     *)
(* orderly stop of _serve under the ShutdownWatchdog (shutdown.py).        *)
(*                                                                         *)
(* An operation of the broker holds its condition's lock and is one        *)
(* action; a wait is three: Ask, the sleep, Resume.  An event is its       *)
(* sequence number.  A connection of a subscriber asks for events with the *)
(* cursor it learned last; any other connection reads the dataset.         *)
(***************************************************************************)
EXTENDS Integers, FiniteSets

CONSTANTS
  Connections,          \* clients, each with at most one connection
  Subscribers,          \* those that ask for events
  Writers,              \* the background threads: synchronization, pairing
  Publisher,            \* the writer that publishes: synchronization
  MAX_ACTIVE_HANDLERS,
  MAX_EVENT_WAITERS,
  NoCursor,             \* no cursor given
  OldCursor,            \* a cursor of an earlier process
  FirstCursors,         \* what subscribers may come with, of these two
  MaxEvents,            \* bound on publications
  MaxFaults             \* bound on failures

ASSUME ConnectionAssumption == IsFiniteSet(Connections) /\ Subscribers \subseteq Connections
ASSUME WriterAssumption == Publisher \in Writers
ASSUME LimitAssumption == MAX_ACTIVE_HANDLERS \in Nat /\ MAX_EVENT_WAITERS \in Nat
ASSUME CursorAssumption == NoCursor \notin Nat /\ OldCursor \notin Nat /\ NoCursor # OldCursor
ASSUME FirstCursorAssumption == FirstCursors \subseteq {NoCursor, OldCursor}
ASSUME BoundAssumption == MaxEvents \in Nat /\ MaxFaults \in Nat

VARIABLES
  sequence,     \* EventBroker._sequence
  closed,       \* EventBroker._closed
  waiters,      \* EventBroker._waiters
  conn,         \* each connection and the thread that handles it
  known,        \* the last cursor each client learned
  main,         \* where the main thread is
  stopping,     \* CollectorHttpServer._stopping
  stopWriters,  \* the writers' stop events
  writers,      \* the writers that still run
  stopped,      \* worker_stopped of _serve
  late,         \* the watchdog's cleanup deadline has passed
  faults

broker == <<sequence, closed, waiters>>
stop == <<stopping, stopWriters, writers, stopped, late>>
vars == <<broker, conn, known, main, stop, faults>>

Sequences == 0..MaxEvents
Idle == [pc |-> "idle", open |-> FALSE, answer |-> NoCursor]
HandlerSteps == {"registered", "reading", "asking", "asleep", "woken", "answering", "closing"}
Exits == {"clean", "failed", "forced"}
ConnectionStates ==
  [pc : {"idle"} \cup HandlerSteps, open : BOOLEAN, answer : {NoCursor} \cup Sequences]

StopSteps == {"stop_writers", "begin_shutdown", "close_broker", "close_connections",
              "join_handlers", "join_writers", "finish", "hang"}
MainSteps == {"serving", "starting"} \cup StopSteps \cup Exits

\* When the process has exited none of its threads takes a step.
Running == main \notin Exits

\* CollectorHttpServer._handlers: from admission until the thread is done.
Handlers == {c \in Connections : conn[c].pc # "idle"}
At(c, step) == Running /\ conn[c].pc = step
Goes(c, step) == conn' = [conn EXCEPT ![c].pc = step]
Answers(c, cursor) == conn' = [conn EXCEPT ![c].pc = "answering", ![c].answer = cursor]

Fault == faults < MaxFaults /\ faults' = faults + 1

-----------------------------------------------------------------------------
(* EventBroker                                                             *)

WakeAll == conn' = [c \in Connections |->
                      IF conn[c].pc = "asleep" THEN [conn[c] EXCEPT !.pc = "woken"]
                                               ELSE conn[c]]

\* Mutant of Publish: notify instead of notify_all.
PublishToOne ==
  /\ Running
  /\ Publisher \in writers
  /\ ~closed
  /\ sequence < MaxEvents
  /\ sequence' = sequence + 1
  /\ \/ \E c \in Connections : At(c, "asleep") /\ Goes(c, "woken")
     \/ UNCHANGED conn /\ \A c \in Connections : conn[c].pc # "asleep"
  /\ UNCHANGED <<closed, waiters, known, main, stop, faults>>

\* publish, by the synchronization thread; a closed broker refuses.
Publish ==
  /\ Running
  /\ Publisher \in writers
  /\ ~closed
  /\ sequence < MaxEvents
  /\ sequence' = sequence + 1
  /\ WakeAll
  /\ UNCHANGED <<closed, waiters, known, main, stop, faults>>

\* Mutant of Ask: the limit of waiters is checked before the cursor.
AskLimitFirst(c) ==
  /\ At(c, "asking")
  /\ IF closed \/ waiters >= MAX_EVENT_WAITERS THEN Answers(c, NoCursor) /\ UNCHANGED waiters
     ELSE IF known[c] # sequence THEN Answers(c, sequence) /\ UNCHANGED waiters
     ELSE Goes(c, "asleep") /\ waiters' = waiters + 1
  /\ UNCHANGED <<sequence, closed, known, main, stop, faults>>

\* wait, up to the sleep.  A cursor that is missing, of another process, or
\* ahead is answered by a reset to the current one; an older one at once.
Ask(c) ==
  /\ At(c, "asking")
  /\ IF closed THEN Answers(c, NoCursor) /\ UNCHANGED waiters
     ELSE IF known[c] # sequence THEN Answers(c, sequence) /\ UNCHANGED waiters
     ELSE IF waiters >= MAX_EVENT_WAITERS THEN Answers(c, NoCursor) /\ UNCHANGED waiters
     ELSE Goes(c, "asleep") /\ waiters' = waiters + 1
  /\ UNCHANGED <<sequence, closed, known, main, stop, faults>>

WaitTimesOut(c) ==
  /\ At(c, "asleep")
  /\ Goes(c, "woken")
  /\ UNCHANGED <<broker, known, main, stop, faults>>

WhatWasMissed(c) == IF closed \/ sequence = known[c] THEN NoCursor ELSE sequence

\* Mutant of Resume: an answered waiter keeps its place.
ResumeKeepingPlace(c) ==
  /\ At(c, "woken")
  /\ Answers(c, WhatWasMissed(c))
  /\ waiters' = IF WhatWasMissed(c) = NoCursor THEN waiters - 1 ELSE waiters
  /\ UNCHANGED <<sequence, closed, known, main, stop, faults>>

\* wait, after the sleep, however it ended.
Resume(c) ==
  /\ At(c, "woken")
  /\ Answers(c, WhatWasMissed(c))
  /\ waiters' = waiters - 1
  /\ UNCHANGED <<sequence, closed, known, main, stop, faults>>

-----------------------------------------------------------------------------
(* Handlers                                                                *)

\* process_request up to the start of the thread.  With no place free the
\* connection is closed at once, which changes nothing here.
Admit(c) ==
  /\ main = "serving"
  /\ conn[c] = Idle
  /\ ~stopping
  /\ Cardinality(Handlers) < MAX_ACTIVE_HANDLERS
  /\ conn' = [conn EXCEPT ![c] = [Idle EXCEPT !.pc = "registered", !.open = TRUE]]
  /\ main' = "starting"
  /\ UNCHANGED <<broker, known, stop, faults>>

ThreadStarts(c) ==
  /\ main = "starting"
  /\ At(c, "registered")
  /\ Goes(c, "reading")
  /\ main' = "serving"
  /\ UNCHANGED <<broker, known, stop, faults>>

\* No thread could be started: its place is given back.
ThreadStartFails(c) ==
  /\ main = "starting"
  /\ At(c, "registered")
  /\ Fault
  /\ conn' = [conn EXCEPT ![c] = Idle]
  /\ main' = "serving"
  /\ UNCHANGED <<broker, known, stop>>

\* Handshake and request arrive; the route decides.
RequestRead(c) ==
  /\ At(c, "reading")
  /\ conn[c].open
  /\ Goes(c, IF c \in Subscribers THEN "asking" ELSE "answering")
  /\ UNCHANGED <<broker, known, main, stop, faults>>

\* The connection is gone, or the handler saw _stopping after the handshake.
ReadFails(c) ==
  /\ At(c, "reading")
  /\ ~conn[c].open \/ stopping
  /\ Goes(c, "closing")
  /\ UNCHANGED <<broker, known, main, stop, faults>>

\* The answer is written; on a closed connection nobody learns of it.
AnswerWritten(c) ==
  /\ At(c, "answering")
  /\ Goes(c, "closing")
  /\ known' = IF conn[c].open /\ conn[c].answer # NoCursor
                THEN [known EXCEPT ![c] = conn[c].answer] ELSE known
  /\ UNCHANGED <<broker, main, stop, faults>>

\* The credential is checked again after the wait, and could not be read.
AnswerUnauthorized(c) ==
  /\ At(c, "answering")
  /\ c \in Subscribers
  /\ Fault
  /\ Goes(c, "closing")
  /\ UNCHANGED <<broker, known, main, stop>>

\* shutdown_request, and the thread leaves _handlers.
HandlerEnds(c) ==
  /\ At(c, "closing")
  /\ conn' = [conn EXCEPT ![c] = Idle]
  /\ UNCHANGED <<broker, known, main, stop, faults>>

\* Mutant of DeadlineCloses: the deadline runs from the request.
DeadlineClosesRequests(c) ==
  /\ Running
  /\ ~stopping
  /\ c \notin Subscribers
  /\ conn[c].open
  /\ conn[c].pc \notin {"registered", "reading"}
  /\ conn' = [conn EXCEPT ![c].open = FALSE]
  /\ UNCHANGED <<broker, known, main, stop, faults>>

\* _expire_requests: the monitor runs until _stopping is set.  A subscriber
\* that sends its request within ten seconds is answered after 25 more at
\* most, before the 35 of the deadline; a slower one is a ConnectionBreaks.
DeadlineCloses(c) ==
  /\ Running
  /\ ~stopping
  /\ c \notin Subscribers
  /\ conn[c].open
  /\ conn' = [conn EXCEPT ![c].open = FALSE]
  /\ UNCHANGED <<broker, known, main, stop, faults>>

\* The peer goes away, is silent for the socket timeout, or misses the
\* deadline.
ConnectionBreaks(c) ==
  /\ Running
  /\ conn[c].open
  /\ Fault
  /\ conn' = [conn EXCEPT ![c].open = FALSE]
  /\ UNCHANGED <<broker, known, main, stop>>

-----------------------------------------------------------------------------
(* Stopping                                                                *)

\* SIGTERM: the main thread is interrupted wherever it is, after arming the
\* watchdog.  In process_request the interrupt closes the connection, but the
\* thread, not yet started, stays in _handlers.
Signal ==
  /\ main \in {"serving", "starting"}
  /\ main' = "stop_writers"
  /\ conn' = [c \in Connections |-> IF conn[c].pc = "registered"
                                      THEN [conn[c] EXCEPT !.open = FALSE] ELSE conn[c]]
  /\ UNCHANGED <<broker, known, stop, faults>>

\* request_stop of every writer, before anything is joined.
RequestStop ==
  /\ main = "stop_writers"
  /\ stopWriters' = TRUE
  /\ main' = IF late THEN "finish" ELSE "begin_shutdown"
  /\ UNCHANGED <<broker, conn, known, stopping, writers, stopped, late, faults>>

\* begin_shutdown: no admission, then the broker, then the connections.
BeginShutdown ==
  /\ main = "begin_shutdown"
  /\ stopping' = TRUE
  /\ main' = "close_broker"
  /\ UNCHANGED <<broker, conn, known, stopWriters, writers, stopped, late, faults>>

\* Mutant of CloseBroker: the broker is closed after the joins.
CloseBrokerLater ==
  /\ main = "close_broker"
  /\ main' = "close_connections"
  /\ UNCHANGED <<broker, conn, known, stop, faults>>

CloseBroker ==
  /\ main = "close_broker"
  /\ closed' = TRUE
  /\ WakeAll
  /\ main' = "close_connections"
  /\ UNCHANGED <<sequence, waiters, known, stop, faults>>

CloseConnections ==
  /\ main = "close_connections"
  /\ conn' = [c \in Connections |-> [conn[c] EXCEPT !.open = FALSE]]
  /\ main' = IF late THEN "finish" ELSE "join_handlers"
  /\ UNCHANGED <<broker, known, stop, faults>>

Unstarted == {c \in Connections : conn[c].pc = "registered"}

\* server_close: the handlers are joined, the deadline permitting.  Joining a
\* thread that never started raises, and nothing up to the exit catches it.
JoinHandlers ==
  /\ main = "join_handlers"
  /\ late \/ Handlers = Unstarted
  /\ stopped' = (Handlers = {})
  /\ main' = IF Unstarted # {} THEN "failed" ELSE IF late THEN "finish" ELSE "join_writers"
  /\ UNCHANGED <<broker, conn, known, stopping, stopWriters, writers, late, faults>>

JoinWriters ==
  /\ main = "join_writers"
  /\ late \/ writers = {}
  /\ stopped' = (stopped /\ writers = {})
  /\ main' = "finish"
  /\ UNCHANGED <<broker, conn, known, stopping, stopWriters, writers, late, faults>>

\* Mutant of Finish: the process returns whatever came of the joins.
FinishAnyway ==
  /\ main = "finish"
  /\ main' = "clean"
  /\ UNCHANGED <<broker, conn, known, stop, faults>>

\* A complete cleanup in time returns; anything else waits for the watchdog.
Finish ==
  /\ main = "finish"
  /\ main' = IF stopped /\ ~late THEN "clean" ELSE "hang"
  /\ UNCHANGED <<broker, conn, known, stop, faults>>

\* A writer's thread ends: told to stop, or by itself after an error.
WriterEnds(w) ==
  /\ Running
  /\ w \in writers
  /\ writers' = writers \ {w}
  /\ UNCHANGED <<broker, conn, known, main, stopping, stopWriters, stopped, late, faults>>

CleanupDeadlinePasses ==
  /\ main \in StopSteps
  /\ ~late
  /\ late' = TRUE
  /\ UNCHANGED <<broker, conn, known, main, stopping, stopWriters, writers, stopped, faults>>

\* The watchdog's hard deadline, two seconds after the other.
HardStop ==
  /\ main \in StopSteps
  /\ late
  /\ main' = "forced"
  /\ UNCHANGED <<broker, conn, known, stop, faults>>

-----------------------------------------------------------------------------
Init ==
  /\ sequence = 0
  /\ closed = FALSE
  /\ waiters = 0
  /\ conn = [c \in Connections |-> Idle]
  /\ known \in [Connections -> {NoCursor} \cup FirstCursors]
  /\ \A c \in Connections : known[c] \in IF c \in Subscribers THEN FirstCursors ELSE {NoCursor}
  /\ main = "serving"
  /\ stopping = FALSE
  /\ stopWriters = FALSE
  /\ writers = Writers
  /\ stopped = FALSE
  /\ late = FALSE
  /\ faults = 0

HandlerNext(c) ==
  \/ RequestRead(c)
  \/ ReadFails(c)
  \/ Ask(c)
  \/ Resume(c)
  \/ AnswerWritten(c)
  \/ HandlerEnds(c)

MainNext ==
  \/ \E c \in Connections : ThreadStarts(c)
  \/ RequestStop
  \/ BeginShutdown
  \/ CloseBroker
  \/ CloseConnections
  \/ JoinHandlers
  \/ JoinWriters
  \/ Finish

Next ==
  \/ MainNext
  \/ \E c \in Connections :
       \/ HandlerNext(c)
       \/ Admit(c)
       \/ ThreadStartFails(c)
       \/ AnswerUnauthorized(c)
       \/ WaitTimesOut(c)
       \/ DeadlineCloses(c)
       \/ ConnectionBreaks(c)
  \/ Publish
  \/ Signal
  \/ \E w \in Writers : WriterEnds(w)
  \/ CleanupDeadlinePasses
  \/ HardStop

ServiceSpec == Init /\ [][Next]_vars

(***************************************************************************)
(* Fairness: started threads run; while the service runs, a wait is at     *)
(* most 25 seconds and a connection at most 35.  A subscriber sends its    *)
(* request and, when it finds places free again and again, gets one.  A    *)
(* writer told to stop ends.  Neither the wait's timeout nor the cleanup   *)
(* deadline helps the shutdown: it must be complete without them.          *)
(***************************************************************************)
FairServiceSpec ==
  /\ ServiceSpec
  /\ WF_vars(MainNext)
  /\ WF_vars(HardStop)
  /\ \A c \in Connections :
       /\ WF_vars(ReadFails(c) \/ Ask(c) \/ Resume(c) \/ AnswerWritten(c) \/ HandlerEnds(c))
       /\ WF_vars(~stopping /\ WaitTimesOut(c))
       /\ WF_vars(DeadlineCloses(c))
  /\ \A c \in Subscribers : WF_vars(RequestRead(c)) /\ SF_vars(Admit(c))
  /\ \A w \in Writers : WF_vars(stopWriters /\ WriterEnds(w))

-----------------------------------------------------------------------------
(* Properties                                                              *)

Typed ==
  /\ sequence \in Sequences
  /\ closed \in BOOLEAN
  /\ waiters \in Nat
  /\ conn \in [Connections -> ConnectionStates]
  /\ known \in [Connections -> {NoCursor, OldCursor} \cup Sequences]
  /\ main \in MainSteps
  /\ stopping \in BOOLEAN
  /\ stopWriters \in BOOLEAN
  /\ writers \subseteq Writers
  /\ stopped \in BOOLEAN
  /\ late \in BOOLEAN
  /\ faults \in 0..MaxFaults

\* Every variable has its type, and what is bounded keeps its bound: never
\* more handlers, nor waiters among them, than there are places.
ServiceTypeOK ==
  /\ Typed
  /\ Cardinality(Handlers) <= MAX_ACTIVE_HANDLERS
  /\ waiters <= MAX_EVENT_WAITERS

\* Nobody sleeps through anything: a handler that is asleep knows the latest
\* event, and the broker it sleeps on is open.
NothingSleptThrough ==
  \A c \in Connections :
    conn[c].pc = "asleep" => known[c] = sequence /\ ~closed

Waiting == {c \in Connections : conn[c].pc \in {"asleep", "woken"}}

\* The broker's count of waiters is the number of handlers that wait: each
\* gives its place back once, whether it ends by event, timeout or shutdown.
PlacesReturned == waiters = Cardinality(Waiting)

\* The service reports a clean stop only when none of its threads runs: all
\* handlers left and all writers ended, within the deadline.
CleanExitIsQuiet == main = "clean" => Handlers = {} /\ writers = {}

\* "do not exit with live writers" (server.py:394): the service never ends
\* by itself while a writer runs; only the watchdog ends it then.
NoExitWithLiveWriters == main \in Exits \ {"forced"} => writers = {}

\* A subscriber learns of every publication, or of a later one that replaced
\* it, unless the service stops: neither a lost answer, nor a rival that holds
\* the last place of a waiter or of a handler, nor a restarted Collector keeps
\* it ignorant.
EventsReachSubscribers ==
  \A c \in Subscribers, n \in 1..MaxEvents :
    (sequence >= n) ~> (known[c] \in Sequences /\ known[c] >= n) \/ main \notin {"serving", "starting"}

\* Every admitted connection gives its place back, even one whose client
\* never sends its request.
HandlerPlacesReturn ==
  \A c \in Connections : c \in Handlers ~> c \notin Handlers \/ ~Running

\* A stop that was signalled completes without waiting for a timeout of an
\* event wait, of a connection, or for the watchdog.
ShutdownCompletes == main = "stop_writers" ~> ~Running

=============================================================================
