-------------------------- MODULE EventService_proof --------------------------
(***************************************************************************)
(* EventService for any number of connections, writers, places, waiters    *)
(* and publications: nobody sleeps through an event or the shutdown, every *)
(* waiter gives its place back, and a clean exit leaves no thread behind.  *)
(***************************************************************************)
EXTENDS EventService, FiniteSetTheorems, TLAPS

\* What the main thread found out by its joins stays true: nothing is
\* admitted any more, and no thread comes back.
JoinsHold ==
  /\ main = "join_writers" /\ stopped => Handlers = {}
  /\ main = "finish" /\ stopped /\ ~late => Handlers = {} /\ writers = {}
  /\ main = "clean" => Handlers = {} /\ writers = {}

ServiceInv ==
  /\ ServiceTypeOK
  /\ NothingSleptThrough
  /\ PlacesReturned
  /\ JoinsHold


\* Every step keeps the types; that the waiters' count stays a number is part
\* of ServicePreserved.
LEMMA TypedStep ==
  ASSUME Typed, [Next]_vars, waiters' \in Nat
  PROVE  Typed'
<1> USE BoundAssumption, WriterAssumption
<1>1. CASE \E c \in Connections : ThreadStarts(c)
  BY <1>1 DEF ThreadStarts, At, Goes, broker, stop, Typed,
     ConnectionStates, HandlerSteps, MainSteps, StopSteps, Exits
<1>2. CASE \E c \in Connections : RequestRead(c)
  BY <1>2 DEF RequestRead, At, Goes, broker, stop, Typed, ConnectionStates,
     HandlerSteps
<1>3. CASE \E c \in Connections : ReadFails(c)
  BY <1>3 DEF ReadFails, At, Goes, broker, stop, Typed, ConnectionStates,
     HandlerSteps
<1>4. CASE \E c \in Connections : Ask(c)
  BY <1>4 DEF Ask, At, Answers, Goes, stop, Typed, ConnectionStates,
     HandlerSteps, Sequences
<1>5. CASE \E c \in Connections : Resume(c)
  <2> PICK c \in Connections : Resume(c)
    BY <1>5
  <2> DEFINE next == [conn[c] EXCEPT !.pc = "answering", !.answer = WhatWasMissed(c)]
  <2>1. conn[c] \in ConnectionStates
    BY DEF Typed
  <2>2. next \in ConnectionStates
    BY <2>1 DEF ConnectionStates, HandlerSteps, WhatWasMissed, Typed, Sequences
  <2>3. conn' = [conn EXCEPT ![c] = next]
    BY Zenon DEF Resume, Answers
  <2>4. conn' \in [Connections -> ConnectionStates]
    BY <2>2, <2>3, Zenon DEF Typed
  <2> QED
    BY <2>4 DEF Resume, Typed, Fault, broker, stop, MainSteps
<1>6. CASE \E c \in Connections : AnswerWritten(c)
  BY <1>6 DEF AnswerWritten, At, Goes, broker, stop, Typed,
     ConnectionStates, HandlerSteps, Sequences
<1>7. CASE \E c \in Connections : HandlerEnds(c)
  BY <1>7 DEF HandlerEnds, At, Idle, broker, stop, Typed, ConnectionStates,
     HandlerSteps
<1>8. CASE \E c \in Connections : Admit(c)
  <2> PICK c \in Connections : Admit(c)
    BY <1>8
  <2> DEFINE next == [Idle EXCEPT !.pc = "registered", !.open = TRUE]
  <2>1. conn[c] \in ConnectionStates
    BY DEF Typed
  <2>2. next \in ConnectionStates
    BY <2>1 DEF ConnectionStates, HandlerSteps, Idle
  <2>3. conn' = [conn EXCEPT ![c] = next]
    BY Zenon DEF Admit
  <2>4. conn' \in [Connections -> ConnectionStates]
    BY <2>2, <2>3, Zenon DEF Typed
  <2> QED
    BY <2>4 DEF Admit, Typed, Fault, broker, stop, MainSteps
<1>9. CASE \E c \in Connections : ThreadStartFails(c)
  BY <1>9 DEF ThreadStartFails, At, Fault, Idle, broker, stop, Typed,
     ConnectionStates, HandlerSteps, MainSteps, StopSteps, Exits
<1>10. CASE \E c \in Connections : AnswerUnauthorized(c)
  BY <1>10 DEF AnswerUnauthorized, At, Fault, Goes, broker, stop, Typed,
     ConnectionStates, HandlerSteps
<1>11. CASE \E c \in Connections : WaitTimesOut(c)
  BY <1>11 DEF WaitTimesOut, At, Goes, broker, stop, Typed,
     ConnectionStates, HandlerSteps
<1>12. CASE \E c \in Connections : DeadlineCloses(c)
  <2> PICK c \in Connections : DeadlineCloses(c)
    BY <1>12
  <2> DEFINE next == [conn[c] EXCEPT !.open = FALSE]
  <2>1. conn[c] \in ConnectionStates
    BY DEF Typed
  <2>2. next \in ConnectionStates
    BY <2>1 DEF ConnectionStates
  <2>3. conn' = [conn EXCEPT ![c] = next]
    BY Zenon DEF DeadlineCloses
  <2>4. conn' \in [Connections -> ConnectionStates]
    BY <2>2, <2>3, Zenon DEF Typed
  <2> QED
    BY <2>4 DEF DeadlineCloses, Typed, Fault, broker, stop, MainSteps
<1>13. CASE \E c \in Connections : ConnectionBreaks(c)
  <2> PICK c \in Connections : ConnectionBreaks(c)
    BY <1>13
  <2> DEFINE next == [conn[c] EXCEPT !.open = FALSE]
  <2>1. conn[c] \in ConnectionStates
    BY DEF Typed
  <2>2. next \in ConnectionStates
    BY <2>1 DEF ConnectionStates
  <2>3. conn' = [conn EXCEPT ![c] = next]
    BY Zenon DEF ConnectionBreaks
  <2>4. conn' \in [Connections -> ConnectionStates]
    BY <2>2, <2>3, Zenon DEF Typed
  <2> QED
    BY <2>4 DEF ConnectionBreaks, Typed, Fault, broker, stop, MainSteps
<1>14. CASE RequestStop
  BY <1>14 DEF RequestStop, broker, Typed, MainSteps, StopSteps, Exits
<1>15. CASE BeginShutdown
  BY <1>15 DEF BeginShutdown, broker, Typed, MainSteps, StopSteps, Exits
<1>16. CASE CloseBroker
  BY <1>16 DEF CloseBroker, WakeAll, stop, Typed, ConnectionStates,
     HandlerSteps, MainSteps, StopSteps, Exits
<1>17. CASE CloseConnections
  BY <1>17 DEF CloseConnections, broker, stop, Typed, ConnectionStates,
     HandlerSteps, MainSteps, StopSteps, Exits
<1>18. CASE JoinHandlers
  BY <1>18 DEF JoinHandlers, broker, Typed, MainSteps, StopSteps, Exits
<1>19. CASE JoinWriters
  BY <1>19 DEF JoinWriters, broker, Typed, MainSteps, StopSteps, Exits
<1>20. CASE Finish
  BY <1>20 DEF Finish, broker, stop, Typed, MainSteps, StopSteps, Exits
<1>21. CASE Publish
  BY <1>21 DEF Publish, WakeAll, stop, Typed, ConnectionStates,
     HandlerSteps, Sequences
<1>22. CASE Signal
  BY <1>22 DEF Signal, broker, stop, Typed, ConnectionStates, HandlerSteps,
     MainSteps, StopSteps, Exits
<1>23. CASE CleanupDeadlinePasses
  BY <1>23 DEF CleanupDeadlinePasses, StopSteps, broker, Typed, MainSteps,
     Exits
<1>24. CASE HardStop
  BY <1>24 DEF HardStop, StopSteps, broker, stop, Typed, MainSteps, Exits
<1>25. CASE \E w \in Writers : WriterEnds(w)
  BY <1>25 DEF WriterEnds, broker, Typed
<1>26. CASE UNCHANGED vars
  BY <1>26 DEF vars, broker, stop, Typed
<1> QED
  BY <1>1, <1>2, <1>3, <1>4, <1>5, <1>6, <1>7, <1>8, <1>9, <1>10, <1>11,
     <1>12, <1>13, <1>14, <1>15, <1>16, <1>17, <1>18, <1>19, <1>20, <1>21,
     <1>22, <1>23, <1>24, <1>25, <1>26 DEF Next, MainNext, HandlerNext

\* A step leaves the waiting handlers and their count alone, or takes one
\* place, if there is one, or gives one back.
WaitingSame == Waiting' = Waiting /\ waiters' = waiters
WaitingTaken ==
  /\ waiters < MAX_EVENT_WAITERS
  /\ waiters' = waiters + 1
  /\ \E c \in Connections \ Waiting : Waiting' = Waiting \cup {c}
WaitingReturned ==
  /\ waiters' = waiters - 1
  /\ \E c \in Waiting : Waiting' = Waiting \ {c}

LEMMA WaitingStep ==
  ASSUME Typed, [Next]_vars
  PROVE  WaitingSame \/ WaitingTaken \/ WaitingReturned
<1> USE LimitAssumption
<1>1. CASE \E c \in Connections : ThreadStarts(c)
  BY <1>1 DEF ThreadStarts, At, Goes, broker, WaitingSame, Waiting, Typed
<1>2. CASE \E c \in Connections : RequestRead(c)
  BY <1>2 DEF RequestRead, At, Goes, broker, WaitingSame, Waiting, Typed
<1>3. CASE \E c \in Connections : ReadFails(c)
  BY <1>3 DEF ReadFails, At, Goes, broker, WaitingSame, Waiting, Typed
<1>4. CASE \E c \in Connections : Ask(c)
  <2> PICK c \in Connections : Ask(c)
    BY <1>4
  <2>1. CASE Answers(c, NoCursor) /\ UNCHANGED waiters
    BY <2>1 DEF Ask, Answers, At, Typed, Waiting, WaitingSame
  <2>2. CASE Answers(c, sequence) /\ UNCHANGED waiters
    BY <2>2 DEF Ask, Answers, At, Typed, Waiting, WaitingSame
  <2>3. CASE /\ waiters < MAX_EVENT_WAITERS
             /\ Goes(c, "asleep")
             /\ waiters' = waiters + 1
    <3>1. Waiting' = Waiting \cup {c} /\ c \notin Waiting
      BY <2>3 DEF Ask, Goes, At, Typed, Waiting
    <3> QED
      BY <2>3, <3>1 DEF WaitingTaken
  <2> QED
    BY <2>1, <2>2, <2>3 DEF Ask, Typed
<1>5. CASE \E c \in Connections : Resume(c)
  BY <1>5 DEF Resume, At, Answers, WaitingSame, Waiting, Typed,
     WaitingReturned
<1>6. CASE \E c \in Connections : AnswerWritten(c)
  BY <1>6 DEF AnswerWritten, At, Goes, broker, WaitingSame, Waiting, Typed
<1>7. CASE \E c \in Connections : HandlerEnds(c)
  BY <1>7 DEF HandlerEnds, At, Idle, broker, WaitingSame, Waiting, Typed
<1>8. CASE \E c \in Connections : Admit(c)
  BY <1>8 DEF Admit, Idle, broker, WaitingSame, Waiting, Typed
<1>9. CASE \E c \in Connections : ThreadStartFails(c)
  BY <1>9 DEF ThreadStartFails, At, Idle, broker, WaitingSame, Waiting,
     Typed
<1>10. CASE \E c \in Connections : AnswerUnauthorized(c)
  BY <1>10 DEF AnswerUnauthorized, At, Goes, broker, WaitingSame, Waiting,
     Typed
<1>11. CASE \E c \in Connections : WaitTimesOut(c)
  BY <1>11 DEF WaitTimesOut, At, Goes, broker, WaitingSame, Waiting, Typed
<1>12. CASE \E c \in Connections : DeadlineCloses(c)
  BY <1>12 DEF DeadlineCloses, broker, WaitingSame, Waiting, Typed
<1>13. CASE \E c \in Connections : ConnectionBreaks(c)
  BY <1>13 DEF ConnectionBreaks, broker, WaitingSame, Waiting, Typed
<1>14. CASE RequestStop
  BY <1>14 DEF RequestStop, broker, WaitingSame, Waiting, Typed
<1>15. CASE BeginShutdown
  BY <1>15 DEF BeginShutdown, broker, WaitingSame, Waiting, Typed
<1>16. CASE CloseBroker
  BY <1>16 DEF CloseBroker, WakeAll, WaitingSame, Waiting, Typed
<1>17. CASE CloseConnections
  BY <1>17 DEF CloseConnections, broker, WaitingSame, Waiting, Typed
<1>18. CASE JoinHandlers
  BY <1>18 DEF JoinHandlers, broker, WaitingSame, Waiting, Typed
<1>19. CASE JoinWriters
  BY <1>19 DEF JoinWriters, broker, WaitingSame, Waiting, Typed
<1>20. CASE Finish
  BY <1>20 DEF Finish, broker, WaitingSame, Waiting, Typed
<1>21. CASE Publish
  BY <1>21 DEF Publish, WakeAll, WaitingSame, Waiting, Typed
<1>22. CASE Signal
  BY <1>22 DEF Signal, broker, WaitingSame, Waiting, Typed
<1>23. CASE CleanupDeadlinePasses
  BY <1>23 DEF CleanupDeadlinePasses, broker, WaitingSame, Waiting, Typed
<1>24. CASE HardStop
  BY <1>24 DEF HardStop, broker, WaitingSame, Waiting, Typed
<1>25. CASE \E w \in Writers : WriterEnds(w)
  BY <1>25 DEF WriterEnds, broker, WaitingSame, Waiting, Typed
<1>26. CASE UNCHANGED vars
  BY <1>26 DEF vars, broker, WaitingSame, Waiting, Typed
<1> QED
  BY <1>1, <1>2, <1>3, <1>4, <1>5, <1>6, <1>7, <1>8, <1>9, <1>10, <1>11,
     <1>12, <1>13, <1>14, <1>15, <1>16, <1>17, <1>18, <1>19, <1>20, <1>21,
     <1>22, <1>23, <1>24, <1>25, <1>26 DEF Next, MainNext, HandlerNext

\* A step admits a connection while there is room, or lets some go; only the
\* serving main thread admits.
HandlersAdmitted ==
  /\ main = "serving"
  /\ Cardinality(Handlers) < MAX_ACTIVE_HANDLERS
  /\ \E c \in Connections \ Handlers : Handlers' = Handlers \cup {c}

LEMMA HandlersStep ==
  ASSUME Typed, [Next]_vars
  PROVE  HandlersAdmitted \/ Handlers' \subseteq Handlers
<1>1. CASE \E c \in Connections : ThreadStarts(c)
  BY <1>1 DEF ThreadStarts, At, Goes, broker, Handlers, Typed
<1>2. CASE \E c \in Connections : RequestRead(c)
  BY <1>2 DEF RequestRead, At, Goes, broker, Handlers, Typed
<1>3. CASE \E c \in Connections : ReadFails(c)
  BY <1>3 DEF ReadFails, At, Goes, broker, Handlers, Typed
<1>4. CASE \E c \in Connections : Ask(c)
  BY <1>4 DEF Ask, At, Answers, Goes, Handlers, Typed
<1>5. CASE \E c \in Connections : Resume(c)
  BY <1>5 DEF Resume, At, Answers, Handlers, Typed
<1>6. CASE \E c \in Connections : AnswerWritten(c)
  BY <1>6 DEF AnswerWritten, At, Goes, broker, Handlers, Typed
<1>7. CASE \E c \in Connections : HandlerEnds(c)
  BY <1>7 DEF HandlerEnds, At, Idle, broker, Handlers, Typed
<1>8. CASE \E c \in Connections : Admit(c)
  BY <1>8 DEF Admit, Idle, broker, Handlers, Typed, HandlersAdmitted
<1>9. CASE \E c \in Connections : ThreadStartFails(c)
  BY <1>9 DEF ThreadStartFails, At, Idle, broker, Handlers, Typed
<1>10. CASE \E c \in Connections : AnswerUnauthorized(c)
  BY <1>10 DEF AnswerUnauthorized, At, Goes, broker, Handlers, Typed
<1>11. CASE \E c \in Connections : WaitTimesOut(c)
  BY <1>11 DEF WaitTimesOut, At, Goes, broker, Handlers, Typed
<1>12. CASE \E c \in Connections : DeadlineCloses(c)
  BY <1>12 DEF DeadlineCloses, broker, Handlers, Typed
<1>13. CASE \E c \in Connections : ConnectionBreaks(c)
  BY <1>13 DEF ConnectionBreaks, broker, Handlers, Typed
<1>14. CASE RequestStop
  BY <1>14 DEF RequestStop, broker, Handlers, Typed
<1>15. CASE BeginShutdown
  BY <1>15 DEF BeginShutdown, broker, Handlers, Typed
<1>16. CASE CloseBroker
  BY <1>16 DEF CloseBroker, WakeAll, Handlers, Typed
<1>17. CASE CloseConnections
  BY <1>17 DEF CloseConnections, broker, Handlers, Typed
<1>18. CASE JoinHandlers
  BY <1>18 DEF JoinHandlers, broker, Handlers, Typed
<1>19. CASE JoinWriters
  BY <1>19 DEF JoinWriters, broker, Handlers, Typed
<1>20. CASE Finish
  BY <1>20 DEF Finish, broker, Handlers, Typed
<1>21. CASE Publish
  BY <1>21 DEF Publish, WakeAll, Handlers, Typed
<1>22. CASE Signal
  BY <1>22 DEF Signal, broker, Handlers, Typed
<1>23. CASE CleanupDeadlinePasses
  BY <1>23 DEF CleanupDeadlinePasses, broker, Handlers, Typed
<1>24. CASE HardStop
  BY <1>24 DEF HardStop, broker, Handlers, Typed
<1>25. CASE \E w \in Writers : WriterEnds(w)
  BY <1>25 DEF WriterEnds, broker, Handlers, Typed
<1>26. CASE UNCHANGED vars
  BY <1>26 DEF vars, broker, Handlers, Typed
<1> QED
  BY <1>1, <1>2, <1>3, <1>4, <1>5, <1>6, <1>7, <1>8, <1>9, <1>10, <1>11,
     <1>12, <1>13, <1>14, <1>15, <1>16, <1>17, <1>18, <1>19, <1>20, <1>21,
     <1>22, <1>23, <1>24, <1>25, <1>26 DEF Next, MainNext, HandlerNext

\* Only Ask puts a handler to sleep, and what it slept through wakes it.
LEMMA SleepStep ==
  ASSUME Typed, NothingSleptThrough, [Next]_vars
  PROVE  NothingSleptThrough'
<1>1. CASE \E c \in Connections : ThreadStarts(c)
  BY <1>1 DEF ThreadStarts, At, Goes, broker, NothingSleptThrough, Typed
<1>2. CASE \E c \in Connections : RequestRead(c)
  BY <1>2 DEF RequestRead, At, Goes, broker, NothingSleptThrough, Typed
<1>3. CASE \E c \in Connections : ReadFails(c)
  BY <1>3 DEF ReadFails, At, Goes, broker, NothingSleptThrough, Typed
<1>4. CASE \E c \in Connections : Ask(c)
  <2> PICK c \in Connections : Ask(c)
    BY <1>4
  <2>1. CASE Answers(c, NoCursor) \/ Answers(c, sequence)
    <3>1. \A x \in Connections : conn'[x].pc = "asleep" => conn[x].pc = "asleep"
      BY <2>1 DEF Answers, Typed, ConnectionStates
    <3> QED
      BY <3>1 DEF Ask, NothingSleptThrough
  <2>2. CASE Goes(c, "asleep") /\ ~closed /\ known[c] = sequence
    BY <2>2 DEF Ask, Goes, NothingSleptThrough, Typed
  <2> QED
    BY <2>1, <2>2 DEF Ask
<1>5. CASE \E c \in Connections : Resume(c)
  BY <1>5 DEF Resume, At, Answers, NothingSleptThrough, Typed
<1>6. CASE \E c \in Connections : AnswerWritten(c)
  BY <1>6 DEF AnswerWritten, At, Goes, broker, NothingSleptThrough, Typed
<1>7. CASE \E c \in Connections : HandlerEnds(c)
  BY <1>7 DEF HandlerEnds, At, Idle, broker, NothingSleptThrough, Typed
<1>8. CASE \E c \in Connections : Admit(c)
  BY <1>8 DEF Admit, Idle, broker, NothingSleptThrough, Typed
<1>9. CASE \E c \in Connections : ThreadStartFails(c)
  BY <1>9 DEF ThreadStartFails, At, Idle, broker, NothingSleptThrough,
     Typed
<1>10. CASE \E c \in Connections : AnswerUnauthorized(c)
  BY <1>10 DEF AnswerUnauthorized, At, Goes, broker, NothingSleptThrough,
     Typed
<1>11. CASE \E c \in Connections : WaitTimesOut(c)
  BY <1>11 DEF WaitTimesOut, At, Goes, broker, NothingSleptThrough, Typed
<1>12. CASE \E c \in Connections : DeadlineCloses(c)
  BY <1>12 DEF DeadlineCloses, broker, NothingSleptThrough, Typed
<1>13. CASE \E c \in Connections : ConnectionBreaks(c)
  BY <1>13 DEF ConnectionBreaks, broker, NothingSleptThrough, Typed
<1>14. CASE RequestStop
  BY <1>14 DEF RequestStop, broker, NothingSleptThrough, Typed
<1>15. CASE BeginShutdown
  BY <1>15 DEF BeginShutdown, broker, NothingSleptThrough, Typed
<1>16. CASE CloseBroker
  BY <1>16 DEF CloseBroker, WakeAll, NothingSleptThrough, Typed
<1>17. CASE CloseConnections
  <2>1. \A c \in Connections : conn'[c].pc = conn[c].pc
    BY <1>17 DEF CloseConnections, Typed, ConnectionStates
  <2> QED
    BY <1>17, <2>1 DEF CloseConnections, broker, NothingSleptThrough
<1>18. CASE JoinHandlers
  BY <1>18 DEF JoinHandlers, broker, NothingSleptThrough, Typed
<1>19. CASE JoinWriters
  BY <1>19 DEF JoinWriters, broker, NothingSleptThrough, Typed
<1>20. CASE Finish
  BY <1>20 DEF Finish, broker, NothingSleptThrough, Typed
<1>21. CASE Publish
  BY <1>21 DEF Publish, WakeAll, NothingSleptThrough, Typed
<1>22. CASE Signal
  BY <1>22 DEF Signal, broker, NothingSleptThrough, Typed
<1>23. CASE CleanupDeadlinePasses
  BY <1>23 DEF CleanupDeadlinePasses, broker, NothingSleptThrough, Typed
<1>24. CASE HardStop
  BY <1>24 DEF HardStop, broker, NothingSleptThrough, Typed
<1>25. CASE \E w \in Writers : WriterEnds(w)
  BY <1>25 DEF WriterEnds, broker, NothingSleptThrough, Typed
<1>26. CASE UNCHANGED vars
  BY <1>26 DEF vars, broker, NothingSleptThrough, Typed
<1> QED
  BY <1>1, <1>2, <1>3, <1>4, <1>5, <1>6, <1>7, <1>8, <1>9, <1>10, <1>11,
     <1>12, <1>13, <1>14, <1>15, <1>16, <1>17, <1>18, <1>19, <1>20, <1>21,
     <1>22, <1>23, <1>24, <1>25, <1>26 DEF Next, MainNext, HandlerNext

\* What the joins found stays true.
LEMMA JoinsStep ==
  ASSUME Typed, JoinsHold, [Next]_vars
  PROVE  JoinsHold'
<1>0. main # "serving" => Handlers' \subseteq Handlers
  BY HandlersStep DEF HandlersAdmitted
<1> USE <1>0
<1>1. CASE \E c \in Connections : ThreadStarts(c)
  BY <1>1 DEF ThreadStarts, stop, JoinsHold
<1>2. CASE \E c \in Connections : RequestRead(c)
  BY <1>2 DEF RequestRead, stop, JoinsHold
<1>3. CASE \E c \in Connections : ReadFails(c)
  BY <1>3 DEF ReadFails, stop, JoinsHold
<1>4. CASE \E c \in Connections : Ask(c)
  BY <1>4 DEF Ask, stop, JoinsHold
<1>5. CASE \E c \in Connections : Resume(c)
  BY <1>5 DEF Resume, stop, JoinsHold
<1>6. CASE \E c \in Connections : AnswerWritten(c)
  BY <1>6 DEF AnswerWritten, stop, JoinsHold
<1>7. CASE \E c \in Connections : HandlerEnds(c)
  BY <1>7 DEF HandlerEnds, stop, JoinsHold
<1>8. CASE \E c \in Connections : Admit(c)
  BY <1>8 DEF Admit, stop, JoinsHold
<1>9. CASE \E c \in Connections : ThreadStartFails(c)
  BY <1>9 DEF ThreadStartFails, stop, JoinsHold
<1>10. CASE \E c \in Connections : AnswerUnauthorized(c)
  BY <1>10 DEF AnswerUnauthorized, stop, JoinsHold
<1>11. CASE \E c \in Connections : WaitTimesOut(c)
  BY <1>11 DEF WaitTimesOut, stop, JoinsHold
<1>12. CASE \E c \in Connections : DeadlineCloses(c)
  BY <1>12 DEF DeadlineCloses, stop, JoinsHold
<1>13. CASE \E c \in Connections : ConnectionBreaks(c)
  BY <1>13 DEF ConnectionBreaks, stop, JoinsHold
<1>14. CASE RequestStop
  BY <1>14 DEF RequestStop, JoinsHold
<1>15. CASE BeginShutdown
  BY <1>15 DEF BeginShutdown, JoinsHold
<1>16. CASE CloseBroker
  BY <1>16 DEF CloseBroker, stop, JoinsHold
<1>17. CASE CloseConnections
  BY <1>17 DEF CloseConnections, stop, JoinsHold
<1>18. CASE JoinHandlers
  BY <1>18 DEF JoinHandlers, JoinsHold
<1>19. CASE JoinWriters
  BY <1>19 DEF JoinWriters, JoinsHold
<1>20. CASE Finish
  BY <1>20 DEF Finish, stop, JoinsHold
<1>21. CASE Publish
  BY <1>21 DEF Publish, stop, JoinsHold
<1>22. CASE Signal
  BY <1>22 DEF Signal, stop, JoinsHold
<1>23. CASE CleanupDeadlinePasses
  BY <1>23 DEF CleanupDeadlinePasses, StopSteps, JoinsHold
<1>24. CASE HardStop
  BY <1>24 DEF HardStop, StopSteps, stop, JoinsHold
<1>25. CASE \E w \in Writers : WriterEnds(w)
  BY <1>25 DEF WriterEnds, JoinsHold
<1>26. CASE UNCHANGED vars
  BY <1>26 DEF vars, stop, JoinsHold
<1> QED
  BY <1>1, <1>2, <1>3, <1>4, <1>5, <1>6, <1>7, <1>8, <1>9, <1>10, <1>11,
     <1>12, <1>13, <1>14, <1>15, <1>16, <1>17, <1>18, <1>19, <1>20, <1>21,
     <1>22, <1>23, <1>24, <1>25, <1>26 DEF Next, MainNext, HandlerNext

LEMMA FiniteHandlers == IsFiniteSet(Handlers) /\ IsFiniteSet(Waiting)
BY ConnectionAssumption, FS_Subset DEF Handlers, Waiting

\* The places: a handler, or a waiter among them, is counted once.
LEMMA PlacesStep ==
  ASSUME ServiceInv, [Next]_vars
  PROVE  /\ waiters' \in Nat
         /\ waiters' <= MAX_EVENT_WAITERS
         /\ PlacesReturned'
<1>1. Typed /\ PlacesReturned /\ waiters \in Nat /\ waiters <= MAX_EVENT_WAITERS
  BY DEF ServiceInv, ServiceTypeOK, Typed
<1>2. IsFiniteSet(Waiting)
  BY FiniteHandlers
<1>3. CASE WaitingSame
  BY <1>1, <1>3 DEF WaitingSame, PlacesReturned
<1>4. CASE WaitingTaken
  <2>1. PICK c \in Connections \ Waiting : Waiting' = Waiting \cup {c}
    BY <1>4 DEF WaitingTaken
  <2>2. Cardinality(Waiting') = Cardinality(Waiting) + 1
    BY <1>2, <2>1, FS_AddElement
  <2> QED
    BY <1>1, <1>4, <2>2, LimitAssumption DEF WaitingTaken, PlacesReturned
<1>5. CASE WaitingReturned
  <2>1. PICK c \in Waiting : Waiting' = Waiting \ {c}
    BY <1>5 DEF WaitingReturned
  <2>2. Cardinality(Waiting') = Cardinality(Waiting) - 1 /\ Cardinality(Waiting') \in Nat
    BY <1>2, <2>1, FS_RemoveElement, FS_CardinalityType
  <2> QED
    BY <1>1, <1>5, <2>2, LimitAssumption DEF WaitingReturned, PlacesReturned
<1> QED
  BY <1>1, <1>3, <1>4, <1>5, WaitingStep

LEMMA RoomStep ==
  ASSUME Typed, Cardinality(Handlers) <= MAX_ACTIVE_HANDLERS, [Next]_vars
  PROVE  Cardinality(Handlers') <= MAX_ACTIVE_HANDLERS
<1>1. IsFiniteSet(Handlers) /\ Cardinality(Handlers) \in Nat
  BY FiniteHandlers, FS_CardinalityType
<1>2. CASE HandlersAdmitted
  <2>1. PICK c \in Connections \ Handlers : Handlers' = Handlers \cup {c}
    BY <1>2 DEF HandlersAdmitted
  <2>2. Cardinality(Handlers') = Cardinality(Handlers) + 1
    BY <1>1, <2>1, FS_AddElement
  <2> QED
    BY <1>1, <1>2, <2>2, LimitAssumption DEF HandlersAdmitted
<1>3. CASE Handlers' \subseteq Handlers
  <2>1. Cardinality(Handlers') <= Cardinality(Handlers) /\ IsFiniteSet(Handlers')
    BY <1>1, <1>3, FS_Subset
  <2>2. Cardinality(Handlers') \in Nat
    BY <2>1, FS_CardinalityType
  <2> QED
    BY <1>1, <2>1, <2>2, LimitAssumption
<1> QED
  BY <1>2, <1>3, HandlersStep

LEMMA ServiceInit ==
  ASSUME Init
  PROVE  ServiceInv
<1>1. Typed
  <2>1. Idle \in ConnectionStates
    BY DEF Idle, ConnectionStates
  <2>2. conn \in [Connections -> ConnectionStates]
    BY <2>1 DEF Init
  <2>3. known \in [Connections -> {NoCursor, OldCursor} \cup Sequences]
    BY FirstCursorAssumption DEF Init
  <2>4. sequence \in Sequences /\ faults \in 0..MaxFaults
    BY BoundAssumption DEF Init, Sequences
  <2> QED
    BY <2>2, <2>3, <2>4 DEF Init, Typed, MainSteps
<1>2. Handlers = {} /\ Waiting = {}
  BY DEF Init, Handlers, Waiting, Idle
<1>3. Cardinality({}) = 0
  BY FS_EmptySet
<1>4. ServiceTypeOK
  BY <1>1, <1>2, <1>3, LimitAssumption DEF ServiceTypeOK, Init
<1> QED
  BY <1>2, <1>3, <1>4
  DEF Init, Idle, ServiceInv, NothingSleptThrough, PlacesReturned, JoinsHold

LEMMA ServicePreserved ==
  ASSUME ServiceInv, [Next]_vars
  PROVE  ServiceInv'
<1>1. Typed /\ Cardinality(Handlers) <= MAX_ACTIVE_HANDLERS /\ NothingSleptThrough /\ JoinsHold
  BY DEF ServiceInv, ServiceTypeOK
<1>2. waiters' \in Nat /\ waiters' <= MAX_EVENT_WAITERS /\ PlacesReturned'
  BY PlacesStep
<1>3. Typed'
  BY <1>1, <1>2, TypedStep
<1>4. Cardinality(Handlers') <= MAX_ACTIVE_HANDLERS
  BY <1>1, RoomStep
<1>5. NothingSleptThrough' /\ JoinsHold'
  BY <1>1, SleepStep, JoinsStep
<1> QED
  BY <1>2, <1>3, <1>4, <1>5 DEF ServiceInv, ServiceTypeOK

\* The inductive invariant holds in every reachable state.
THEOREM ServiceInvariant == ServiceSpec => []ServiceInv
<1>1. Init => ServiceInv
  BY ServiceInit
<1>2. ServiceInv /\ [Next]_vars => ServiceInv'
  BY ServicePreserved
<1> QED
  BY <1>1, <1>2, PTL DEF ServiceSpec

\* Types and bounds: never more handlers or waiters than there are places.
THEOREM ServiceTypeCorrect == ServiceSpec => []ServiceTypeOK
<1>1. ServiceInv => ServiceTypeOK
  BY DEF ServiceInv
<1> QED
  BY <1>1, ServiceInvariant, PTL

\* A sleeping handler knows the latest event, and its broker is open: neither
\* a publication nor the shutdown is slept through (event_broker.py:95-130).
THEOREM NoLostWakeup == ServiceSpec => []NothingSleptThrough
<1>1. ServiceInv => NothingSleptThrough
  BY DEF ServiceInv
<1> QED
  BY <1>1, ServiceInvariant, PTL

\* The broker's count is the number of handlers that wait: no place is lost
\* or given back twice, however a wait ends (event_broker.py:112-124).
THEOREM WaitersCounted == ServiceSpec => []PlacesReturned
<1>1. ServiceInv => PlacesReturned
  BY DEF ServiceInv
<1> QED
  BY <1>1, ServiceInvariant, PTL

\* "service_stopped" is reported only when every thread has ended
\* (server.py:383-396).
THEOREM CleanStop == ServiceSpec => []CleanExitIsQuiet
<1>1. ServiceInv => CleanExitIsQuiet
  BY DEF ServiceInv, JoinsHold, CleanExitIsQuiet
<1> QED
  BY <1>1, ServiceInvariant, PTL

=============================================================================
