-------------------------- MODULE StatisticsImport --------------------------
(***************************************************************************)
(* CezPndStatisticsManager (statistics.py) beside the coordinator it       *)
(* listens to.  A revision it has not seen is read in full, or corrected   *)
(* in its last days, aggregated to hours and imported into the Recorder.   *)
(*                                                                         *)
(* The Recorder executes clears and imports in the order they are queued,  *)
(* so "recorder" stands for what it holds when its queue is empty; whether *)
(* a clear is reported in time is another matter.                          *)
(***************************************************************************)
EXTENDS DatasetCoordinator, Sequences, Functions

CONSTANTS
    HOUR,                    \* quarter-hours of an hour
    HISTORY_WINDOW,          \* quarter-hours of a history window, 60 days
    RECENT_CORRECTION,       \* quarter-hours of a correction, 7 days
    MAX_HISTORY_WINDOWS

ASSUME StatisticsAssumption ==
    /\ HOUR \in Nat \ {0}
    /\ \A t \in {HISTORY_WINDOW, RECENT_CORRECTION} \cup {c.dayEnd : c \in Collections} :
           t \in Nat \ {0} /\ t % HOUR = 0
    /\ HISTORY_WINDOW <= MAX_RANGE /\ RECENT_CORRECTION <= MAX_RANGE
    /\ MAX_HISTORY_WINDOWS \in Nat \ {0}

VARIABLES
    known,     \* what the last successful synchronization left
    attempted, \* _last_attempted_revision
    pending,   \* _pending_status
    job,       \* the background task
    recorder,  \* cumulative sums of both external statistics
    clearLost  \* history: a clear timed out and no full rebuild followed

managerVars == <<known, attempted, pending, job, recorder, clearLost>>
vars == <<datasetVars, coordinatorVars, managerVars>>

-----------------------------------------------------------------------------
(* Hours *)

GridExport == 0
GridImport == 1
Channels == {GridExport, GridImport}
Streams == <<GridImport, GridExport>>

Hours == 0 .. (Quarters \div HOUR) - 1
NoHours == [c \in Channels |-> [h \in Hours |-> Absent]]

HourIntervals(c, h) == {2 * q + c : q \in HOUR * h .. HOUR * h + HOUR - 1}

\* Only an hour whose quarter-hours are all valid has a value.
Hourly(values) ==
    [c \in Channels |-> [h \in Hours |->
        LET quarters == Restrict(values, HourIntervals(c, h))
        IN  IF Range(quarters) \subseteq Energy THEN SumFunction(quarters) ELSE Absent]]

\* The hours of both, which no hour shares.
Merged(a, b) ==
    [c \in Channels |-> [h \in Hours |-> IF a[c][h] # Absent THEN a[c][h] ELSE b[c][h]]]
Overlap(a, b) == \E c \in Channels, h \in Hours : a[c][h] # Absent /\ b[c][h] # Absent

\* The sum of the known hours up to the last one of the prefix.
Total(prefix) ==
    SumFunctionOnSet(prefix, {h \in DOMAIN prefix : prefix[h] # Absent})
Cumulative(hours) ==
    [h \in Hours |-> IF hours[h] = Absent THEN Absent
                     ELSE Total([x \in 0 .. h |-> hours[x]])]

CeilHour(t) == HOUR * ((t + HOUR - 1) \div HOUR)

\* The whole local day of the last success may hold placeholders.
HistoryEnd(status) ==
    IF CeilHour(status.meta.timestamp) > status.meta.success
    THEN CeilHour(status.meta.timestamp) ELSE status.meta.success

InCorrection(status, h) ==
    /\ CeilHour(status.meta.timestamp) - RECENT_CORRECTION <= HOUR * h
    /\ HOUR * h < CeilHour(status.meta.timestamp)

-----------------------------------------------------------------------------
(* Scheduling *)

Nothing == [hourly |-> None, revision |-> 0, expected |-> 0, status |-> None]
NoJob == [step |-> "idle", status |-> None, full |-> FALSE, expected |-> 0,
          windows |-> 0, hourly |-> NoHours, left |-> <<>>]

RevisionOf(status) == IF status = None THEN 0 ELSE status.meta.revision

Unseen(status) ==
    status.meta.revision \notin {known.revision, attempted,
                            RevisionOf(job.status), RevisionOf(pending)}

ScheduleIfIdle(status) ==   \* mutated: a status that comes while a task runs is dropped
    /\ pending' = IF Unseen(status) /\ job = NoJob THEN status ELSE pending
    /\ UNCHANGED <<known, attempted, job, recorder, clearLost>>

\* The listener of the coordinator.
Schedule(status) ==
    /\ pending' = IF Unseen(status) THEN status ELSE pending
    /\ UNCHANGED <<known, attempted, job, recorder, clearLost>>

Refresh ==
    /\ CoordinatorStep
    /\ IF snapshot' # snapshot THEN Schedule(snapshot'.status)
       ELSE UNCHANGED managerVars

ReadRange(lo, hi) == reads' = [reads EXCEPT !["statistics"] = Reading(lo, hi)]
ReadOver == reads' = [reads EXCEPT !["statistics"] = Rest]

NeedsFullHistory(status) ==
    \/ known.hourly = None
    \/ known.expected # status.meta.expected

\* The task takes the newest status; a revision is attempted once.
Begin ==
    /\ job = NoJob
    /\ pending # None
    /\ LET full == NeedsFullHistory(pending)
           end == IF full THEN HistoryEnd(pending) ELSE CeilHour(pending.meta.timestamp)
       IN  /\ job' = [NoJob EXCEPT !.step = "reading", !.status = pending, !.full = full]
           /\ ReadRange(end - (IF full THEN HISTORY_WINDOW ELSE RECENT_CORRECTION), end)
    /\ attempted' = pending.meta.revision
    /\ pending' = None
    /\ UNCHANGED <<store, faults, coordinatorVars, known, recorder, clearLost>>

-----------------------------------------------------------------------------
(* Reading *)

Window == reads["statistics"]
SoFar == job.expected + Window.first.completeness.expected

WindowUsable ==
    /\ Window.at = "done"
    /\ SameDataset(job.status, Window.first)
    /\ job.full => /\ SoFar <= job.status.meta.expected
                   /\ ~Overlap(job.hourly, Hourly(Window.values))

\* Nothing older is left when the intervals seen are all the dataset has.
HistoryWhole == SoFar = job.status.meta.expected

OlderWindow ==
    /\ job.step = "reading"
    /\ job.full
    /\ WindowUsable
    /\ ~HistoryWhole
    /\ job.windows + 1 < MAX_HISTORY_WINDOWS
    /\ job' = [job EXCEPT !.expected = SoFar, !.windows = @ + 1,
                          !.hourly = Merged(@, Hourly(Window.values))]
    /\ ReadRange(Window.lo - HISTORY_WINDOW, Window.lo)
    /\ UNCHANGED <<store, faults, coordinatorVars, known, attempted, pending,
                   recorder, clearLost>>

CorrectedByUpdate ==   \* mutated: hours the correction no longer has are kept
    [c \in Channels |-> [h \in Hours |->
        LET new == Hourly(Window.values)[c][h]
        IN  IF InCorrection(job.status, h) /\ new # Absent THEN new
            ELSE known.hourly[c][h]]]

\* The hours of the correction are replaced, those before and after it kept.
Corrected ==
    LET replacement == Hourly(Window.values)
    IN  [c \in Channels |-> [h \in Hours |->
            IF InCorrection(job.status, h) THEN replacement[c][h]
            ELSE known.hourly[c][h]]]

LastWindow ==
    /\ job.step = "reading"
    /\ WindowUsable
    /\ job.full => HistoryWhole
    /\ job' = [job EXCEPT !.step = "confirm",
                          !.hourly = IF job.full THEN Merged(@, Hourly(Window.values))
                                     ELSE Corrected]
    /\ ReadOver
    /\ UNCHANGED <<store, faults, coordinatorVars, known, attempted, pending,
                   recorder, clearLost>>

ReadingFailed ==
    /\ job.step = "reading"
    /\ \/ Window.at \in {"refused", "lost"}
       \/ Window.at = "done" /\ ~WindowUsable
       \/ /\ WindowUsable /\ job.full /\ ~HistoryWhole
          /\ job.windows + 1 = MAX_HISTORY_WINDOWS

\* The status must still be the one the read began with; the attempt time
\* may differ.
Confirmed ==
    /\ SameDataset(Status, job.status)
    /\ Status.meta.expected = job.status.meta.expected

-----------------------------------------------------------------------------
(* Importing *)

\* A full rebuild clears both streams, a correction goes stream by stream.
Confirm ==
    /\ job.step = "confirm"
    /\ Confirmed
    /\ IF job.full
       THEN /\ job' = [job EXCEPT !.step = "clearing"]
            /\ recorder' = NoHours
       ELSE /\ job' = [job EXCEPT !.step = "import", !.left = Streams]
            /\ UNCHANGED recorder
    /\ UNCHANGED <<datasetVars, coordinatorVars, known, attempted, pending,
                   clearLost>>

Removed(c) == {h \in Hours : known.hourly[c][h] # Absent /\ job.hourly[c][h] = Absent}
Changed(c) == {h \in Hours : /\ job.hourly[c][h] # Absent
                             /\ job.hourly[c][h] # known.hourly[c][h]}

UpsertedChanged(c) ==   \* mutated: only the changed hours
    [h \in Hours |->
        IF h \in Changed(c) THEN Cumulative(job.hourly[c])[h] ELSE recorder[c][h]]

\* Recorder rows from the earliest changed hour on.
Upserted(c) ==
    [h \in Hours |->
        IF job.hourly[c][h] # Absent /\ \E first \in Changed(c) : first <= h
        THEN Cumulative(job.hourly[c])[h] ELSE recorder[c][h]]

UpdateStream ==
    /\ job.step = "import"
    /\ job.left # <<>>
    /\ LET c == Head(job.left)
       IN  IF Removed(c) # {}
           THEN /\ job' = [job EXCEPT !.step = "clearing"]
                /\ recorder' = [recorder EXCEPT ![c] = NoHours[c]]
           ELSE /\ job' = [job EXCEPT !.left = Tail(@)]
                /\ recorder' = [recorder EXCEPT ![c] = Upserted(c)]
    /\ UNCHANGED <<datasetVars, coordinatorVars, known, attempted, pending,
                   clearLost>>

\* The Recorder reported the clear in time: the streams are written anew.
StreamsCleared ==
    /\ job.step = "clearing"
    /\ LET cs == IF job.full THEN Channels ELSE {Head(job.left)}
       IN  recorder' = [c \in Channels |->
               IF c \in cs THEN Cumulative(job.hourly[c]) ELSE recorder[c]]
    /\ job' = [job EXCEPT !.step = "import",
                          !.left = IF job.full THEN <<>> ELSE Tail(@)]
    /\ UNCHANGED <<datasetVars, coordinatorVars, known, attempted, pending,
                   clearLost>>

Synchronized ==
    /\ job.step = "import"
    /\ job.left = <<>>
    /\ known' = [hourly |-> job.hourly, revision |-> job.status.meta.revision,
                 expected |-> job.status.meta.expected,
                 status |-> IF job.full THEN None ELSE job.status]
    /\ job' = NoJob
    /\ clearLost' = (clearLost /\ ~job.full)
    /\ UNCHANGED <<datasetVars, coordinatorVars, attempted, pending, recorder>>

\* An exception ends the attempt; what is known stays, and so does what the
\* Recorder was told.
JobFails ==
    /\ job' = NoJob
    /\ UNCHANGED <<store, coordinatorVars, known, attempted, pending, recorder>>

ReadingFails ==
    /\ ReadingFailed
    /\ ReadOver
    /\ JobFails
    /\ UNCHANGED <<faults, clearLost>>

\* The dataset moved on since the first window, or the request failed.
ConfirmFails ==
    /\ job.step = "confirm"
    /\ JobFails
    /\ \/ ~Confirmed /\ UNCHANGED faults
       \/ Fault
    /\ UNCHANGED <<reads, clearLost>>

\* The clear stays queued, but nothing is imported after it.
ClearTimesOut ==
    /\ job.step = "clearing"
    /\ Fault
    /\ JobFails
    /\ clearLost' = TRUE
    /\ UNCHANGED reads

\* The entry is reloaded: the task is cancelled where it waits, coordinator
\* and manager are new.
Reload ==
    /\ Fault
    /\ job.step # "import"
    /\ reads' = [who \in Readers |-> Rest]
    /\ poll' = Idle /\ cache' = None /\ snapshot' = None
    /\ known' = Nothing /\ attempted' = 0 /\ pending' = None /\ job' = NoJob
    /\ clearLost' = FALSE
    /\ UNCHANGED <<store, recorder>>

ManagerStep ==
    \/ Begin
    \/ OlderWindow
    \/ LastWindow
    \/ Confirm
    \/ UpdateStream
    \/ StreamsCleared
    \/ Synchronized
    \/ ReadingFails
    \/ ConfirmFails
    \/ ClearTimesOut
    \/ ReadStep("statistics") /\ UNCHANGED <<coordinatorVars, managerVars>>

Init ==
    /\ DatasetInit
    /\ CoordinatorInit
    /\ known = Nothing
    /\ attempted = 0
    /\ pending = None
    /\ job = NoJob
    /\ recorder = NoHours
    /\ clearLost = FALSE

Next ==
    \/ Collect /\ UNCHANGED <<coordinatorVars, managerVars>>
    \/ Refresh
    \/ ManagerStep
    \/ Reload

Spec == Init /\ [][Next]_vars

\* The coordinator polls on a timer, requests and the background task end.
FairSpec == Spec /\ WF_vars(Refresh) /\ WF_vars(ManagerStep)
-----------------------------------------------------------------------------
(* Properties *)

\* Type correctness of the whole data path.
DataTypeOK ==
    /\ DatasetTypeOK
    /\ poll.step \in {"idle", "first", "second"}
    /\ attempted \in 0 .. MaxAttempts
    /\ known.revision \in 0 .. MaxAttempts
    /\ known.hourly = None => known = Nothing
    /\ job.step \in {"idle", "reading", "confirm", "clearing", "import"}
    /\ recorder \in [Channels -> [Hours -> Nat \cup {Absent}]]
    /\ clearLost \in BOOLEAN

Imported == \A c \in Channels : recorder[c] = Cumulative(known.hourly[c])

\* Between two imports the Recorder holds the cumulative sums of exactly the
\* hours the manager believes imported, whether they came by a rebuild, by rows
\* from the earliest change on or by a cleared stream; unless a clear timed out
\* (async_sync, _async_incremental_update, statistics.py).
RecorderMatches ==
    known.hourly # None /\ job.step \notin {"clearing", "import"} /\ ~clearLost
        => Imported

\* The hours believed imported are those of the revision believed imported: all
\* of them after a full history, the last days after a correction, whatever was
\* committed while windows were read (_async_full_history,
\* _async_recent_correction, statistics.py).
HoursOfRevision ==
    known.hourly # None =>
        LET of == Hourly(published[known.revision])
        IN  \A c \in Channels, h \in Hours :
                known.status = None \/ InCorrection(known.status, h) =>
                    known.hourly[c][h] = of[c][h]

\* When commits and failures have ended, the coordinator ends with the current
\* dataset.
CoordinatorCatchesUp ==
    <>[](Usable =>
            snapshot # None /\ snapshot.status.meta.revision = metadata.revision)

\* ... and the manager has tried the newest revision it was told of and rests:
\* no revision is lost between the listener and a running task.
NewestRevisionTried ==
    <>[](snapshot # None =>
            attempted = snapshot.status.meta.revision /\ pending = None /\ job = NoJob)

\* docs/project-specification.md:381: an import is checkpointed only when the
\* Recorder has it.
SynchronizedMeansImported ==
    known.hourly # None /\ job = NoJob /\ attempted = known.revision => Imported
=============================================================================
