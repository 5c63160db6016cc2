--------------------------- MODULE HistorySync_proof ---------------------------
(***************************************************************************)
(* The checkpoint of HistorySync for every chunk size, cycle length,       *)
(* overlap, number of days and of faults: it never runs ahead of the       *)
(* committed days, the chunk in hand always fits it, a complete history    *)
(* without an outage has no hole, a due current day is overtaken by one     *)
(* historical collection at most, and BackfillProgress is implemented.     *)
(***************************************************************************)
EXTENDS HistorySync, TLAPS

\* What the thread's local variables say of the row and of the days: the
\* strengthening that makes the invariants inductive.
WorkerFits ==
  /\ option # NoDay => option <= yesterday + 1
  /\ worker.latest <= yesterday
  /\ sync # NoCheckpoint /\ ~sync.complete => sync.next <= yesterday
  /\ worker.pc = "prepare" =>
       /\ option # NoDay
       /\ option <= worker.latest + 1
       /\ sync # NoCheckpoint /\ ~sync.complete => sync.next <= worker.latest
  /\ worker.pc = "collect" /\ worker.mode = "correction" =>
       /\ worker.to = worker.latest + 1
       /\ option # NoDay =>
            /\ sync # NoCheckpoint
            /\ sync.complete
            /\ worker.from <= Later(sync.start, worker.latest - (CORRECTION_OVERLAP_DAYS - 1))
  /\ worker.pc = "advance" =>
       /\ worker.mode = "backfill"
       /\ \A day \in worker.from .. worker.to - 1 : day \in asked

SyncInv ==
  /\ SyncTypeOK
  /\ CheckpointCovered
  /\ ChunkFitsCheckpoint
  /\ WholeWithoutOutage
  /\ WorkerFits

\* What a row says is true of the committed days.
RowFits(row) ==
  /\ row \in [start : Nat, next : Nat, complete : BOOLEAN]
  /\ row.start <= row.next
  /\ row.next <= yesterday + 1
  /\ \A day \in row.start .. row.next - 1 : day \in asked

\* The row in the file fits, if there is one; no field of the initial row is
\* a day.
LEMMA FileFits ==
  ASSUME SyncInv
  PROVE  /\ sync # NoCheckpoint => RowFits(sync)
         /\ sync = NoCheckpoint => sync.start = NoDay /\ ~sync.complete
         /\ sync.complete \in BOOLEAN
<1>1. sync \in Checkpoints
  BY DEF SyncInv, SyncTypeOK
<1>2. CASE sync = NoCheckpoint
  BY <1>2 DEF NoCheckpoint
<1>3. CASE sync # NoCheckpoint
  <2>1. sync \in [start : Nat, next : Nat, complete : BOOLEAN]
    BY <1>1, <1>3 DEF Checkpoints
  <2> QED
    BY <2>1, <1>3 DEF RowFits, SyncInv, CheckpointCovered
<1> QED
  BY <1>2, <1>3

\* prepare_sync_state leaves a fitting row of the configured start, with work
\* left in it unless it is complete.
LEMMA PreparedFits ==
  ASSUME SyncInv, worker.pc = "prepare"
  PROVE  /\ RowFits(Prepared(option, worker.latest))
         /\ Prepared(option, worker.latest) # NoCheckpoint
         /\ ~Prepared(option, worker.latest).complete
              => Prepared(option, worker.latest).next <= worker.latest
<1> DEFINE row == Prepared(option, worker.latest)
<1> HIDE DEF row
<1>1. /\ option \in Nat /\ option <= worker.latest + 1
      /\ worker.latest \in Nat /\ yesterday \in Nat /\ worker.latest <= yesterday
  BY DEF SyncInv, SyncTypeOK, WorkerFits, Operations
<1>2. RowFits(row) /\ (~row.complete => row.next <= worker.latest)
  <2>1. CASE sync = NoCheckpoint \/ option < sync.start
    <3>1. row = [start |-> option, next |-> option, complete |-> option > worker.latest]
      BY <2>1 DEF row, Prepared
    <3>2. row.start = option /\ row.next = option /\ row.complete = (option > worker.latest)
      BY <3>1, Zenon
    <3>3. (option > worker.latest) \in BOOLEAN
      OBVIOUS
    <3>4. row \in [start : Nat, next : Nat, complete : BOOLEAN]
      BY <1>1, <3>1, <3>3
    <3>5. ~row.complete => ~(option > worker.latest)
      BY <3>2, Zenon
    <3> QED
      BY <1>1, <3>2, <3>4, <3>5 DEF RowFits
  <2>2. CASE sync # NoCheckpoint /\ ~(option < sync.start) /\ option > sync.start
    <3>1. RowFits(sync)
      BY <2>2, FileFits
    <3>2. row = [start |-> option, next |-> Later(sync.next, option),
                 complete |-> sync.complete \/ Later(sync.next, option) > worker.latest]
      BY <2>2 DEF row, Prepared
    <3>3. /\ row.start = option /\ row.next = Later(sync.next, option)
          /\ row.complete = (sync.complete \/ Later(sync.next, option) > worker.latest)
      BY <3>2, Zenon
    <3>4. (sync.complete \/ Later(sync.next, option) > worker.latest) \in BOOLEAN
      BY Zenon
    <3>5. Later(sync.next, option) \in Nat
      BY <3>1, <1>1 DEF RowFits, Later
    <3>6. row \in [start : Nat, next : Nat, complete : BOOLEAN]
      BY <3>2, <3>4, <3>5, <1>1
    <3>7. ~row.complete => ~(Later(sync.next, option) > worker.latest)
      BY <3>3, Zenon
    <3> QED
      BY <3>1, <3>3, <3>5, <3>6, <3>7, <1>1, <2>2 DEF RowFits, Later
  <2>3. CASE sync # NoCheckpoint /\ ~(option < sync.start) /\ ~(option > sync.start)
    <3>1. row = sync
      BY <2>3 DEF row, Prepared
    <3> QED
      BY <3>1, <2>3, FileFits DEF SyncInv, WorkerFits
  <2> QED
    BY <2>1, <2>2, <2>3
<1>3. row # NoCheckpoint
  BY <1>2, DayAssumption DEF RowFits, NoCheckpoint
<1> QED
  BY <1>2, <1>3 DEF row

\* advance_sync_state leaves a fitting row, whose days were committed by the
\* chunk that ends.
LEMMA AdvancedFits ==
  ASSUME SyncInv, worker.pc = "advance"
  PROVE  /\ RowFits(Advanced)
         /\ Advanced # NoCheckpoint
         /\ Advanced.start = sync.start
         /\ Advanced.next = worker.to
         /\ Advanced.complete \in BOOLEAN
         /\ ~Advanced.complete => worker.to <= worker.latest
<1>1. /\ worker.mode = "backfill"
      /\ \A day \in worker.from .. worker.to - 1 : day \in asked
  BY DEF SyncInv, WorkerFits
<1>2. /\ sync # NoCheckpoint /\ sync.next = worker.from /\ worker.from < worker.to
      /\ worker.to <= worker.latest + 1 /\ worker.latest <= yesterday
  BY <1>1 DEF SyncInv, ChunkFitsCheckpoint
<1>3. /\ worker.from \in Nat /\ worker.to \in Nat /\ worker.latest \in Nat
      /\ yesterday \in Nat
  BY DEF SyncInv, SyncTypeOK, Operations
<1>4. RowFits(sync)
  BY <1>2, FileFits
<1>5. Advanced = [start |-> sync.start, next |-> worker.to,
                  complete |-> worker.to > worker.latest]
  BY DEF Advanced
<1>a. /\ Advanced.start = sync.start /\ Advanced.next = worker.to
      /\ Advanced.complete = (worker.to > worker.latest)
  BY <1>5, Zenon
<1>b. ~Advanced.complete => ~(worker.to > worker.latest)
  BY <1>a, Zenon
<1>c. (worker.to > worker.latest) \in BOOLEAN
  OBVIOUS
<1>6. Advanced \in [start : Nat, next : Nat, complete : BOOLEAN]
  BY <1>3, <1>4, <1>5, <1>c DEF RowFits
<1>7. RowFits(Advanced)
  BY <1>1, <1>2, <1>3, <1>4, <1>a, <1>6 DEF RowFits
<1>8. Advanced # NoCheckpoint
  BY <1>6, DayAssumption DEF NoCheckpoint
<1> QED
  BY <1>3, <1>a, <1>b, <1>6, <1>7, <1>8

\* A step to a fitting row keeps what the invariants say of the file and of
\* the history of historical operations.
LEMMA RowStep ==
  ASSUME SyncInv, NEW row, RowFits(row), row # NoCheckpoint,
         sync' = row, Covers(row), UNCHANGED <<asked, yesterday>>
  PROVE  /\ sync' \in Checkpoints
         /\ CheckpointCovered'
         /\ WholeWithoutOutage'
         /\ reached' \in Int
         /\ outage' \in BOOLEAN
<1>1. row \in [start : Nat, next : Nat, complete : BOOLEAN]
  BY DEF RowFits
<1>2. sync' \in Checkpoints
  BY <1>1 DEF Checkpoints
<1>3. CheckpointCovered'
  BY <1>1 DEF RowFits, CheckpointCovered
<1>4. reached \in Int /\ outage \in BOOLEAN
  BY DEF SyncInv, SyncTypeOK
<1>5. CASE ~row.complete
  BY <1>2, <1>3, <1>4, <1>5 DEF Covers, history, WholeWithoutOutage
<1>6. CASE row.complete /\ sync.complete /\ row.start >= sync.start
  <2>1. reached' = Later(reached, row.start - 1) /\ outage' = outage
    BY <1>6 DEF Covers
  <2>2. sync # NoCheckpoint /\ RowFits(sync)
    BY <1>6, FileFits
  <2>3. reached' \in Int /\ outage' \in BOOLEAN
    BY <2>1, <1>1, <1>4 DEF Later
  <2>4. ~outage => \A day \in sync.start .. reached : day \in asked
    BY <2>2, <1>6 DEF SyncInv, WholeWithoutOutage
  <2>5. sync.start \in Nat
    BY <2>2 DEF RowFits
  <2>6. WholeWithoutOutage'
    BY <2>1, <2>4, <2>5, <1>1, <1>4, <1>6 DEF WholeWithoutOutage, Later
  <2> QED
    BY <1>2, <1>3, <2>3, <2>6
<1>7. CASE row.complete /\ ~(sync.complete /\ row.start >= sync.start)
  <2>1. reached' = row.next - 1 /\ outage' = FALSE
    BY <1>7 DEF Covers
  <2>2. QED
    <3>1. reached' \in Int /\ outage' \in BOOLEAN
      <4>1. reached' \in Int
        BY <2>1, <1>1
      <4>2. outage' \in BOOLEAN
        BY <2>1, Zenon
      <4> QED
        BY <4>1, <4>2
    <3>2. \A day \in row.start .. row.next - 1 : day \in asked
      BY DEF RowFits
    <3>3. WholeWithoutOutage'
      BY <2>1, <3>2 DEF WholeWithoutOutage
    <3> QED
      BY <1>2, <1>3, <3>1, <3>3
<1> QED
  BY <1>5, <1>6, <1>7

-----------------------------------------------------------------------------
(* The thread's local state                                                *)

LEMMA RestingFields ==
  ASSUME NEW step \in {"decide", "prepare", "stopped", "down"}
  PROVE  /\ Resting(step) \in Operations
         /\ Resting(step).pc = step
         /\ Resting(step).latest = 0
BY ChunkAssumption DEF Resting, Operations, Modes

LEMMA CollectingFields ==
  ASSUME NEW mode \in Modes, NEW latest \in Nat, NEW from \in Nat, NEW to \in Nat,
         NEW chunk \in 0..BACKFILL_MAX_CHUNKS_PER_CYCLE
  PROVE  /\ Collecting(mode, latest, from, to, chunk) \in Operations
         /\ Collecting(mode, latest, from, to, chunk).pc = "collect"
         /\ Collecting(mode, latest, from, to, chunk).mode = mode
         /\ Collecting(mode, latest, from, to, chunk).latest = latest
         /\ Collecting(mode, latest, from, to, chunk).from = from
         /\ Collecting(mode, latest, from, to, chunk).to = to
BY DEF Collecting, Operations

\* Outside an operation nothing is said of the worker but of its row.
AtRest == worker.pc \in {"decide", "stopped", "down"} /\ worker.latest = 0

LEMMA AtRestFits ==
  ASSUME AtRest, yesterday \in Nat,
         option # NoDay => option <= yesterday + 1,
         sync # NoCheckpoint /\ ~sync.complete => sync.next <= yesterday
  PROVE  ChunkFitsCheckpoint /\ WorkerFits
BY DEF AtRest, ChunkFitsCheckpoint, WorkerFits

\* A finished operation puts the worker to rest and leaves a typed schedule.
LEMMA OperationEnds ==
  ASSUME SyncInv, NEW kind \in {"current", "historical"},
         OperationSucceeds(kind) \/ OperationFails(kind)
  PROVE  /\ worker' \in Operations
         /\ AtRest'
         /\ currentDue' \in BOOLEAN
         /\ historyDue' \in BOOLEAN
         /\ retry' \in Retries
<1>1. worker' = Resting("decide")
  BY DEF OperationSucceeds, OperationFails
<1>2. worker' \in Operations /\ AtRest'
  BY <1>1, RestingFields DEF AtRest
<1>3. retry' \in Retries
  <2>1. retry' = NoRetry \/ retry' = RetryOf(kind)
    BY Zenon DEF OperationSucceeds, OperationFails
  <2>2. NoRetry \in Retries /\ RetryOf(kind) \in Retries
    BY DEF Retries, NoRetry, RetryOf
  <2> QED
    BY <2>1, <2>2
<1>4. currentDue \in BOOLEAN /\ historyDue \in BOOLEAN
  BY DEF SyncInv, SyncTypeOK
<1>5. currentDue' \in BOOLEAN /\ historyDue' \in BOOLEAN
  BY <1>4, Zenon DEF OperationSucceeds, OperationFails
<1> QED
  BY <1>2, <1>3, <1>5

\* The file of a fresh installation.
LEMMA SyncInitInv == SyncInit => SyncInv
<1> SUFFICES ASSUME SyncInit PROVE SyncInv
  OBVIOUS
<1>1. worker \in Operations /\ AtRest
  BY RestingFields DEF SyncInit, AtRest
<1>2. /\ yesterday \in Nat
      /\ option \in Nat \cup {NoDay}
      /\ option # NoDay => option <= yesterday + 1
  BY DayAssumption DEF SyncInit, ValidStarts, Today
<1>3. sync = NoCheckpoint /\ sync \in Checkpoints
  BY DEF SyncInit, Checkpoints
<1>4. retry \in Retries
  BY DEF SyncInit, NoRetry, Retries
<1>5. SyncTypeOK
  <2>1. stop \in BOOLEAN /\ currentDue \in BOOLEAN /\ historyDue \in BOOLEAN
        /\ outage \in BOOLEAN
    BY Zenon DEF SyncInit
  <2>2. asked = {} /\ stored = {} /\ faults \in 0..MaxFaults /\ reached \in Int
    BY FaultAssumption DEF SyncInit
  <2> QED
    BY <1>1, <1>2, <1>3, <1>4, <2>1, <2>2 DEF SyncTypeOK
<1>6. ChunkFitsCheckpoint /\ WorkerFits
  BY <1>1, <1>2, <1>3, AtRestFits
<1> QED
  BY <1>3, <1>5, <1>6 DEF SyncInv, CheckpointCovered, WholeWithoutOutage

-----------------------------------------------------------------------------
(* One lemma for each kind of step                                         *)

\* Deadlines pass and a stop is requested: neither the file nor the
\* operation changes.
LEMMA SignalInv ==
  ASSUME SyncInv,
         CurrentBecomesDue \/ HistoryBecomesDue \/ RetryBecomesDue \/ RequestStop
  PROVE  SyncInv'
<1>1. UNCHANGED <<yesterday, option, sync, asked, stored, worker, faults, reached, outage>>
  BY DEF CurrentBecomesDue, HistoryBecomesDue, RetryBecomesDue, RequestStop, history
<1>2. /\ stop' \in BOOLEAN
      /\ currentDue' \in BOOLEAN
      /\ historyDue' \in BOOLEAN
      /\ retry' \in Retries
  BY DEF SyncInv, SyncTypeOK, CurrentBecomesDue, HistoryBecomesDue, RetryBecomesDue,
         RequestStop, schedule, Retries
<1> QED
  BY <1>1, <1>2
     DEF SyncInv, SyncTypeOK, CheckpointCovered, ChunkFitsCheckpoint,
         WholeWithoutOutage, WorkerFits

\* A day ends: every bound on the days only grows.
LEMMA MidnightInv ==
  ASSUME SyncInv, Midnight
  PROVE  SyncInv'
<1>1. /\ yesterday' = yesterday + 1
      /\ worker' = [worker EXCEPT !.midnight = TRUE]
      /\ UNCHANGED <<option, sync, asked, stored, stop, currentDue, historyDue, retry,
                     faults, reached, outage>>
  BY DEF Midnight, schedule, history
<1>2. worker \in Operations /\ yesterday \in Nat
  BY DEF SyncInv, SyncTypeOK
<1>3. /\ worker' \in Operations
      /\ worker'.pc = worker.pc /\ worker'.mode = worker.mode
      /\ worker'.latest = worker.latest /\ worker'.from = worker.from
      /\ worker'.to = worker.to
  BY <1>1, <1>2 DEF Operations
<1>4. SyncTypeOK'
  BY <1>1, <1>2, <1>3 DEF SyncInv, SyncTypeOK
<1>5. option \in Nat \cup {NoDay} /\ worker.latest \in Nat
  BY <1>2 DEF SyncInv, SyncTypeOK, Operations
<1>6. sync # NoCheckpoint => sync.next \in Nat
  BY FileFits DEF RowFits
<1>7. CheckpointCovered'
  BY <1>1, <1>2, <1>6 DEF SyncInv, CheckpointCovered
<1>8. ChunkFitsCheckpoint'
  BY <1>1, <1>2, <1>3, <1>5 DEF SyncInv, ChunkFitsCheckpoint
<1>9. WholeWithoutOutage'
  BY <1>1 DEF SyncInv, WholeWithoutOutage
<1>10. WorkerFits'
  BY <1>1, <1>2, <1>3, <1>5, <1>6 DEF SyncInv, WorkerFits
<1> QED
  BY <1>4, <1>7, <1>8, <1>9, <1>10 DEF SyncInv

\* The worker or the process stops, or a new process starts: the worker is at
\* rest.
LEMMA RestInv ==
  ASSUME SyncInv,
         Stops \/ ProcessEnds \/ \E start \in ValidStarts : ProcessStarts(start)
  PROVE  SyncInv'
<1>1. /\ UNCHANGED <<yesterday, sync, asked, stored, reached, outage>>
      /\ \E step \in {"decide", "stopped", "down"} : worker' = Resting(step)
      /\ faults' \in 0..MaxFaults
  <2>1. faults \in 0..MaxFaults
    BY DEF SyncInv, SyncTypeOK
  <2>2. CASE Stops
    BY <2>1, <2>2 DEF Stops, history
  <2>3. CASE ProcessEnds
    BY <2>1, <2>3, FaultAssumption DEF ProcessEnds, Fault, history
  <2>4. CASE \E start \in ValidStarts : ProcessStarts(start)
    BY <2>1, <2>4 DEF ProcessStarts, history
  <2> QED
    BY <2>2, <2>3, <2>4
<1>2. worker' \in Operations /\ AtRest'
  BY <1>1, RestingFields DEF AtRest
<1>3. /\ option' \in Nat \cup {NoDay}
      /\ option' # NoDay => option' <= yesterday + 1
  <2>1. /\ option \in Nat \cup {NoDay}
        /\ option # NoDay => option <= yesterday + 1
    BY DEF SyncInv, SyncTypeOK, WorkerFits
  <2>2. CASE UNCHANGED option
    BY <2>1, <2>2
  <2>3. CASE \E start \in ValidStarts : option' = start
    BY <2>3, DayAssumption DEF ValidStarts, Today
  <2> QED
    BY <2>2, <2>3 DEF Stops, ProcessEnds, ProcessStarts
<1>4. /\ stop' \in BOOLEAN /\ currentDue' \in BOOLEAN /\ historyDue' \in BOOLEAN
      /\ retry' \in Retries
  <2>1. stop \in BOOLEAN /\ currentDue \in BOOLEAN /\ historyDue \in BOOLEAN
        /\ retry \in Retries
    BY DEF SyncInv, SyncTypeOK
  <2>2. CASE UNCHANGED <<stop, currentDue, historyDue, retry>>
    BY <2>1, <2>2
  <2>3. CASE ProcessEnds
    <3>1. NoRetry \in Retries
      BY DEF Retries, NoRetry
    <3>2. stop' = FALSE /\ currentDue' = TRUE /\ historyDue' = TRUE /\ retry' = NoRetry
      BY <2>3 DEF ProcessEnds
    <3> QED
      BY <3>1, <3>2
  <2> QED
    BY <2>2, <2>3 DEF Stops, ProcessStarts, schedule
<1>5. SyncTypeOK'
  BY <1>1, <1>2, <1>3, <1>4 DEF SyncInv, SyncTypeOK
<1>6. ChunkFitsCheckpoint' /\ WorkerFits'
  <2>1. yesterday' \in Nat
    BY <1>5 DEF SyncTypeOK
  <2>2. sync' # NoCheckpoint /\ ~sync'.complete => sync'.next <= yesterday'
    BY <1>1 DEF SyncInv, WorkerFits
  <2> QED
    BY <1>1, <1>2, <1>3, <2>1, <2>2
       DEF AtRest, ChunkFitsCheckpoint, WorkerFits
<1>7. CheckpointCovered' /\ WholeWithoutOutage'
  BY <1>1 DEF SyncInv, CheckpointCovered, WholeWithoutOutage
<1> QED
  BY <1>5, <1>6, <1>7 DEF SyncInv

\* An operation of either kind begins, on the latest completed day.
LEMMA StartInv ==
  ASSUME SyncInv, StartCurrent \/ StartHistorical
  PROVE  SyncInv'
<1>1. UNCHANGED <<yesterday, option, sync, asked, stored, stop, currentDue, historyDue,
                  retry, faults, reached, outage>>
  BY DEF StartCurrent, StartHistorical, schedule, history
<1>2. /\ yesterday \in Nat
      /\ option # NoDay => option <= yesterday + 1
      /\ sync # NoCheckpoint /\ ~sync.complete => sync.next <= yesterday
  BY DEF SyncInv, SyncTypeOK, WorkerFits
<1>3. worker' \in Operations /\ ChunkFitsCheckpoint' /\ WorkerFits'
  <2>1. CASE StartCurrent
    <3>1. worker' = Collecting("current", yesterday, Today, Today + 1, 0)
      BY <2>1 DEF StartCurrent
    <3>2. /\ worker' \in Operations
          /\ worker'.pc = "collect" /\ worker'.mode = "current"
          /\ worker'.latest = yesterday
      BY <3>1, <1>2, CollectingFields, ChunkAssumption DEF Today, Modes
    <3> QED
      BY <3>2, <1>1, <1>2 DEF ChunkFitsCheckpoint, WorkerFits
  <2>2. CASE StartHistorical /\ option = NoDay
    <3>1. worker' = Collecting("correction", yesterday, yesterday, Today, 0)
      BY <2>2 DEF StartHistorical
    <3>2. /\ worker' \in Operations
          /\ worker'.pc = "collect" /\ worker'.mode = "correction"
          /\ worker'.latest = yesterday /\ worker'.to = yesterday + 1
      BY <3>1, <1>2, CollectingFields, ChunkAssumption DEF Today, Modes
    <3> QED
      BY <3>2, <1>1, <1>2, <2>2 DEF ChunkFitsCheckpoint, WorkerFits
  <2>3. CASE StartHistorical /\ option # NoDay
    <3>1. worker' = [Resting("prepare") EXCEPT !.latest = yesterday]
      BY <2>3 DEF StartHistorical
    <3>2. /\ worker' \in Operations
          /\ worker'.pc = "prepare" /\ worker'.latest = yesterday
      BY <3>1, <1>2, RestingFields DEF Operations
    <3> QED
      BY <3>2, <1>1, <1>2, <2>3 DEF ChunkFitsCheckpoint, WorkerFits
  <2> QED
    BY <2>1, <2>2, <2>3
<1>4. SyncTypeOK'
  BY <1>1, <1>3 DEF SyncInv, SyncTypeOK
<1>5. CheckpointCovered' /\ WholeWithoutOutage'
  BY <1>1 DEF SyncInv, CheckpointCovered, WholeWithoutOutage
<1> QED
  BY <1>3, <1>4, <1>5 DEF SyncInv

\* A failed operation: whatever fitting row it left, and whatever it committed
\* of days that are over.
LEMMA FailedInv ==
  ASSUME SyncInv, NEW kind \in {"current", "historical"},
         OperationSucceeds(kind) \/ OperationFails(kind),
         UNCHANGED <<yesterday, option, stop>>,
         faults' \in 0..MaxFaults,
         sync' \in Checkpoints,
         sync' # NoCheckpoint /\ ~sync'.complete => sync'.next <= yesterday,
         asked' \subseteq Nat, stored' \subseteq asked',
         reached' \in Int, outage' \in BOOLEAN,
         CheckpointCovered', WholeWithoutOutage'
  PROVE  SyncInv'
<1>1. /\ worker' \in Operations /\ AtRest'
      /\ currentDue' \in BOOLEAN /\ historyDue' \in BOOLEAN /\ retry' \in Retries
  BY OperationEnds
<1>2. /\ yesterday \in Nat /\ option \in Nat \cup {NoDay} /\ stop \in BOOLEAN
      /\ option # NoDay => option <= yesterday + 1
  BY DEF SyncInv, SyncTypeOK, WorkerFits
<1>3. SyncTypeOK'
  BY <1>1, <1>2 DEF SyncTypeOK
<1>4. ChunkFitsCheckpoint' /\ WorkerFits'
  BY <1>1, <1>2 DEF AtRest, ChunkFitsCheckpoint, WorkerFits
<1> QED
  BY <1>3, <1>4 DEF SyncInv

\* The checkpoint is prepared, and its first chunk or a correction begins.
LEMMA PrepareInv ==
  ASSUME SyncInv, Prepare
  PROVE  SyncInv'
<1> DEFINE row == Prepared(option, worker.latest)
<1> HIDE DEF row
<1>1. /\ worker.pc = "prepare" /\ sync' = row /\ Covers(row)
      /\ worker' = IF row.complete THEN Correction(row) ELSE Chunk(row, 1)
      /\ UNCHANGED <<yesterday, option, asked, stored, stop, currentDue, historyDue,
                     retry, faults>>
  BY DEF Prepare, row, schedule
<1>2. /\ RowFits(row) /\ row # NoCheckpoint
      /\ ~row.complete => row.next <= worker.latest
  BY <1>1, PreparedFits DEF row
<1>3. /\ sync' \in Checkpoints /\ CheckpointCovered' /\ WholeWithoutOutage'
      /\ reached' \in Int /\ outage' \in BOOLEAN
  BY <1>1, <1>2, RowStep
<1>4. /\ yesterday \in Nat /\ worker.latest \in Nat /\ worker.latest <= yesterday
      /\ option # NoDay => option <= yesterday + 1
      /\ BACKFILL_CHUNK_DAYS \in Nat \ {0}
      /\ 1 \in 0..BACKFILL_MAX_CHUNKS_PER_CYCLE /\ 0 \in 0..BACKFILL_MAX_CHUNKS_PER_CYCLE
      /\ CORRECTION_OVERLAP_DAYS \in Nat
  BY ChunkAssumption DEF SyncInv, SyncTypeOK, WorkerFits, Operations
<1>5. worker' \in Operations /\ ChunkFitsCheckpoint' /\ WorkerFits'
  <2>1. CASE row.complete
    <3> DEFINE latest == worker.latest
    <3> DEFINE overlap == Later(row.start, latest - (CORRECTION_OVERLAP_DAYS - 1))
    <3>1. row.start \in Nat
      BY <1>2 DEF RowFits
    <3>2. overlap \in Nat /\ Earlier(overlap, latest) \in Nat
          /\ Earlier(overlap, latest) <= overlap /\ latest + 1 \in Nat
      BY <3>1, <1>4 DEF Later, Earlier
    <3>3. worker' = Collecting("correction", latest, Earlier(overlap, latest), latest + 1, 0)
      BY <1>1, <2>1 DEF Correction
    <3>m. "correction" \in Modes
      BY DEF Modes
    <3> HIDE DEF overlap
    <3>4. /\ worker' \in Operations
          /\ worker'.pc = "collect" /\ worker'.mode = "correction"
          /\ worker'.latest = latest /\ worker'.to = latest + 1
          /\ worker'.from = Earlier(overlap, latest)
      <4> DEFINE op == Collecting("correction", latest, Earlier(overlap, latest), latest + 1, 0)
      <4>1. /\ op \in Operations
            /\ op.pc = "collect" /\ op.mode = "correction" /\ op.latest = latest
            /\ op.to = latest + 1 /\ op.from = Earlier(overlap, latest)
        BY <3>2, <3>m, <1>4 DEF Collecting, Operations
      <4> HIDE DEF op
      <4> QED
        BY <3>3, <4>1 DEF op
    <3>5. ChunkFitsCheckpoint'
      BY <3>4 DEF ChunkFitsCheckpoint
    <3>6. WorkerFits'
      BY <3>2, <3>4, <1>1, <1>2, <1>4, <2>1 DEF WorkerFits, overlap
    <3> QED
      BY <3>4, <3>5, <3>6
  <2>2. CASE ~row.complete
    <3> DEFINE latest == worker.latest
    <3> DEFINE to == Earlier(row.next + BACKFILL_CHUNK_DAYS, latest + 1)
    <3>1. row.next \in Nat /\ row.next <= latest
      BY <1>2, <2>2 DEF RowFits
    <3>2. /\ to \in Nat /\ row.next < to /\ to <= row.next + BACKFILL_CHUNK_DAYS
          /\ to <= latest + 1
      BY <3>1, <1>4 DEF Earlier
    <3>3. worker' = Collecting("backfill", latest, row.next, to, 1)
      BY <1>1, <2>2 DEF Chunk
    <3>m. "backfill" \in Modes
      BY DEF Modes
    <3> HIDE DEF to
    <3>4. /\ worker' \in Operations
          /\ worker'.pc = "collect" /\ worker'.mode = "backfill"
          /\ worker'.latest = latest /\ worker'.to = to /\ worker'.from = row.next
      <4> DEFINE op == Collecting("backfill", latest, row.next, to, 1)
      <4>1. /\ op \in Operations
            /\ op.pc = "collect" /\ op.mode = "backfill" /\ op.latest = latest
            /\ op.to = to /\ op.from = row.next
        BY <3>1, <3>2, <3>m, <1>4 DEF Collecting, Operations
      <4> HIDE DEF op
      <4> QED
        BY <3>3, <4>1 DEF op
    <3>5. ChunkFitsCheckpoint'
      BY <3>2, <3>4, <1>1, <1>2, <1>4, <2>2 DEF ChunkFitsCheckpoint
    <3>6. WorkerFits'
      BY <3>1, <3>4, <1>1, <1>2, <1>4, <2>2 DEF WorkerFits
    <3> QED
      BY <3>4, <3>5, <3>6
  <2> QED
    BY <2>1, <2>2
<1>6. SyncTypeOK'
  BY <1>1, <1>3, <1>5 DEF SyncInv, SyncTypeOK
<1> QED
  BY <1>3, <1>5, <1>6 DEF SyncInv

\* The transaction that prepares the checkpoint fails, or only its answer.
LEMMA PrepareFailsInv ==
  ASSUME SyncInv, PrepareFails
  PROVE  SyncInv'
<1> DEFINE row == Prepared(option, worker.latest)
<1>1. /\ worker.pc = "prepare"
      /\ OperationFails("historical")
      /\ UNCHANGED <<yesterday, option, asked, stored, stop>>
      /\ faults' \in 0..MaxFaults
      /\ UNCHANGED <<sync, history>> \/ (sync' = row /\ Covers(row))
  BY FaultAssumption DEF PrepareFails, Fault, SyncInv, SyncTypeOK
<1>2. asked \subseteq Nat /\ stored \subseteq asked
  BY DEF SyncInv, SyncTypeOK
<1>3. CASE UNCHANGED <<sync, history>>
  <2>1. /\ sync \in Checkpoints /\ reached \in Int /\ outage \in BOOLEAN
        /\ sync # NoCheckpoint /\ ~sync.complete => sync.next <= yesterday
    BY DEF SyncInv, SyncTypeOK, WorkerFits
  <2>2. CheckpointCovered' /\ WholeWithoutOutage'
    BY <1>1, <1>3 DEF SyncInv, CheckpointCovered, WholeWithoutOutage, history
  <2> QED
    BY <1>1, <1>2, <1>3, <2>1, <2>2, FailedInv DEF history
<1>4. CASE sync' = row /\ Covers(row)
  <2>1. /\ RowFits(row) /\ row # NoCheckpoint
        /\ ~row.complete => row.next <= worker.latest
    BY <1>1, PreparedFits
  <2> HIDE DEF row
  <2>2. /\ sync' \in Checkpoints /\ CheckpointCovered' /\ WholeWithoutOutage'
        /\ reached' \in Int /\ outage' \in BOOLEAN
    BY <1>1, <1>4, <2>1, RowStep
  <2>3. sync' # NoCheckpoint /\ ~sync'.complete => sync'.next <= yesterday
    BY <1>4, <2>1 DEF SyncInv, SyncTypeOK, WorkerFits, Operations, RowFits
  <2> QED
    BY <1>1, <1>2, <2>2, <2>3, FailedInv
<1> QED
  BY <1>1, <1>3, <1>4

\* The days of the collection in hand are over, unless it is the current day.
LEMMA CollectedDays ==
  ASSUME SyncInv, worker.pc = "collect", NEW days \in SUBSET Range, Commit(days)
  PROVE  /\ asked \subseteq asked' /\ asked' \subseteq Nat /\ stored' \subseteq asked'
         /\ worker.mode # "current" =>
              \A day \in worker.from .. worker.to - 1 : day \in asked'
         /\ \A day \in asked' : day \in asked \/ day <= yesterday
<1>1. /\ worker.from \in Nat /\ worker.to \in Nat /\ worker.latest \in Nat
      /\ yesterday \in Nat /\ worker.latest <= yesterday
      /\ asked \subseteq Nat /\ stored \subseteq asked
      /\ worker.mode \in {"current", "correction", "backfill"}
  BY DEF SyncInv, SyncTypeOK, WorkerFits, Operations, Modes
<1>2. CASE worker.mode = "current"
  BY <1>1, <1>2 DEF Commit
<1>3. CASE worker.mode # "current"
  <2>1. asked' = asked \cup Range /\ stored' = stored \cup days
    BY <1>3 DEF Commit
  <2>2. worker.to <= worker.latest + 1
    BY <1>1, <1>3 DEF SyncInv, WorkerFits, ChunkFitsCheckpoint
  <2>3. \A day \in Range : day \in Nat /\ day <= yesterday
    BY <1>1, <2>2 DEF Range
  <2>4. asked \subseteq asked' /\ asked' \subseteq Nat /\ stored' \subseteq asked'
    BY <1>1, <2>1, <2>3
  <2>5. \A day \in worker.from .. worker.to - 1 : day \in asked'
    BY <2>1 DEF Range
  <2> QED
    BY <2>1, <2>3, <2>4, <2>5
<1> QED
  BY <1>2, <1>3

\* More committed days take nothing from the file's invariants.
LEMMA MoreAsked ==
  ASSUME SyncInv, asked \subseteq asked', UNCHANGED <<sync, yesterday>>
  PROVE  CheckpointCovered' /\ (UNCHANGED history => WholeWithoutOutage')
BY DEF SyncInv, CheckpointCovered, WholeWithoutOutage, history

\* An export is committed: a correction within the overlap of the last one
\* leaves no hole between them.
LEMMA CollectedInv ==
  ASSUME SyncInv, NEW days \in Exports, Collected(days)
  PROVE  SyncInv'
<1>1. /\ worker.pc = "collect" /\ Commit(days) /\ Corrected
      /\ UNCHANGED <<yesterday, option, sync, stop, faults>>
  BY DEF Collected, Commit
<1>2. days \in SUBSET Range
  BY DEF Exports
<1>3. /\ asked \subseteq asked' /\ asked' \subseteq Nat /\ stored' \subseteq asked'
      /\ worker.mode # "current" =>
           \A day \in worker.from .. worker.to - 1 : day \in asked'
  BY <1>1, <1>2, CollectedDays
<1>4. CheckpointCovered' /\ (UNCHANGED history => WholeWithoutOutage')
  BY <1>1, <1>3, MoreAsked
<1>5. /\ sync \in Checkpoints /\ faults \in 0..MaxFaults /\ yesterday \in Nat
      /\ reached \in Int /\ outage \in BOOLEAN
      /\ worker \in Operations
      /\ sync # NoCheckpoint /\ ~sync.complete => sync.next <= yesterday
  BY DEF SyncInv, SyncTypeOK, WorkerFits
<1>6. CASE worker.mode = "backfill"
  <2>1. /\ worker' = [worker EXCEPT !.pc = "advance"]
        /\ UNCHANGED <<currentDue, historyDue, retry, reached, outage>>
    BY <1>1, <1>6 DEF Collected, Corrected, schedule, history
  <2>2. /\ worker' \in Operations
        /\ worker'.pc = "advance" /\ worker'.mode = "backfill"
        /\ worker'.latest = worker.latest /\ worker'.from = worker.from
        /\ worker'.to = worker.to
    BY <2>1, <1>5, <1>6 DEF Operations
  <2>3. SyncTypeOK'
    BY <1>1, <1>3, <2>1, <2>2 DEF SyncInv, SyncTypeOK
  <2>4. ChunkFitsCheckpoint'
    BY <1>1, <1>6, <2>2 DEF SyncInv, ChunkFitsCheckpoint
  <2>5. WorkerFits'
    BY <1>1, <1>3, <1>6, <2>2 DEF SyncInv, WorkerFits
  <2>6. WholeWithoutOutage'
    BY <1>4, <2>1 DEF history
  <2> QED
    BY <1>4, <2>3, <2>4, <2>5, <2>6 DEF SyncInv
<1>7. CASE worker.mode # "backfill"
  <2>1. OperationSucceeds(KindOf(worker.mode)) /\ KindOf(worker.mode) \in {"current", "historical"}
    BY <1>7 DEF Collected, KindOf
  <2>2. CASE worker.mode = "correction" /\ option # NoDay
    <3>1. /\ outage' = (outage \/ worker.latest > reached + CORRECTION_OVERLAP_DAYS)
          /\ reached' = Later(reached, worker.latest)
      BY <1>1, <2>2 DEF Corrected
    <3>2. outage' \in BOOLEAN
      BY <3>1, Zenon
    <3>3. ~outage' => ~outage /\ ~(worker.latest > reached + CORRECTION_OVERLAP_DAYS)
      BY <3>1, Zenon
    <3>4. /\ sync # NoCheckpoint /\ sync.complete
          /\ worker.to = worker.latest + 1
          /\ worker.from <= Later(sync.start, worker.latest - (CORRECTION_OVERLAP_DAYS - 1))
      BY <1>1, <2>2 DEF SyncInv, WorkerFits
    <3>5. /\ worker.latest \in Nat /\ worker.from \in Nat /\ sync.start \in Nat
          /\ CORRECTION_OVERLAP_DAYS \in Nat
      BY <1>5, <3>4, FileFits, ChunkAssumption DEF Operations, RowFits
    <3>6. reached' \in Int
      BY <3>1, <3>5, <1>5 DEF Later
    <3>7. WholeWithoutOutage'
      <4> SUFFICES ASSUME ~outage', NEW day \in sync.start .. reached'
                   PROVE  day \in asked'
        BY <1>1 DEF WholeWithoutOutage
      <4>1. CASE day <= reached
        BY <4>1, <3>3, <3>4, <3>5, <1>3, <1>5 DEF SyncInv, WholeWithoutOutage
      <4>2. CASE ~(day <= reached)
        <5>1. day \in Int /\ sync.start <= day /\ day <= worker.latest
          BY <4>2, <3>1, <3>5, <3>6, <1>5 DEF Later
        <5>2. worker.latest - (CORRECTION_OVERLAP_DAYS - 1) <= day
          BY <4>2, <5>1, <3>3, <3>5, <1>5
        <5>3. day \in worker.from .. worker.to - 1
          BY <5>1, <5>2, <3>4, <3>5 DEF Later
        <5> QED
          BY <5>3, <1>3, <2>2
      <4> QED
        BY <4>1, <4>2
    <3> QED
      BY <1>1, <1>3, <1>4, <1>5, <2>1, <3>2, <3>6, <3>7, FailedInv
  <2>3. CASE ~(worker.mode = "correction" /\ option # NoDay)
    <3>1. UNCHANGED history
      BY <1>1, <2>3 DEF Corrected
    <3> QED
      BY <1>1, <1>3, <1>4, <1>5, <2>1, <3>1, FailedInv DEF history
  <2> QED
    BY <2>2, <2>3
<1> QED
  BY <1>6, <1>7

\* The collection was not begun, or failed, without a commit or after it.
LEMMA CollectionFailsInv ==
  ASSUME SyncInv, CollectionSkipped \/ CollectionFails
  PROVE  SyncInv'
<1>1. /\ worker.pc = "collect"
      /\ OperationFails(KindOf(worker.mode))
      /\ KindOf(worker.mode) \in {"current", "historical"}
      /\ UNCHANGED <<yesterday, option, sync, stop, history>>
      /\ faults' \in 0..MaxFaults
  BY FaultAssumption
     DEF CollectionSkipped, CollectionFails, Fault, KindOf, SyncInv, SyncTypeOK
<1>2. /\ asked \subseteq asked' /\ asked' \subseteq Nat /\ stored' \subseteq asked'
  <2>1. CASE UNCHANGED <<asked, stored>>
    BY <2>1 DEF SyncInv, SyncTypeOK
  <2>2. CASE Commit(Range)
    BY <1>1, <2>2, CollectedDays
  <2> QED
    BY <2>1, <2>2 DEF CollectionSkipped, CollectionFails
<1>3. CheckpointCovered' /\ WholeWithoutOutage'
  BY <1>1, <1>2, MoreAsked
<1>4. /\ sync \in Checkpoints /\ reached \in Int /\ outage \in BOOLEAN
      /\ sync # NoCheckpoint /\ ~sync.complete => sync.next <= yesterday
  BY DEF SyncInv, SyncTypeOK, WorkerFits
<1> QED
  BY <1>1, <1>2, <1>3, <1>4, FailedInv DEF history

\* The checkpoint advances over the committed chunk, and the next chunk of the
\* cycle begins where it ended.
LEMMA AdvanceCheckpointInv ==
  ASSUME SyncInv, AdvanceCheckpoint
  PROVE  SyncInv'
<1> DEFINE row == Advanced
<1> HIDE DEF row
<1>1. /\ worker.pc = "advance" /\ sync' = row /\ Covers(row)
      /\ UNCHANGED <<yesterday, option, asked, stored, stop, faults>>
  BY DEF AdvanceCheckpoint, row
<1>2. /\ RowFits(row) /\ row # NoCheckpoint
      /\ ~row.complete => row.next <= worker.latest
  BY <1>1, AdvancedFits DEF row
<1>3. /\ sync' \in Checkpoints /\ CheckpointCovered' /\ WholeWithoutOutage'
      /\ reached' \in Int /\ outage' \in BOOLEAN
  BY <1>1, <1>2, RowStep
<1>4. /\ yesterday \in Nat /\ worker.latest \in Nat /\ worker.latest <= yesterday
      /\ option # NoDay => option <= yesterday + 1
      /\ worker.chunk \in 0..BACKFILL_MAX_CHUNKS_PER_CYCLE
      /\ asked \subseteq Nat /\ stored \subseteq asked /\ faults \in 0..MaxFaults
      /\ BACKFILL_CHUNK_DAYS \in Nat \ {0} /\ BACKFILL_MAX_CHUNKS_PER_CYCLE \in Nat
  BY ChunkAssumption DEF SyncInv, SyncTypeOK, WorkerFits, Operations
<1>5. CASE LastOfCycle
  <2>1. OperationSucceeds("historical")
    BY <1>5 DEF AdvanceCheckpoint
  <2>2. sync' # NoCheckpoint /\ ~sync'.complete => sync'.next <= yesterday
    BY <1>1, <1>2, <1>4 DEF RowFits
  <2> QED
    BY <1>1, <1>3, <1>4, <2>1, <2>2, FailedInv
<1>6. CASE ~LastOfCycle
  <2> DEFINE to == Earlier(row.next + BACKFILL_CHUNK_DAYS, worker.latest + 1)
  <2> DEFINE op == Collecting("backfill", worker.latest, row.next, to, worker.chunk + 1)
  <2>1. worker' = op /\ UNCHANGED <<currentDue, historyDue, retry>>
    BY <1>6 DEF AdvanceCheckpoint, Chunk, schedule, row
  <2>2. ~row.complete /\ worker.chunk # BACKFILL_MAX_CHUNKS_PER_CYCLE
    BY <1>6 DEF LastOfCycle, row
  <2>3. worker.chunk + 1 \in 0..BACKFILL_MAX_CHUNKS_PER_CYCLE
    BY <1>4, <2>2
  <2>4. row.next \in Nat /\ row.next <= worker.latest
    BY <1>2, <2>2 DEF RowFits
  <2>5. /\ to \in Nat /\ row.next < to /\ to <= row.next + BACKFILL_CHUNK_DAYS
        /\ to <= worker.latest + 1
    BY <1>4, <2>4 DEF Earlier
  <2>6. "backfill" \in Modes
    BY DEF Modes
  <2> HIDE DEF to
  <2>7. /\ op \in Operations
        /\ op.pc = "collect" /\ op.mode = "backfill" /\ op.latest = worker.latest
        /\ op.to = to /\ op.from = row.next
    BY <1>4, <2>3, <2>4, <2>5, <2>6 DEF Collecting, Operations
  <2> HIDE DEF op
  <2>8. /\ worker' \in Operations
        /\ worker'.pc = "collect" /\ worker'.mode = "backfill"
        /\ worker'.latest = worker.latest /\ worker'.to = to /\ worker'.from = row.next
    BY <2>1, <2>7
  <2>9. SyncTypeOK'
    BY <1>1, <1>3, <2>1, <2>8 DEF SyncInv, SyncTypeOK
  <2>10. ChunkFitsCheckpoint'
    BY <1>1, <1>2, <1>4, <2>2, <2>5, <2>8 DEF ChunkFitsCheckpoint
  <2>11. WorkerFits'
    BY <1>1, <1>4, <2>4, <2>8 DEF WorkerFits
  <2> QED
    BY <1>3, <2>9, <2>10, <2>11 DEF SyncInv
<1> QED
  BY <1>5, <1>6

\* The transaction that advances the checkpoint fails, or only its answer.
LEMMA AdvanceFailsInv ==
  ASSUME SyncInv, AdvanceFails
  PROVE  SyncInv'
<1> DEFINE row == Advanced
<1>1. /\ worker.pc = "advance"
      /\ OperationFails("historical")
      /\ UNCHANGED <<yesterday, option, asked, stored, stop>>
      /\ faults' \in 0..MaxFaults
      /\ UNCHANGED <<sync, history>> \/ (sync' = row /\ Covers(row))
  BY FaultAssumption DEF AdvanceFails, Fault, SyncInv, SyncTypeOK
<1>2. asked \subseteq Nat /\ stored \subseteq asked
  BY DEF SyncInv, SyncTypeOK
<1>3. CASE UNCHANGED <<sync, history>>
  <2>1. /\ sync \in Checkpoints /\ reached \in Int /\ outage \in BOOLEAN
        /\ sync # NoCheckpoint /\ ~sync.complete => sync.next <= yesterday
    BY DEF SyncInv, SyncTypeOK, WorkerFits
  <2>2. CheckpointCovered' /\ WholeWithoutOutage'
    BY <1>1, <1>3 DEF SyncInv, CheckpointCovered, WholeWithoutOutage, history
  <2> QED
    BY <1>1, <1>2, <1>3, <2>1, <2>2, FailedInv DEF history
<1>4. CASE sync' = row /\ Covers(row)
  <2>1. /\ RowFits(row) /\ row # NoCheckpoint
        /\ ~row.complete => row.next <= worker.latest
    BY <1>1, AdvancedFits
  <2> HIDE DEF row
  <2>2. /\ sync' \in Checkpoints /\ CheckpointCovered' /\ WholeWithoutOutage'
        /\ reached' \in Int /\ outage' \in BOOLEAN
    BY <1>1, <1>4, <2>1, RowStep
  <2>3. sync' # NoCheckpoint /\ ~sync'.complete => sync'.next <= yesterday
    BY <1>4, <2>1 DEF SyncInv, SyncTypeOK, WorkerFits, Operations, RowFits
  <2> QED
    BY <1>1, <1>2, <2>2, <2>3, FailedInv
<1> QED
  BY <1>1, <1>3, <1>4

\* Every step of the system keeps the invariant.
LEMMA SyncNextInv ==
  ASSUME SyncInv, [SyncNext]_syncVars
  PROVE  SyncInv'
<1>1. CASE UNCHANGED syncVars
  BY <1>1
     DEF syncVars, schedule, history, SyncInv, SyncTypeOK, CheckpointCovered,
         ChunkFitsCheckpoint, WholeWithoutOutage, WorkerFits
<1>2. CASE SyncNext
  BY <1>2, SignalInv, MidnightInv, RestInv, StartInv, PrepareInv, PrepareFailsInv,
     CollectedInv, CollectionFailsInv, AdvanceCheckpointInv, AdvanceFailsInv
     DEF SyncNext, SyncStep, SyncWorkerStep
<1> QED
  BY <1>1, <1>2

-----------------------------------------------------------------------------
(* Theorems                                                                *)

\* The inductive invariant.
THEOREM SyncInvariant == SyncSpec => []SyncInv
<1>1. SyncInit => SyncInv
  BY SyncInitInv
<1>2. SyncInv /\ [SyncNext]_syncVars => SyncInv'
  BY SyncNextInv
<1> QED
  BY <1>1, <1>2, PTL DEF SyncSpec

\* Every variable has its type: HistorySync's type invariant.
THEOREM SyncTypeCorrect == SyncSpec => []SyncTypeOK
<1>1. SyncInv => SyncTypeOK
  BY DEF SyncInv
<1> QED
  BY <1>1, SyncInvariant, PTL

\* advance_sync_state after commit_dataset: the checkpoint never runs ahead of
\* the committed days, whatever failed between the two transactions.
THEOREM CheckpointNeverAhead == SyncSpec => []CheckpointCovered
<1>1. SyncInv => CheckpointCovered
  BY DEF SyncInv
<1> QED
  BY <1>1, SyncInvariant, PTL

\* _scheduled_cycle's chunk always fits the row, so advance_sync_state never
\* rejects it and no chunk is empty or reaches an unfinished day.
THEOREM ChunksFit == SyncSpec => []ChunkFitsCheckpoint
<1>1. SyncInv => ChunkFitsCheckpoint
  BY DEF SyncInv
<1> QED
  BY <1>1, SyncInvariant, PTL

\* A complete backfill kept up by corrections within the overlap of one another
\* has no hole, for every overlap and however the history start is changed.
THEOREM HistoryStaysWhole == SyncSpec => []WholeWithoutOutage
<1>1. SyncInv => WholeWithoutOutage
  BY DEF SyncInv
<1> QED
  BY <1>1, SyncInvariant, PTL

-----------------------------------------------------------------------------
(* Refinement                                                              *)

ProgressStutters == UNCHANGED <<yesterday, sync, asked>>

\* A prepared row is a request for more, for less, or for the same history.
LEMMA PreparedProgress ==
  ASSUME SyncInv, worker.pc = "prepare", sync' = Prepared(option, worker.latest),
         UNCHANGED <<yesterday, asked>>
  PROVE  Progress!RequestMore \/ Progress!RequestLess \/ ProgressStutters
<1> DEFINE row == Prepared(option, worker.latest)
<1>1. /\ option \in Nat /\ option <= yesterday + 1 /\ yesterday \in Nat
  BY DEF SyncInv, SyncTypeOK, WorkerFits
<1>2. CASE sync = NoCheckpoint \/ option < sync.start
  <2>1. row = [start |-> option, next |-> option, complete |-> option > worker.latest]
    BY <1>2 DEF Prepared
  <2>2. row.start = option /\ row.next = option
    BY <2>1
  <2>3. sync.start = NoDay \/ option < sync.start
    BY <1>2, FileFits
  <2> QED
    BY <1>1, <2>2, <2>3 DEF Progress!RequestMore
<1>3. CASE sync # NoCheckpoint /\ ~(option < sync.start) /\ option > sync.start
  <2>1. row = [start |-> option, next |-> Later(sync.next, option),
               complete |-> sync.complete \/ Later(sync.next, option) > worker.latest]
    BY <1>3 DEF Prepared
  <2>2. row.start = option /\ row.next = Later(sync.next, option)
    BY <2>1
  <2>3. sync.start \in Nat /\ sync.next \in Nat /\ sync.start # NoDay
    BY <1>3, FileFits, DayAssumption DEF RowFits
  <2>4. Later(sync.next, option) = IF option > sync.next THEN option ELSE sync.next
    BY <1>1, <2>3 DEF Later
  <2> HIDE DEF row
  <2>5. sync'.start = option /\ sync'.next = Later(sync.next, option)
    BY <2>2 DEF row
  <2> QED
    BY <1>1, <1>3, <2>3, <2>4, <2>5 DEF Progress!RequestLess
<1>4. CASE sync # NoCheckpoint /\ ~(option < sync.start) /\ ~(option > sync.start)
  BY <1>4 DEF Prepared, ProgressStutters
<1> QED
  BY <1>2, <1>3, <1>4

\* An advanced row is progress over committed days.
LEMMA AdvancedProgress ==
  ASSUME SyncInv, worker.pc = "advance", sync' = Advanced, UNCHANGED <<yesterday, asked>>
  PROVE  Progress!Advance
<1>1. /\ worker.mode = "backfill"
      /\ \A day \in worker.from .. worker.to - 1 : day \in asked
  BY DEF SyncInv, WorkerFits
<1>2. /\ sync # NoCheckpoint /\ sync.next = worker.from /\ worker.from < worker.to
  BY <1>1 DEF SyncInv, ChunkFitsCheckpoint
<1>3. sync.start \in Nat /\ sync.start # NoDay
  BY <1>2, FileFits, DayAssumption DEF RowFits
<1>4. sync'.start = sync.start /\ sync'.next = worker.to
  BY AdvancedFits
<1>5. worker.from \in Nat /\ worker.to \in Nat
  BY DEF SyncInv, SyncTypeOK, Operations
<1> QED
  BY <1>1, <1>2, <1>3, <1>4, <1>5 DEF Progress!Advance

\* A committed export asks for days that are over, or for none.
LEMMA CollectedProgress ==
  ASSUME SyncInv, worker.pc = "collect", NEW days \in SUBSET Range, Commit(days),
         UNCHANGED <<yesterday, sync>>
  PROVE  Progress!Ask
BY CollectedDays DEF Progress!Ask

LEMMA ProgressStep ==
  ASSUME SyncInv, [SyncNext]_syncVars
  PROVE  [Progress!ProgressNext]_Progress!progressVars
<1> SUFFICES Progress!ProgressNext \/ ProgressStutters
  BY DEF ProgressStutters, Progress!progressVars
<1>1. CASE UNCHANGED syncVars
  BY <1>1 DEF syncVars, ProgressStutters
<1>2. CASE \/ StartCurrent \/ StartHistorical \/ CollectionSkipped \/ Stops \/ RequestStop
           \/ CurrentBecomesDue \/ HistoryBecomesDue \/ RetryBecomesDue \/ ProcessEnds
           \/ \E start \in ValidStarts : ProcessStarts(start)
  BY <1>2 DEF StartCurrent, StartHistorical, CollectionSkipped, Stops, RequestStop,
              CurrentBecomesDue, HistoryBecomesDue, RetryBecomesDue, ProcessEnds,
              ProcessStarts, ProgressStutters
<1>3. CASE Midnight
  BY <1>3 DEF Midnight, Progress!ProgressNext, Progress!DayEnds
<1>4. CASE Prepare \/ PrepareFails
  <2>1. /\ worker.pc = "prepare" /\ UNCHANGED <<yesterday, asked>>
        /\ UNCHANGED sync \/ sync' = Prepared(option, worker.latest)
    BY <1>4 DEF Prepare, PrepareFails
  <2> QED
    BY <2>1, PreparedProgress DEF Progress!ProgressNext, ProgressStutters
<1>5. CASE AdvanceCheckpoint \/ AdvanceFails
  <2>1. /\ worker.pc = "advance" /\ UNCHANGED <<yesterday, asked>>
        /\ UNCHANGED sync \/ sync' = Advanced
    BY <1>5 DEF AdvanceCheckpoint, AdvanceFails
  <2> QED
    BY <2>1, AdvancedProgress DEF Progress!ProgressNext, ProgressStutters
<1>6. CASE CollectionFails \/ \E days \in Exports : Collected(days)
  <2>1. /\ worker.pc = "collect" /\ UNCHANGED <<yesterday, sync>>
        /\ UNCHANGED asked \/ \E days \in SUBSET Range : Commit(days)
    BY <1>6 DEF CollectionFails, Collected, Commit, Exports
  <2> QED
    BY <2>1, CollectedProgress DEF Progress!ProgressNext, ProgressStutters
<1> QED
  BY <1>1, <1>2, <1>3, <1>4, <1>5, <1>6 DEF SyncNext, SyncStep, SyncWorkerStep

\* The sync_state row and the commits implement BackfillProgress: progress is
\* made over committed days only and given up only for an earlier start.
THEOREM SyncImplementsProgress == SyncSpec => ProgressSpec
<1>1. SyncInit => Progress!ProgressInit
  BY DayAssumption DEF SyncInit, NoCheckpoint, Progress!ProgressInit
<1>2. SyncInv /\ [SyncNext]_syncVars => [Progress!ProgressNext]_Progress!progressVars
  BY ProgressStep
<1> QED
  BY <1>1, <1>2, SyncInvariant, PTL DEF SyncSpec, ProgressSpec, Progress!ProgressSpec

-----------------------------------------------------------------------------
(* The current day's priority                                              *)

\* A current day that was overtaken is due, and comes next: the worker is not
\* about to prepare a cycle, nor bound to retry a historical operation.
OvertakenFits ==
  /\ overtaken \in {0, 1}
  /\ overtaken = 1 => currentDue /\ worker.pc # "prepare"
  /\ overtaken = 1 /\ worker.pc \in {"decide", "down"} => retry.kind # "historical"

\* What a step adds to the count.
LEMMA Counted ==
  ASSUME OvertakenFits, Overtakes
  PROVE  /\ ~currentDue' \/ OperationFailed => overtaken' = 0
         /\ ~HistoricalBegins => overtaken' \in {0, overtaken}
         /\ overtaken = 0 => overtaken' \in {0, 1}
<1>1. CASE ~currentDue' \/ OperationFailed
  BY <1>1 DEF Overtakes
<1>2. CASE ~(~currentDue' \/ OperationFailed)
  <2>1. overtaken' = IF HistoricalBegins THEN overtaken + 1 ELSE overtaken
    BY <1>2, Zenon DEF Overtakes
  <2> QED
    BY <1>2, <2>1
<1> QED
  BY <1>1, <1>2

\* Steps that neither count nor move the worker to another step.
LEMMA OvertakenKept ==
  ASSUME OvertakenFits, Overtakes, worker'.pc = worker.pc, retry'.kind = retry.kind
  PROVE  OvertakenFits'
<1>1. ~HistoricalBegins
  BY DEF HistoricalBegins
<1>2. overtaken' \in {0, overtaken} /\ (~currentDue' => overtaken' = 0)
  BY <1>1, Counted
<1> QED
  BY <1>2 DEF OvertakenFits

\* Failed operations: their retry comes first, and the count begins anew.
LEMMA OvertakenFailed ==
  ASSUME OvertakenFits, Overtakes, worker.pc # "decide",
         NEW kind \in {"current", "historical"}, OperationFails(kind)
  PROVE  OvertakenFits'
<1>1. worker'.pc = "decide" /\ retry'.kind = kind
  BY RestingFields DEF OperationFails, RetryOf
<1>2. OperationFailed
  BY <1>1 DEF OperationFailed
<1>3. overtaken' = 0
  BY <1>2, Counted
<1> QED
  BY <1>3 DEF OvertakenFits

\* Successful operations, which leave no retry.
LEMMA OvertakenSucceeds ==
  ASSUME OvertakenFits, Overtakes,
         NEW kind \in {"current", "historical"}, OperationSucceeds(kind)
  PROVE  OvertakenFits'
<1>1. worker'.pc = "decide" /\ retry'.kind = "none"
  BY RestingFields DEF OperationSucceeds, NoRetry
<1>2. ~HistoricalBegins
  BY <1>1 DEF HistoricalBegins
<1>3. overtaken' \in {0, overtaken} /\ (~currentDue' => overtaken' = 0)
  BY <1>2, Counted
<1> QED
  BY <1>1, <1>3 DEF OvertakenFits

\* A historical operation starts as a retry, or because the current day is not
\* due: nothing has been counted.
LEMMA OvertakenStart ==
  ASSUME SyncInv, OvertakenFits, Overtakes, StartHistorical
  PROVE  OvertakenFits'
<1>1. overtaken = 0
  <2>1. worker.pc = "decide" /\ NextKind = "historical"
    BY DEF StartHistorical
  <2>2. retry.kind = "historical" \/ ~currentDue
    BY <2>1 DEF NextKind
  <2> QED
    BY <2>1, <2>2 DEF OvertakenFits
<1>2. overtaken' \in {0, 1} /\ (~currentDue' => overtaken' = 0)
  BY <1>1, Counted
<1>3. CASE option = NoDay
  <2>1. worker'.pc = "collect"
    BY <1>3 DEF StartHistorical, Collecting
  <2> QED
    BY <1>2, <2>1 DEF OvertakenFits
<1>4. CASE option # NoDay
  <2>1. worker'.pc = "prepare"
    BY <1>4 DEF StartHistorical, Resting
  <2>2. ~HistoricalBegins
    BY <2>1 DEF HistoricalBegins
  <2>3. overtaken' = 0
    BY <1>1, <2>2, Counted
  <2> QED
    BY <2>3 DEF OvertakenFits
<1> QED
  BY <1>3, <1>4

\* A chunk that follows another begins only if the current day is not due.
LEMMA OvertakenAdvance ==
  ASSUME SyncInv, OvertakenFits, Overtakes, AdvanceCheckpoint
  PROVE  OvertakenFits'
<1>1. CASE LastOfCycle
  <2>1. OperationSucceeds("historical")
    BY <1>1 DEF AdvanceCheckpoint
  <2> QED
    BY <2>1, OvertakenSucceeds
<1>2. CASE ~LastOfCycle
  <2>1. ~currentDue'
    BY <1>2 DEF AdvanceCheckpoint, LastOfCycle, schedule
  <2>2. overtaken' = 0
    BY <2>1, Counted
  <2> QED
    BY <2>2 DEF OvertakenFits
<1> QED
  BY <1>1, <1>2

LEMMA OvertakenStep ==
  ASSUME SyncInv, OvertakenFits, [SyncNext]_syncVars
  PROVE  OvertakenFits'
<1>1. CASE UNCHANGED syncVars
  BY <1>1 DEF syncVars, schedule, OvertakenFits
<1> SUFFICES ASSUME SyncStep, Overtakes
             PROVE  OvertakenFits'
  BY <1>1 DEF SyncNext
<1>2. CASE CurrentBecomesDue \/ HistoryBecomesDue \/ RequestStop
  BY <1>2, OvertakenKept DEF CurrentBecomesDue, HistoryBecomesDue, RequestStop, schedule
<1>3. CASE RetryBecomesDue
  <2>1. retry'.kind = retry.kind /\ worker' = worker
    BY <1>3 DEF RetryBecomesDue, SyncInv, SyncTypeOK, Retries
  <2> QED
    BY <2>1, OvertakenKept
<1>4. CASE Midnight
  <2>1. retry' = retry /\ worker'.pc = worker.pc
    BY <1>4 DEF Midnight, schedule, SyncInv, SyncTypeOK, Operations
  <2> QED
    BY <2>1, OvertakenKept
<1>5. CASE StartCurrent
  <2>1. worker'.pc = "collect" /\ worker'.mode = "current"
    BY <1>5 DEF StartCurrent, Collecting
  <2>2. ~HistoricalBegins
    BY <2>1 DEF HistoricalBegins
  <2>3. overtaken' \in {0, overtaken} /\ (~currentDue' => overtaken' = 0)
    BY <2>2, Counted
  <2> QED
    BY <2>1, <2>3 DEF OvertakenFits
<1>6. CASE StartHistorical
  BY <1>6, OvertakenStart
<1>7. CASE Prepare
  <2>1. overtaken = 0
    BY <1>7 DEF Prepare, OvertakenFits
  <2>2. overtaken' \in {0, 1} /\ (~currentDue' => overtaken' = 0)
    BY <2>1, Counted
  <2>3. worker'.pc = "collect"
    BY <1>7 DEF Prepare, Correction, Chunk, Collecting
  <2> QED
    BY <2>2, <2>3 DEF OvertakenFits
<1>8. CASE AdvanceCheckpoint
  BY <1>8, OvertakenAdvance
<1>9. CASE PrepareFails \/ AdvanceFails \/ CollectionFails \/ CollectionSkipped
  <2>1. \E kind \in {"current", "historical"} : OperationFails(kind)
    BY <1>9 DEF PrepareFails, AdvanceFails, CollectionFails, CollectionSkipped, KindOf
  <2>2. worker.pc # "decide"
    BY <1>9 DEF PrepareFails, AdvanceFails, CollectionFails, CollectionSkipped, Commit
  <2> QED
    BY <2>1, <2>2, OvertakenFailed
<1>10. CASE \E days \in Exports : Collected(days)
  <2>1. CASE worker.mode = "backfill"
    <3>1. worker'.pc = "advance" /\ retry' = retry
      BY <1>10, <2>1 DEF Collected, schedule, SyncInv, SyncTypeOK, Operations
    <3>2. ~HistoricalBegins
      BY <3>1 DEF HistoricalBegins
    <3>3. overtaken' \in {0, overtaken} /\ (~currentDue' => overtaken' = 0)
      BY <3>2, Counted
    <3> QED
      BY <3>1, <3>3 DEF OvertakenFits
  <2>2. CASE worker.mode # "backfill"
    <3>1. \E kind \in {"current", "historical"} : OperationSucceeds(kind)
      BY <1>10, <2>2 DEF Collected, KindOf
    <3> QED
      BY <3>1, OvertakenSucceeds
  <2> QED
    BY <2>1, <2>2
<1>11. CASE Stops \/ ProcessEnds \/ \E start \in ValidStarts : ProcessStarts(start)
  <2>1. /\ worker'.pc \in {"decide", "stopped", "down"}
        /\ worker'.pc = "decide" => worker.pc = "down" /\ retry' = retry
        /\ worker'.pc = "down" => retry' = NoRetry
    BY <1>11, RestingFields DEF Stops, ProcessEnds, ProcessStarts, schedule
  <2>2. ~HistoricalBegins
    BY <2>1 DEF HistoricalBegins
  <2>3. overtaken' \in {0, overtaken} /\ (~currentDue' => overtaken' = 0)
    BY <2>2, Counted
  <2> QED
    BY <2>1, <2>3 DEF OvertakenFits, NoRetry
<1> QED
  BY <1>2, <1>3, <1>4, <1>5, <1>6, <1>7, <1>8, <1>9, <1>10, <1>11
     DEF SyncStep, SyncWorkerStep

\* _run and _scheduled_cycle give the current day priority: while it is due, at
\* most one historical collection begins before it, for every length of a cycle,
\* however retries, cycles and midnights fall; a failure begins the count anew.
THEOREM CurrentHasPriority == SyncSpec => []CurrentOvertakenOnce
<1>1. SyncInit => OvertakenFits
  BY RestingFields DEF SyncInit, OvertakenFits, NoRetry
<1>2. SyncInv /\ OvertakenFits /\ [SyncNext]_syncVars => OvertakenFits'
  BY OvertakenStep
<1>3. OvertakenFits => CurrentOvertakenOnce
  BY DEF OvertakenFits, CurrentOvertakenOnce
<1> QED
  BY <1>1, <1>2, <1>3, SyncInvariant, PTL DEF SyncSpec

=============================================================================
