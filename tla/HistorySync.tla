------------------------------ MODULE HistorySync ------------------------------
(***************************************************************************)
(* Collection of historical and current-day data: the SyncWorker thread    *)
(* (collector_service/sync_worker.py) and the checkpoint it keeps in the   *)
(* sync_state row of the dataset (collector_service/dataset_store.py),     *)
(* across failed collections, failed transactions, a stop request and      *)
(* restarts with another cez_history_start.                                *)
(*                                                                         *)
(* Days are numbers.  A collection is one step that commits both channels  *)
(* of one export in one transaction (run_data_probe), or fails before or   *)
(* after that commit.  A day counts as asked for when an export requested  *)
(* after the day was over was committed, and as stored when that export    *)
(* held it: neither parse_pnd_csv nor CezDataProbe compares the days of an *)
(* export with the days requested.                                         *)
(*                                                                         *)
(* Time.  A deadline is a flag that is set when it passes.  The interval   *)
(* of the current day is longer than the loop takes to look at the other   *)
(* deadline, so it passes only while the worker waits or works, and days   *)
(* end then, at most one in a wait (six hours) or a collection, or while   *)
(* no process runs.  The Prague date does not go back.                     *)
(***************************************************************************)
EXTENDS Integers, FiniteSets

CONSTANTS
  NoDay,         \* no cez_history_start is configured
  Starts,        \* values of cez_history_start
  FirstDay,      \* the latest completed day at the beginning
  LastDay,       \* bound on the latest completed day
  BACKFILL_CHUNK_DAYS,
  BACKFILL_MAX_CHUNKS_PER_CYCLE,
  CORRECTION_OVERLAP_DAYS,
  ShortExports,  \* whether an export may lack days of its request
  MaxFaults      \* bound on failures and crashes

ASSUME DayAssumption ==
  /\ NoDay \notin Nat
  /\ Starts \subseteq Nat
  /\ FirstDay \in Nat
  /\ LastDay \in Nat
ASSUME ChunkAssumption ==
  /\ BACKFILL_CHUNK_DAYS \in Nat \ {0}
  /\ BACKFILL_MAX_CHUNKS_PER_CYCLE \in Nat \ {0}
  /\ CORRECTION_OVERLAP_DAYS \in 1..BACKFILL_CHUNK_DAYS
ASSUME FaultAssumption == MaxFaults \in Nat /\ ShortExports \in BOOLEAN

VARIABLES
  yesterday,     \* the latest completed Prague day
  option,        \* cez_history_start of this process
  sync,          \* the sync_state row
  asked,         \* history: days of committed exports
  stored,        \* days whose intervals are in the dataset
  worker,        \* the thread: step, range in hand, chunk of this cycle, and
                 \* whether a day ended during this wait or collection
  stop,          \* the stop event
  currentDue,    \* _next_current_at has passed
  historyDue,    \* next_historical_at has passed
  retry,         \* retry_kind and whether retry_at has passed
  faults,        \* adversities so far
  reached,       \* history: last day a finished historical operation covered
  outage,        \* history: one was longer apart than the correction overlap
  overtaken      \* history: historical collections begun while the current day
                 \* was due, since it became due or an operation failed

schedule == <<currentDue, historyDue, retry>>
history == <<reached, outage>>
syncVars == <<yesterday, option, sync, asked, stored, worker, stop, schedule,
              faults, history, overtaken>>

Later(a, b) == IF a > b THEN a ELSE b
Earlier(a, b) == IF a < b THEN a ELSE b

NoCheckpoint == [start |-> NoDay, next |-> NoDay, complete |-> FALSE]
Checkpoints == [start : Nat, next : Nat, complete : BOOLEAN] \cup {NoCheckpoint}

Modes == {"current", "correction", "backfill"}
Resting(step) ==
  [pc |-> step, mode |-> "current", latest |-> 0, from |-> 0, to |-> 0, chunk |-> 0,
   midnight |-> FALSE]
Collecting(mode, latest, from, to, chunk) ==
  [pc |-> "collect", mode |-> mode, latest |-> latest, from |-> from, to |-> to,
   chunk |-> chunk, midnight |-> FALSE]

Retries == [kind : {"none", "current", "historical"}, due : BOOLEAN]
NoRetry == [kind |-> "none", due |-> FALSE]
RetryOf(kind) == [kind |-> kind, due |-> FALSE]

Range == worker.from .. worker.to - 1
Today == yesterday + 1

Fault == faults < MaxFaults /\ faults' = faults + 1

-----------------------------------------------------------------------------
(* The checkpoint                                                          *)

\* Mutant of Prepared: an earlier history start keeps the progress made.
PreparedKeepsProgress(start, latest) ==
  IF sync = NoCheckpoint
    THEN [start |-> start, next |-> start, complete |-> start > latest]
  ELSE [start |-> start,
        next |-> Later(sync.next, start),
        complete |-> sync.complete \/ Later(sync.next, start) > latest]

\* Mutant of Prepared: every change of the history start begins anew.
PreparedForgets(start, latest) ==
  IF sync = NoCheckpoint \/ start # sync.start
    THEN [start |-> start, next |-> start, complete |-> start > latest]
  ELSE sync

\* prepare_sync_state: a new row, one rebased to an earlier or a later
\* history start, or the row as it is.
Prepared(start, latest) ==
  IF sync = NoCheckpoint \/ start < sync.start
    THEN [start |-> start, next |-> start, complete |-> start > latest]
  ELSE IF start > sync.start
    THEN [start |-> start,
          next |-> Later(sync.next, start),
          complete |-> sync.complete \/ Later(sync.next, start) > latest]
  ELSE sync

\* Mutant of MayAdvance: the last completed day cannot be reached.
AdvanceShort ==
  /\ worker.to > worker.from
  /\ worker.to < worker.latest + 1
  /\ sync.next = worker.from
  /\ ~sync.complete

\* advance_sync_state, for the chunk in hand: only from the row the chunk
\* began at.
MayAdvance ==
  /\ worker.to > worker.from
  /\ worker.to <= worker.latest + 1
  /\ sync.next = worker.from
  /\ ~sync.complete

Advanced ==
  [start |-> sync.start, next |-> worker.to, complete |-> worker.to > worker.latest]

\* History: what a change of the row to row says about the days covered.
Covers(row) ==
  IF ~row.complete
    THEN UNCHANGED history
  ELSE IF sync.complete /\ row.start >= sync.start
    THEN reached' = Later(reached, row.start - 1) /\ UNCHANGED outage
  ELSE reached' = row.next - 1 /\ outage' = FALSE

-----------------------------------------------------------------------------
(* The schedule                                                            *)

Due == IF retry.kind # "none" THEN retry.due ELSE currentDue \/ historyDue

NextKind ==
  IF retry.kind # "none" THEN retry.kind
  ELSE IF currentDue THEN "current"
  ELSE "historical"

\* The worker waits, works or is not running.
TimePasses == worker.pc = "decide" => ~Due

CurrentBecomesDue ==
  /\ TimePasses
  /\ ~currentDue
  /\ currentDue' = TRUE
  /\ UNCHANGED <<yesterday, option, sync, asked, stored, worker, stop,
                 historyDue, retry, faults, history>>

HistoryBecomesDue ==
  /\ ~historyDue
  /\ historyDue' = TRUE
  /\ UNCHANGED <<yesterday, option, sync, asked, stored, worker, stop,
                 currentDue, retry, faults, history>>

RetryBecomesDue ==
  /\ retry.kind # "none"
  /\ ~retry.due
  /\ retry' = [retry EXCEPT !.due = TRUE]
  /\ UNCHANGED <<yesterday, option, sync, asked, stored, worker, stop,
                 currentDue, historyDue, faults, history>>

Midnight ==
  /\ TimePasses
  /\ worker.midnight => worker.pc = "down"
  /\ yesterday < LastDay
  /\ yesterday' = yesterday + 1
  /\ worker' = [worker EXCEPT !.midnight = TRUE]
  /\ UNCHANGED <<option, sync, asked, stored, stop, schedule, faults, history>>

\* Mutant of OperationSucceeds: success leaves the cooldown of an earlier failure.
SuccessKeepsRetry(kind) ==
  /\ worker' = Resting("decide")
  /\ retry' = retry
  /\ currentDue' = (currentDue /\ kind # "current")
  /\ historyDue' = (historyDue /\ kind # "historical")

\* An operation of a kind ended well or badly: _run's bookkeeping.
OperationSucceeds(kind) ==
  /\ worker' = Resting("decide")
  /\ retry' = NoRetry
  /\ currentDue' = (currentDue /\ kind # "current")
  /\ historyDue' = (historyDue /\ kind # "historical")

OperationFails(kind) ==
  /\ worker' = Resting("decide")
  /\ retry' = RetryOf(kind)
  /\ UNCHANGED <<currentDue, historyDue>>

KindOf(mode) == IF mode = "current" THEN "current" ELSE "historical"

-----------------------------------------------------------------------------
(* The worker thread                                                       *)

StartCurrent ==
  /\ worker.pc = "decide"
  /\ ~stop
  /\ Due
  /\ NextKind = "current"
  /\ worker' = Collecting("current", yesterday, Today, Today + 1, 0)
  /\ UNCHANGED <<yesterday, option, sync, asked, stored, stop, schedule, faults, history>>

\* Without a history start, a historical operation corrects one day.
StartHistorical ==
  /\ worker.pc = "decide"
  /\ ~stop
  /\ Due
  /\ NextKind = "historical"
  /\ worker' = IF option = NoDay
                 THEN Collecting("correction", yesterday, yesterday, Today, 0)
                 ELSE [Resting("prepare") EXCEPT !.latest = yesterday]
  /\ UNCHANGED <<yesterday, option, sync, asked, stored, stop, schedule, faults, history>>

\* Mutant of Chunk: the chunk is not cut at the last completed day.
ChunkUncut(row, number) ==
  Collecting("backfill", worker.latest, row.next, row.next + BACKFILL_CHUNK_DAYS, number)

Chunk(row, number) ==
  Collecting("backfill", worker.latest, row.next,
             Earlier(row.next + BACKFILL_CHUNK_DAYS, worker.latest + 1), number)

\* Mutant of Correction: the overlap is a day short.
CorrectionShort(row) ==
  LET overlap == Later(row.start, worker.latest - (CORRECTION_OVERLAP_DAYS - 2)) IN
  Collecting("correction", worker.latest, Earlier(overlap, worker.latest),
             worker.latest + 1, 0)

Correction(row) ==
  LET overlap == Later(row.start, worker.latest - (CORRECTION_OVERLAP_DAYS - 1)) IN
  Collecting("correction", worker.latest, Earlier(overlap, worker.latest),
             worker.latest + 1, 0)

Prepare ==
  LET row == Prepared(option, worker.latest) IN
  /\ worker.pc = "prepare"
  /\ sync' = row
  /\ Covers(row)
  /\ worker' = IF row.complete THEN Correction(row) ELSE Chunk(row, 1)
  /\ UNCHANGED <<yesterday, option, asked, stored, stop, schedule, faults>>

\* The transaction failed, or the read that follows it did.
PrepareFails ==
  LET row == Prepared(option, worker.latest) IN
  /\ worker.pc = "prepare"
  /\ Fault
  /\ \/ UNCHANGED <<sync, history>>
     \/ sync' = row /\ Covers(row)
  /\ OperationFails("historical")
  /\ UNCHANGED <<yesterday, option, asked, stored, stop>>

\* The export is committed.  A current-day export is not yet the whole day.
\* An export is never empty (commit_dataset), but nothing compares its days
\* with the request.
Exports == IF ShortExports THEN SUBSET Range \ {{}} ELSE {Range}

Commit(days) ==
  /\ worker.pc = "collect"
  /\ IF worker.mode = "current"
       THEN UNCHANGED <<asked, stored>>
       ELSE asked' = asked \cup Range /\ stored' = stored \cup days

Corrected ==
  IF worker.mode = "correction" /\ option # NoDay
    THEN /\ outage' = (outage \/ worker.latest > reached + CORRECTION_OVERLAP_DAYS)
         /\ reached' = Later(reached, worker.latest)
    ELSE UNCHANGED history

Collected(days) ==
  /\ Commit(days)
  /\ IF worker.mode = "backfill"
       THEN worker' = [worker EXCEPT !.pc = "advance"] /\ UNCHANGED schedule
       ELSE OperationSucceeds(KindOf(worker.mode))
  /\ Corrected
  /\ UNCHANGED <<yesterday, option, sync, stop, faults>>

\* A stop was requested before the collection began.
CollectionSkipped ==
  /\ worker.pc = "collect"
  /\ stop
  /\ OperationFails(KindOf(worker.mode))
  /\ UNCHANGED <<yesterday, option, sync, asked, stored, stop, faults, history>>

\* The collection failed without a commit, or after it.
CollectionFails ==
  /\ worker.pc = "collect"
  /\ Fault
  /\ Commit(Range) \/ UNCHANGED <<asked, stored>>
  /\ OperationFails(KindOf(worker.mode))
  /\ UNCHANGED <<yesterday, option, sync, stop, history>>

\* Mutant of LastOfCycle: the current day is not looked at between chunks.
LastChunkIgnoresCurrent ==
  \/ Advanced.complete
  \/ stop
  \/ worker.chunk = BACKFILL_MAX_CHUNKS_PER_CYCLE

\* The checkpoint follows; another chunk of this cycle follows it only if
\* nothing else is due.
LastOfCycle ==
  \/ Advanced.complete
  \/ currentDue
  \/ stop
  \/ worker.chunk = BACKFILL_MAX_CHUNKS_PER_CYCLE

AdvanceCheckpoint ==
  /\ worker.pc = "advance"
  /\ MayAdvance
  /\ sync' = Advanced
  /\ Covers(Advanced)
  /\ IF LastOfCycle
       THEN OperationSucceeds("historical")
       ELSE worker' = Chunk(Advanced, worker.chunk + 1) /\ UNCHANGED schedule
  /\ UNCHANGED <<yesterday, option, asked, stored, stop, faults>>

\* The checkpoint is not the one the chunk began at, or the transaction or
\* the read that follows it failed.
AdvanceFails ==
  /\ worker.pc = "advance"
  /\ IF MayAdvance THEN Fault ELSE UNCHANGED faults
  /\ \/ UNCHANGED <<sync, history>>
     \/ MayAdvance /\ sync' = Advanced /\ Covers(Advanced)
  /\ OperationFails("historical")
  /\ UNCHANGED <<yesterday, option, asked, stored, stop>>

Stops ==
  /\ worker.pc = "decide"
  /\ stop
  /\ worker' = Resting("stopped")
  /\ UNCHANGED <<yesterday, option, sync, asked, stored, stop, schedule, faults, history>>

RequestStop ==
  /\ ~stop
  /\ worker.pc # "down"
  /\ stop' = TRUE
  /\ UNCHANGED <<yesterday, option, sync, asked, stored, worker, schedule, faults, history>>

\* The process dies, or exits when its worker stopped; the next one knows
\* nothing of the schedule.
ProcessEnds ==
  /\ worker.pc # "down"
  /\ IF worker.pc = "stopped" THEN UNCHANGED faults ELSE Fault
  /\ worker' = Resting("down")
  /\ stop' = FALSE
  /\ currentDue' = TRUE
  /\ historyDue' = TRUE
  /\ retry' = NoRetry
  /\ UNCHANGED <<yesterday, option, sync, asked, stored, history>>

\* It starts again with the options of that time: cez_history_start is not in
\* the future.
ProcessStarts(start) ==
  /\ worker.pc = "down"
  /\ option' = start
  /\ worker' = Resting("decide")
  /\ UNCHANGED <<yesterday, sync, asked, stored, stop, schedule, faults, history>>

ValidStarts == {NoDay} \cup {start \in Starts : start <= Today}

-----------------------------------------------------------------------------
SyncInit ==
  /\ yesterday = FirstDay
  /\ option \in ValidStarts
  /\ sync = NoCheckpoint
  /\ asked = {}
  /\ stored = {}
  /\ worker = Resting("decide")
  /\ stop = FALSE
  /\ currentDue = TRUE
  /\ historyDue = TRUE
  /\ retry = NoRetry
  /\ faults = 0
  /\ reached = 0
  /\ outage = FALSE
  /\ overtaken = 0

SyncWorkerStep ==
  \/ StartCurrent
  \/ StartHistorical
  \/ Prepare
  \/ \E days \in Exports : Collected(days)
  \/ CollectionSkipped
  \/ AdvanceCheckpoint
  \/ Stops

SyncStep ==
  \/ SyncWorkerStep
  \/ PrepareFails
  \/ CollectionFails
  \/ AdvanceFails
  \/ CurrentBecomesDue
  \/ HistoryBecomesDue
  \/ RetryBecomesDue
  \/ Midnight
  \/ RequestStop
  \/ ProcessEnds
  \/ \E start \in ValidStarts : ProcessStarts(start)

\* History: every step keeps count of the collections the current day waits for.
OperationFailed == worker.pc # "decide" /\ worker'.pc = "decide" /\ retry'.kind # "none"
HistoricalBegins ==
  worker.pc # "collect" /\ worker'.pc = "collect" /\ worker'.mode # "current"

Overtakes ==
  overtaken' = IF ~currentDue' \/ OperationFailed THEN 0
               ELSE IF HistoricalBegins THEN overtaken + 1
               ELSE overtaken

SyncNext == SyncStep /\ Overtakes

SyncSpec == SyncInit /\ [][SyncNext]_syncVars

\* The thread runs until it stops and every collection has a deadline of its
\* own (new_operation_deadline); monotonic deadlines pass.
FairSyncSpec ==
  /\ SyncSpec
  /\ WF_syncVars(SyncWorkerStep /\ Overtakes)
  /\ WF_syncVars(HistoryBecomesDue /\ Overtakes)
  /\ WF_syncVars(RetryBecomesDue /\ Overtakes)

-----------------------------------------------------------------------------
(* Properties                                                              *)

Operations ==
  [pc : {"decide", "prepare", "collect", "advance", "stopped", "down"}, mode : Modes,
   latest : Nat, from : Nat, to : Nat, chunk : 0..BACKFILL_MAX_CHUNKS_PER_CYCLE,
   midnight : BOOLEAN]

\* Every variable has its type.
SyncTypeOK ==
  /\ yesterday \in Nat
  /\ option \in Nat \cup {NoDay}
  /\ sync \in Checkpoints
  /\ asked \subseteq Nat
  /\ stored \subseteq asked
  /\ worker \in Operations
  /\ stop \in BOOLEAN
  /\ currentDue \in BOOLEAN
  /\ historyDue \in BOOLEAN
  /\ retry \in Retries
  /\ faults \in 0..MaxFaults
  /\ reached \in Int
  /\ outage \in BOOLEAN

\* advance_sync_state follows the commit of its dataset, in another
\* transaction: whatever fails between them, the checkpoint never runs ahead
\* of the days committed, nor past the days that are over.
CheckpointCovered ==
  sync # NoCheckpoint =>
    /\ sync.start .. sync.next - 1 \subseteq asked
    /\ sync.next <= yesterday + 1
    /\ sync.start <= sync.next

\* The chunk in hand begins at the checkpoint of an incomplete backfill, is
\* not empty, asks for at most BACKFILL_CHUNK_DAYS days and for none that is
\* not over; so neither guard of advance_sync_state ever rejects it and the
\* worker cannot repeat one chunk for ever.
ChunkFitsCheckpoint ==
  worker.pc \in {"collect", "advance"} /\ worker.mode = "backfill" =>
    /\ sync # NoCheckpoint
    /\ ~sync.complete
    /\ sync.next = worker.from
    /\ worker.from < worker.to
    /\ worker.to <= worker.from + BACKFILL_CHUNK_DAYS
    /\ worker.to <= worker.latest + 1
    /\ worker.latest <= yesterday

\* Once the backfill is complete only the correction overlap keeps history
\* whole: as long as historical operations succeeded within the overlap of
\* one another, through every rebase of the history start, no day of the
\* wanted history was passed over.
WholeWithoutOutage ==
  sync # NoCheckpoint /\ sync.complete /\ ~outage =>
    sync.start .. reached \subseteq asked

\* What project-specification.md asks of an export: that it is checked against
\* the requested range, so that progress means the days are in the dataset.
ProgressMeansStored ==
  sync # NoCheckpoint => sync.start .. sync.next - 1 \subseteq stored

\* "Current day has priority when both are due" (configuration.md:46): a due
\* current day sees at most one historical collection begin, that of a retry
\* or of a cycle under way, however many chunks the cycle has left; unless an
\* operation fails, whose retry comes first.
CurrentOvertakenOnce == overtaken <= 1

\* The checkpoint implements BackfillProgress: progress over committed days
\* only, kept by a later history start, given up for an earlier one.
Progress == INSTANCE BackfillProgress WITH requested <- sync.start, frontier <- sync.next
ProgressSpec == Progress!ProgressSpec

Halted == stop \/ worker.pc = "down"

\* Backfill is resumable: whatever chunk failed or process died, an incomplete
\* backfill is completed while a process runs and history is wanted.
BackfillCompletes ==
  sync # NoCheckpoint /\ ~sync.complete ~> sync.complete \/ Halted \/ option = NoDay

\* Neither kind starves the other, whatever failed and however the shared
\* cooldown fell: what is due is done while a process runs.
DueIsDone ==
  /\ currentDue ~> ~currentDue \/ Halted
  /\ historyDue ~> ~historyDue \/ Halted

=============================================================================
