# Verification of home-assistant-cez-pnd

TLA+ models of the CEZ PND Collector (a Home Assistant App in
`src/collector/collector_service`) and of the `cez_pnd` integration
(`src/custom_components/cez_pnd`) that pairs with it, the TLC runs that check
them and the TLAPS proofs about them. Every definition is translated from the
source lines `PROJECT.json` maps it to.

    tlc -workers 2 -config MCPairingDiscovery.cfg MCPairingDiscovery.tla
    tlapm PairingDiscovery_proof.tla

## The system

The Collector logs in to the CEZ distribution portal, downloads quarter-hour
CSV exports of two channels, stores them in SQLite and serves them to Home
Assistant over local HTTPS. The integration finds the Collector through a
Supervisor discovery message, pairs with it, polls it, shows sensors and feeds
long-term statistics into the Recorder.

| Part | State it keeps | Operations | Talks to |
| --- | --- | --- | --- |
| `ManagedCredentialStore` (`pairing.py`) | `pairing-state.json`: state, active and pending verifier, bootstrap, failed attempts, discovery UUID | `create_bootstrap`, `set_discovery_uuid`, `claim`, `activate`, `complete_finalize`, `authorize` | written with `atomic_write_private` under one lock, by handler threads and the discovery worker |
| `PairingDiscoveryWorker`, `PairingApi` (`pairing.py`) | a thread, `_finalize_lock` | publish a bootstrap, renew an expired one, withdraw it at finalization | Supervisor discovery API; HTTP handlers call `finalize` |
| Onboarding (`config_flow.py`, `pairing_recovery.py`, `__init__.py`, `client.py`) | recovery journal on disk, config entry in memory and on disk, two this-process marker sets, a flow | hassio discovery, confirm (journal, claim, create entry), setup (activate, verify, finalize, clean up) | pairing API calls |
| `SyncWorker` (`sync_worker.py`) | a thread, two deadlines, a shared cooldown, a stop event | current-day collection, backfill chunks, correction | `run_data_probe`, the dataset store, the event broker |
| `NormalizedDatasetStore` (`dataset_store.py`) | SQLite: measurements, metadata, last attempt, `sync_state` | `commit_dataset`, `record_attempt`, `prepare_sync_state`, `advance_sync_state`, reads | the worker writes, API handlers read |
| `EventBroker`, `CollectorHttpServer`, `CollectorApi`, `ShutdownWatchdog` | last event, waiters, handlers, deadlines | publish, wait, close; admit, expire, shut down | threads of the process |
| `CezDataProbe`, `CezHttpAuthClient`, transports, CSV parser | one session, one operation | log in, export, parse | the CEZ site |
| `coordinator.py`, `client.py`, `statistics.py`, sensors | last snapshot, attempted revision, hourly totals | poll, page through a revision, reconcile the Recorder | the Collector's API, the Recorder |
| Configuration, managed identity, private files | options, key and certificate files, temporaries | read or create once at start, replace atomically, clear interrupted writes | the disk |
| Entrypoint, static gates, logging, smoke client | none that lasts | start the process, check the repository, format | - |

What is hard about it:

* **Two processes with disks of their own, and calls that get lost.** Pairing
  spans the Collector's file, Home Assistant's journal and an entry that Core
  saves later. Either side may crash between any two of these, and a call its
  caller gave up on may arrive afterwards.
* **Threads and two nested locks around network calls** in the Collector.
* **A checkpoint in another transaction** than the data it speaks of, rebased
  by configuration changes, with midnights in the middle of operations.
* **Deadlines and a cooldown** that two kinds of work share.
* **A dataset that changes between the requests of one read**, and statistics
  that are replaced in several steps, through a queue whose confirmations may
  not come in time.
* **A portal that answers anything**, while a password may go to one place once,
  and files in which an hour is missing or comes twice when clocks change.
* **A power failure between any two file operations**, when what was renamed is
  visible but not yet certain to stay.

`PROJECT.json` lists every component (`components`) and every such hazard at
its line (`hazards`), with the properties that cover it.

## Modules

| Module | What it is |
| --- | --- |
| `ManagedCredentials` | `ManagedCredentialStore`: the file as a record, one action per operation, expiry |
| `PairingDiscovery` | extends it: the worker thread step by step, concurrent finalize handlers, locks, the Supervisor's messages, failures, restart |
| `ManagedOnboarding` | extends that: the integration end to end |
| `BackfillProgress` | abstract: what the backfill checkpoint promises |
| `HistorySync` | `SyncWorker` with `sync_state`; implements `BackfillProgress` |
| `EventService` | the broker, the HTTP handlers and the stop of the service |
| `DatasetReads` | the dataset store, the status and measurements routes, the client's pagination |
| `DatasetCoordinator` | extends it: one poll after another, the cache, the retry |
| `StatisticsImport` | extends that: the statistics manager and the Recorder |
| `CsvIntervals` | the rows of an export and the intervals parsed from them, across clock changes |
| `PortalSession` | extends it: one synchronization cycle, from login to commit |
| `PrivateFiles` | the directory of private files, atomic replacement, crashes and power failures |
| `CollectorStart` | extends it: identity, recovery of temporaries, saves of the pairing state |
| `MC*` | model values, symmetry and sample data for TLC |
| `*_proof` | theorems with machine-checked proofs |

Four families do not share variables: pairing (`ManagedCredentials` to
`ManagedOnboarding`), collection (`HistorySync`, which takes a whole cycle as
one step, and `PortalSession`, which is that cycle), reading (`DatasetReads` to
`StatisticsImport`), and the process (`EventService`, `CollectorStart`).

### ManagedCredentials and PairingDiscovery

`cred` is the JSON file. A verifier stands for the token it is the digest of; a
bootstrap's id, secret and deadline are one value, its `pairing_id`. A deadline
that passed is membership in `overdue` (bootstraps) or `pendingOverdue`; clocks
do not run backwards. An operation of the store holds its lock throughout, so
it is one action. `atomic_write_private` may fail before or after the
replacement took effect: the `*Fails` actions leave the old or the new file.

The worker is modelled call by call, because it holds locks across Supervisor
requests: `Wake` (one pass of `_run`), `EnterPublishNew` (take both locks, look
at the file), `RemoveOldDiscovery`, `ForgetOldDiscovery`,
`CreateFreshBootstrap`, `PublishBootstrap` (up to three attempts, whose answer
may be lost after the Supervisor took the message), `RecordDiscovery`. A
finalize handler is `FinalizeBegins`, `FinalizeAcquires`, `FinalizeRemoves`,
`FinalizeCompletes`, `FinalizeFails`. Which thread holds which lock follows
from where the threads are (`CredentialsLockFree`, `FinalizeLockFree`).

### ManagedOnboarding

`journal` is written through to disk; `entry` is in memory and reaches `stored`
in `EntriesSaved`, whenever Core gets round to it; `created` and `finalized`
die with the process. One call is under way at a time; it goes through `sent`,
is served by the Collector's handler, and is answered, or breaks, or its caller
gives up and it joins `late`. Setup is one step per awaited call. One Collector
identity, one config flow at a time. "Loaded" means that the pairing part of
setup is over; the first refresh that follows belongs to the coordinator.
The manual flow, where a user types a token, is left out. So is
reauthentication, which changes nothing here: an entry is refused
(`auth_failed`) only when its claim expired before it was activated, the
Collector then authorizes no token, and the reauthentication step accepts only
a token that the Collector authorizes (`config_flow.py:395-433`).

### HistorySync and BackfillProgress

Days are numbers, a dataset is the set of its days. `sync` is the `sync_state`
row, `worker` the thread with the range in hand. `Prepared` is
`prepare_sync_state`, `MayAdvance` and `Advanced` are `advance_sync_state`. A
collection (login, two exports, parse, `commit_dataset`) is one step that
commits or fails before or after the commit; a prepare or advance transaction
may succeed while the read that follows it fails. `reached` and `outage` are
history variables: the last day a finished historical operation covered, and
whether two of them were further apart than the correction overlap. So is
`overtaken`, the number of historical collections begun while the current day
was due, since it became due or an operation failed. The step a process takes
decides it (`Overtakes`, a conjunct of `SyncNext` and of every fair action),
and no action reads it.

Deadlines are flags, set when they pass. The current day's deadline (15 minutes
or more) does not pass between two instructions of the loop; at most one
midnight falls into a wait (six hours) or a collection, any number while no
process runs.

`BackfillProgress` says, without worker, schedule or failures: a frontier moves
only over committed days, an earlier request moves it back to the request, a
later one keeps it. `ProgressSpec` in `HistorySync` instantiates it with
`requested <- sync.start, frontier <- sync.next`.

### EventService

An operation of `EventBroker` holds its condition's lock, so `Publish`,
`CloseBroker` and the two halves of a wait (`Ask` up to the sleep, `Resume`
after it, however it ended) are one action each. An event is its sequence
number; a cursor of an earlier process is one value, answered like a missing
one. `conn[c].pc` is where the thread that handles a connection is, and
`Handlers`, the dictionary `_handlers`, are the connections with a thread or
about to get one: `Admit` enters it, `ThreadStarts` starts the thread, and the
signal may come between the two. The main thread (`main`) runs the `finally`
block of `_serve` step by step. Time is `late`, the cleanup deadline; the hard
stop comes after it. The writers, the synchronization and the pairing worker,
are threads that run until they end; what they do is in the other modules.

### DatasetReads, DatasetCoordinator and StatisticsImport

`rows` and `metadata` are the SQLite tables, `lastAttempt` the attempt that is
recorded before a commit in a transaction of its own. An interval number orders
the rows as `ORDER BY interval_start, channel` does, so a page is the next
`MAX_LIMIT` intervals after its cursor. Status and each page are one snapshot
each; `reads[who]` is a read by the coordinator or by the manager, with its
first page (which the later ones are compared with), its cursor and what it has
gathered. `published[r]` is a history variable: the rows of revision `r`.

`poll` is one `_async_update_data`: the status, the cached measurements of the
same revision or a read of the last day, one retry when the dataset changed.
`job` is the manager's task:
`reading` the windows of a full history, newest first, or the recent days;
`confirm`, which asks whether the revision is still the current one; then
`clearing` and `import`, stream by stream. `known` is what the last successful
synchronization left (`_hourly` and the rest), `pending` the status that came
while the task ran. The Recorder executes its queue in order, so `recorder` is
what it holds when the queue is empty; that a clear is not confirmed in time is
a fault the code sees, not one of the Recorder. Values are energies of a small
set; the aggregation to hours and the cumulative sums are folds.

### CsvIntervals and PortalSession

A clock is a shift at one instant: forward, back or none. `Rows` is the file the
portal should export, with the local labels of the true readings; `Intervals`
is what `parse_pnd_csv` makes of a file, and `Accepted` when it does: the folds
of a label, the skipped and the repeated hour, the day of a label at midnight,
conflicts, the number of intervals of each day. `Damaged` are the files with
one row lost, repeated, stated twice, misread or labelled with any other time of
any day, and those with two rows in the other order.

`session.state` is the `AuthState` of the request that comes next, or one of
the steps of `collect`. A request is allowed, refused by the destination
contract, or fails; its answer is whatever the code can tell apart: a redirect
to a class of hosts, a page with or without the form, a status. `posts` are the
requests that carried the credentials. The mandatory cleanup is a step of its
own, on every way out, and may fail to close the session. The
configuration names an EAN, an ELM or both; the portal's lists are incomplete
but true.

### PrivateFiles and CollectorStart

`directory` is what processes see; `survivors` the directories a power failure
may leave, which are those since the last synchronization of the directory.
`atomic_write_private` is `CreateTemporary`, `WriteTemporary`, `SyncTemporary`,
`Replace`, `SyncDirectory`, and each may fail, with or without its clean-up of
the temporary. A file whose data was not synchronized is `Torn` after a power
failure. `CollectorStart` is the managed branch of `load_runtime_configuration`:
load an identity or generate one, refuse evidence of an interrupted generation,
remove the temporaries of pairing writes, serve and save. An identity (keys,
certificates, meter id) is a number, never the same one twice.

## What the runs check

| Run | Question | Properties | Bounds |
| --- | --- | --- | --- |
| `pairing_discovery` | Do concurrent handlers, the worker and failures ever replace a claimed bootstrap, revoke an active token, record a message of another bootstrap, or publish after finalization? Is an expired offer renewed, every finalize answered? | `RecordedDiscoveryIsCurrent`, `WithdrawnWhenFinalized`, `FinalizedStaysQuiet`, `ClaimantKeepsBootstrap`, `ActiveNeverRevoked`, `DiscoveryRenewed`, `FinalizeAnswered` | 4 bootstraps, 2 tokens, 2 finalize handlers, 2 attempts, 2 faults |
| `onboarding` | Does every crash of either side leave a credential that can be recovered; do the two sides ever hold different tokens; is finalize only called for an entry on disk? | `CredentialRecoverable`, `FinalizedIsDurable`, `MarkersHaveJournal`, `CleanMarkersMeanFinalized`, `TokensAgree` | 3 bootstraps, 2 tokens, 1 handler, 2 faults, 1 late call |
| `onboarding_liveness` | Does setup settle? | `SetupSettles` | 3 bootstraps, 1 token, 1 fault, no late call |
| `history_sync` | Does the checkpoint stay behind the data, does a chunk always fit it, has a kept-up history no hole, does the current day come before backfill, does backfill complete, does neither kind of work starve? Does it implement `BackfillProgress`? | `CheckpointCovered`, `ChunkFitsCheckpoint`, `WholeWithoutOutage`, `CurrentOvertakenOnce`, `ProgressSpec`, `BackfillCompletes`, `DueIsDone` | days 4 to 8, history starts at day 2, day 7 or none, chunks of 2, 2 per cycle, overlap 2, 2 faults |
| `event_service` | Is an event or the shutdown slept through, a place lost, a clean stop reported too early? | `NothingSleptThrough`, `PlacesReturned`, `CleanExitIsQuiet` | 3 subscribers and another client, 3 handlers, 2 waiters, 2 events, 1 fault |
| `event_liveness` | Does a subscriber learn of every publication; does a silent client give its place back; does a stop complete without a timeout? | `EventsReachSubscribers`, `HandlerPlacesReturn`, `ShutdownCompletes` | 2 subscribers and a client that may stay silent, 2 handlers, 1 waiter, 1 event, 1 fault, cursors of an earlier process |
| `statistics_import` | Does a paginated read, a snapshot, an import ever mix two revisions; is an undisturbed read ever refused; does the Recorder hold the sums the manager believes; is a revision forgotten between listener and task? | `ReadsAreOneRevision`, `UndisturbedReadsSucceed`, `SnapshotIsOneRevision`, `RecorderMatches`, `HoursOfRevision`, `CoordinatorCatchesUp`, `NewestRevisionTried` | 3 hours of 2 intervals, 2 channels, pages of 4 rows, 2 pages, ranges of 4 intervals, 2 history windows, 3 collections of 5 kinds, 2 faults |
| `portal_session` | Do the credentials go out twice or elsewhere; is another meter's data ever committed; what can a damaged export do to the days and instants of a commit; does every cycle end, and report what it did? | `CredentialsGoOnce`, `DamageIsConfined`, `MeterIsConfigured`, `OutcomeIsTrue`, `CycleEnds` | a day of 4 intervals, an hour of 1, a change at interval 6 in either direction or none, 2 points with a meter each, 2 redirects, 2 cycles |
| `collector_start` | Does an answered pairing state, or the identity it was paired under, survive every crash and power failure; does a Collector serve again? | `PairingSurvives`, `ServesAgain` | 2 faults, 3 saves, 3 crashes, 3 directory entries |
| `short_export` | A violated requirement of the specification | `ProgressMeansStored` | no faults |
| `live_writers` | A violated statement of a comment | `NoExitWithLiveWriters` | two writers |
| `synchronized_means_imported` | A violated requirement of the specification | `SynchronizedMeansImported` | as `statistics_import` |

Bounds. A *fault* is a failed or lost Supervisor call, a failed file write or
read, a crash, a failed collection, request or transaction, or a clear that is
not confirmed. Two are enough for a failure during the recovery from another.
Bootstraps are used up by renewals: three or four let an id be claimed, expire,
and be replaced. Two tokens are two rival claimants. With chunks of two days and
two chunks a cycle, the history from day 2 needs two cycles when days pass
meanwhile; a start at day 7 lies behind the days first collected, so the start
can be moved later, earlier and away; days 4 to 8 let an outage exceed the
overlap. In `event_service` three subscribers and another client on three
places with two waiters reach both limits, and two publications coalesce.
`event_liveness` reaches both limits too: two subscribers compete for one
waiter's place, and with a silent client for two handlers' places, so that a
publication may find a subscriber refused, waiting or without a connection, with
an answer lost, or with a cursor of an earlier process (`FirstCursors`). It has
one publication; the other run has two.
`onboarding_liveness` has no late calls: the ids they hold would count as used
and block new bootstraps for a reason the code does not have.

The five kinds of collection in `MCStatisticsImport` are a first dataset, a
longer one with a gap, a correction of an old hour, a retracted newest hour and
one without a valid value; three of them in any order exercise the rebuild, the
correction, a cleared stream and the fall back to a full history. Four rows to
a page make every full window two pages, so a commit can fall between them. A
day of four intervals with an hour of one has a skipped and a repeated label,
the first interval of a day and the midnight that ends it, and the days before
and after it are labels a row may be moved to; that a row moved to the midnight
before a day but the first is refused needs a second day and is proved only. Two
redirects let
the portal exceed the limit in every phase. Three crashes interrupt a
generation, a write and a recovery; three entries are exceeded by a crash in
each of several writes.

Deadlock is checked in the pairing and onboarding runs. In the others the
system rests where its bounds end (`CHECK_DEADLOCK FALSE`): a stopped worker or
an exited process stays so, no collection or cycle is left, or a start is
refused for good.

Fairness. The threads of the Collector are daemon threads that run until their
process ends, every network call has a timeout, and the bounded faults mean
that failures end, so the worker, a collection and a setup step are weakly
fair. Handlers that contend for a lock the worker takes again and again are
strongly fair: a thread that waits for a lock gets it eventually. Home
Assistant retries an entry that is not ready. Monotonic deadlines pass. Users,
restarts and expiry of pending claims are not fair; that a bootstrap's deadline
passes is. In `EventService` the threads run, a wait and a connection end at
their limits while the service runs, and a writer that was told to stop ends. A
subscriber sends its requests and, when places become free again and again,
gets one (strong fairness; the listen queue is not modelled). Neither the
25 seconds of a wait nor the cleanup deadline is assumed to pass during a stop,
so `ShutdownCompletes` says that the stop needs neither.

In `StatisticsImport` the coordinator polls at its interval and a task of the
event loop goes on (`WF` of `Refresh` and `ManagerStep`); commits, reloads and
failures are not fair. In `PortalSession` a request is answered or reaches its
deadline (`WF` of `Step`). In `CollectorStart` the Supervisor restarts an App
that ended and a start goes on (`WF` of `StartStep`); saves need not happen.

`BackfillCompletes` and `DueIsDone` are promised while a process runs and no
stop was requested: nothing is assumed about restarts.

## What the runs found

* `short_export`: `docs/project-specification.md:327` requires that the
  requested range of an export is verified. Whole days may be missing from an
  accepted export (`cez_data_probe.py:220`) and the checkpoint moves over them.
* `live_writers`: `server.py:394` says that the service does not exit with live
  writers. A SIGTERM that interrupts the main thread between the entry of a
  handler in `_handlers` and the start of its thread leaves a thread that
  cannot be joined; `server_close` raises, the writers are not joined, and the
  process ends with the error while they run.
* `synchronized_means_imported`: `docs/project-specification.md:381` requires
  that a synchronization is recorded only after validated completion in the
  Recorder. A clear that is not confirmed in time still executes later, its
  rows are not added, and the next correction records its revision as
  synchronized although the older hours are gone (`statistics.py:308`), until a
  full rebuild.

### Known limits

Behaviour that was met while modelling, is part of the models, and is either
contrary to a document or worth knowing:

* A restart, or a failed write, between `create_bootstrap` and
  `set_discovery_uuid` replaces an open bootstrap whose message may already be
  published (`pairing.py:425`); `docs/architecture.md:82-83` names only an
  unpaired file and expiry as reasons.
* After a complete backfill only the last three completed days are collected
  (`sync_worker.py:432`). A Collector that was down, or whose collections
  failed, for longer leaves a hole for ever, unless `cez_history_start` is moved
  to an earlier date; `docs/project-specification.md:392` requires tracking of
  missing ranges. `WholeWithoutOutage` shows that this is the only way to a hole.
* A first publication that fails is not tried again within the process
  (`pairing.py:392`): only expired offers are renewed.
* A day is complete when the number of its intervals is right
  (`cez_csv_parser.py:433-443` counts by the day a row names). A row of the
  first day that is labelled 00:00 of that day is taken for the last interval of
  the day before: the number is right, the day has a hole, and the commit
  overwrites the stored last interval of the day before
  (`dataset_store.py:131-147`). `src/README.md:78` promises that "Completed
  historical days retain complete-grid validation".
* The two rows of a repeated local time are given to its two instants in the
  order of the file (`cez_csv_parser.py:402`), so two exchanged rows exchange
  their measurements, although `docs/project-specification.md:356` (SEC-28)
  requires to normalize "without guessing the repeated/nonexistent local hour;
  reject unresolved ambiguity". With either exception taken out of
  `DamageIsConfined`, TLC finds these two behaviours as counterexamples; with
  both in, nothing else gets through.
* `docs/configuration.md:27-28` says of an EAN and an ELM that "The Collector
  verifies that they refer to the same meter". When the list of meters is
  unavailable, it falls back to the configured ELM unverified
  (`cez_data_probe.py:598-664`), which `MeterIsConfigured` excepts.
* `docs/project-specification.md:392` requires that "Authentication, CAPTCHA,
  lock and security failures suppress automatic retries pending a deliberate
  recovery decision"; `docs/configuration.md:88-101` says that such failures are
  retried hourly, and the code does that. `BackfillCompletes` and `DueIsDone`
  follow the code: every failure is retried after the shared wait.
* `run_data_probe` leaves its transport open when `record_attempt` fails
  (`cez_data_probe.py:797-802`); the cycle then reports a failure (`OutcomeIsTrue`).
* An interrupted generation of the identity blocks every later start, as
  `docs/configuration.md:134` says, and so does a directory of more than 64
  entries; `ServesAgain` excepts both. A new identity is certain to stay only
  once a pairing save has synchronized the directory, so `PairedIdentityKept`
  speaks of answered saves. Its certificate ends after 397 days; time to that
  expiry is not modelled. An identity being generated is already evidence of an
  interrupted generation, so during the first generation `ServesAgain` holds at
  once; it says something from the moment an identity is on disk.

## What is proved

For every value of the constants (any number of bootstraps, tokens, handlers,
attempts, days, faults, connections, places, pages, redirects, meters, crashes,
any chunk size and overlap):

* `ManagedCredentials_proof`: each operation of the store keeps the file one
  that `_validate_state` accepts, and an active verifier only in an ACTIVE file
  (`CredentialInv`); none replaces an active token or a first claimant.
* `PairingDiscovery_proof`: the type invariant, `RecordedDiscoveryIsCurrent`,
  and the four action properties of the run. The inductive invariant `IInv`
  adds `WorkerHolds` and `FinalizerHolds`: what the worker, or a finalize
  handler, learned of the file when it took the locks stays true at each of its
  later steps, because no other thread may write meanwhile. Without it the
  worker's later writes could not be told from stale ones. Each step of each
  thread is one step of the store or leaves the file alone
  (`StepIsCredentialStep`), so the lemmas of `ManagedCredentials_proof` are
  cited once per operation. The lemmas are about `CollectorStep`, which is
  wider than `DiscoveryNext` by the requests another module hands in.
* `ManagedOnboarding_proof`: the type invariant and the five invariants of
  `onboarding`. None is inductive, nor are they together: what a disk may be
  said to hold depends on how far every other actor is. `OnboardingInv` says
  it: a flow that claims works with the journalled token (`FlowHolds`); setup
  still has the markers it sets out to clear, and only a process that read its
  entry from disk finalizes (`SetupHolds`); an answer on its way is the truth
  about the Collector until it is read (`CallHolds`); the markers of an entry,
  in memory or on disk, imply the journal or a finalized Collector
  (`MarkersHold`); a finalize that runs, is on its way or was abandoned has its
  entry on disk (`FinalizeIsDurable`). It is inductive together with the
  Collector's `IInv`, from which `PairingDiscovery_proof` says what a step of
  the Collector may do to a verifier and to the finalized state;
  `CollectorMovesInv` shows once that any such step keeps `OnboardingInv`.
* `HistorySync_proof`: the type invariant, `CheckpointCovered`,
  `ChunkFitsCheckpoint`, `WholeWithoutOutage`, `CurrentOvertakenOnce`, and
  `SyncSpec => ProgressSpec`. The strengthening is `WorkerFits`: the latest day
  read at the start of an operation is not after the latest completed day, an
  incomplete checkpoint is not beyond it, a correction in hand reaches back to
  the overlap, and at `advance` the chunk in hand is committed. `RowFits` says
  what every row that is written satisfies; `RowStep` shows once that writing
  such a row keeps the invariants, for the four actions that write one.
  `OvertakenFits` is the strengthening for `CurrentOvertakenOnce`: the count is
  one at most, and one only while the current day is due and at certain steps of
  the worker.

* `EventService_proof`: `ServiceTypeOK` with both limits, `NothingSleptThrough`,
  `PlacesReturned`, `CleanExitIsQuiet`. Two lemmas carry it: a step changes the
  set of waiting handlers by at most one, together with the broker's count
  (`WaitingStep`), and only the serving main thread adds a handler, while there
  is room (`HandlersStep`). `JoinsHold` is the strengthening for the exit: what
  the joins found stays true, since nothing is admitted any more.
* `StatisticsImport_proof`: `ReadsAreOneRevision`, `UndisturbedReadsSucceed`,
  `SnapshotIsOneRevision`, `HoursOfRevision`, `RecorderMatches`, from one
  inductive invariant of the whole data path (`ImportInv`), in the order in
  which data flows. `StoreInv`: the rows are those of the last published
  revision; a revision, once committed, stays what it was (`CommittedStays`),
  so everything that is about an older revision survives a commit. `ReadsInv`:
  a read has gathered exactly the rows of its first page's revision up to its
  cursor, and at least `MAX_LIMIT` rows per page. From the count it follows
  that no undisturbed read is refused: a page that leaves rows behind is full
  (`PageIsFull`), so the pages of a range cannot run out, and the values of all
  pages agree with the completeness of the first (`UndisturbedIsAccepted`).
  `PollInv` and `CacheInv` carry the reads through the retry and the cache to
  the snapshot. `JobInv`: the windows read so far hold the hours from their
  start on, and their counts add up to the rows from there on (`WindowMerged`);
  when the sum is the count of the dataset, no row is older, so every older
  hour has no value (`HistoryIsWhole`); windows start and end at hours, so no
  hour is cut (`WindowHours`). `RecorderInv`: during a correction each stream
  is what it was, what it will be, or was just cleared (`StreamKeepsRecorder`);
  the rows from the earliest change on suffice because sums of equal prefixes
  are equal (`UpsertedSums`). The proofs need nothing of sums but that equal
  hours have equal ones.
* `PortalSession_proof`: the type invariant, `CredentialsGoOnce`,
  `MeterIsConfigured`, `OutcomeIsTrue`, `DamageIsConfined`. `SubmittedOnce` ties the requests with
  credentials to the state machine: none before the form is submitted, one from
  then on, and no step leads back. `MeterChosen` follows the meter from its
  selection (`SelectedIsChosen`) to the commit, `CommitOfThisRun` the outcome.
  `FilesAreExports` says what the files of a session may be, and for these the
  rest is about the parser. `AcceptedDaysAreWhole` holds for any file at all,
  whatever its rows, their number and their order: if each is labelled within
  its day, an accepted file has every interval of every day it names. A file
  cannot trade a lost interval for another: a label has its readings in the day
  it names (`LabelIsInDay`), a day has as many intervals as instants (`DayIs`),
  so a hole makes the count short (`HoleRefused`). A repeated hour cannot lose
  one of its two rows either (`LostTime`). `AcceptedRowsAreConfined` draws the
  conclusion for each kind of damage. A lost row is refused. A file that tells
  every time as often as the true one has each row at its own instant
  (`TimesKept`). A moved row leaves a hole, and the file is refused wherever it
  went, unless it went to the midnight that begins the first day
  (`MovedRowLeavesHole`): a later midnight has its own row, earlier in the file,
  which is the one that is read. The readings of a time have their own row, or
  each other's (`ReadingsArePaired`), so exchanged rows do no more than that
  (`ExchangedRowsAreConfined`).
* `CollectorStart_proof`: the type invariant and `PairingSurvives`.
  A power failure may leave any of `survivors`, so both parts speak of all of
  them; `WriteInPlace` says which file is being replaced in which mode, and how
  far the directory shows it, `LoadedFromFile` that the identity in use is the
  one on disk, `AnsweredHadIdentity` that nobody is answered before there is one.

The assumptions are those the modules declare by name (`IdAssumption`,
`TokenAssumption`, `AttemptsAssumption`, `FinalizerAssumption`,
`DayAssumption`, `ChunkAssumption`, `DatasetAssumption`,
`StatisticsAssumption`, `OwnerAssumption`, `ContentAssumption` and the others
marked `ASSUME`): constants have their types, "none" is not a value, the
connections are finitely many, the overlap is no longer than a chunk, a window
is no longer than a range, a range fits in the pages of a read (60 days of two
channels are 11520 rows, 64 pages of 1000 rows hold them), windows, corrections
and completed days end at hours, the configured meter is the one of the configured
point, and the clock of the source changes within a day and not near midnight
(`TransitionAssumption`; the default time zone, Europe/Prague, changes at two
and three o'clock).

Only model-checked: all liveness (`DiscoveryRenewed`, `FinalizeAnswered`,
`SetupSettles`, `BackfillCompletes`, `DueIsDone`, `EventsReachSubscribers`,
`HandlerPlacesReturn`, `ShutdownCompletes`, `CoordinatorCatchesUp`,
`NewestRevisionTried`, `CycleEnds`, `ServesAgain`), which is out of the
prover's reach. Every safety property of a passing run is also a theorem.

## Not modelled

* The manual flow, reauthentication and the options flow of the integration: a
  user replaces data by hand (see ManagedOnboarding above for what
  reauthentication can do after a refused claim).
* The modes of the Collector that run once (`cez_discovery.py`, the probe's raw
  files and shadow comparison), the strict transport and the restricted proxy
  that serve them, and the legacy TLS branches of the configuration.
* A call of `add_statistics` that fails (`statistics.py:289`, `:317`): in the
  model the Recorder always takes the rows.
* HTML, cookie and CSV syntax, DNS answers, HTTP framing, SQL and JSON
  encodings: what they decide is a flag or a choice in the models.
* The validation of options, owners and modes of files, the contents of an
  identity: pure checks that refuse to start.
* Sensors and health, which show the coordinator's snapshot; logging; the
  entrypoint and the static verifiers, which have no state; tests and the smoke
  client.
