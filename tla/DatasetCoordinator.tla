------------------------- MODULE DatasetCoordinator -------------------------
(***************************************************************************)
(* CezPndCoordinator (coordinator.py): one poll reads the status and, when *)
(* the revision is new to it, the last day of measurements; a dataset that *)
(* changed between the two requests is asked for once more.  What it hands *)
(* to entities and to the statistics manager is the snapshot.              *)
(*                                                                         *)
(* A poll whose status or health request fails changes nothing here: the   *)
(* coordinator keeps its data and polls again.                             *)
(***************************************************************************)
EXTENDS DatasetReads

CONSTANT DAY   \* quarter-hours of the coordinator's range, 24 hours

ASSUME DayAssumption == DAY \in Nat \ {0} /\ DAY <= MAX_RANGE

VARIABLES
    poll,      \* the poll in progress: its step and the status it holds
    cache,     \* _measurements: the last accepted measurements
    snapshot   \* data: what listeners see

coordinatorVars == <<poll, cache, snapshot>>

\* 503 without a dataset; a dataset may have no valid row (yet).
Usable == metadata.revision > 0 /\ metadata.timestamp > 0

Idle == [step |-> "idle", status |-> None]
Measurements(r) == [lo |-> r.lo, hi |-> r.hi, first |-> r.first, values |-> r.values]

\* The range ends at the data_timestamp of the status: the end of the last
\* valid interval.
FetchMeasurements(step, status) ==
    /\ poll' = [step |-> step, status |-> status]
    /\ reads' = [reads EXCEPT !["coordinator"] =
                    Reading(status.meta.timestamp - DAY, status.meta.timestamp)]

PollUsable ==
    /\ poll = Idle
    /\ Usable

CacheHitByTime(status) ==   \* mutated
    cache # None /\ cache.first.meta.timestamp = status.meta.timestamp
CacheHit(status) == cache # None /\ cache.first.meta.revision = status.meta.revision

\* An unchanged revision: the measurements are not fetched again.
PollCached ==
    /\ PollUsable
    /\ CacheHit(Status)
    /\ SameDataset(Status, cache.first)
    /\ snapshot' = [status |-> Status, measurements |-> cache]
    /\ UNCHANGED <<datasetVars, poll, cache>>

PollNew ==
    /\ PollUsable
    /\ ~CacheHit(Status)
    /\ FetchMeasurements("first", Status)
    /\ UNCHANGED <<store, faults, cache, snapshot>>

Fetched == reads["coordinator"].at = "done"
RevisionMoved == reads["coordinator"].first.meta.revision # poll.status.meta.revision

\* The dataset changed between status and measurements: both once more.
PollAgain ==
    /\ poll.step = "first"
    /\ Fetched
    /\ RevisionMoved
    /\ Usable
    /\ FetchMeasurements("second", Status)
    /\ UNCHANGED <<store, faults, cache, snapshot>>

ConsistentTime ==   \* mutated
    poll.status.meta.timestamp = reads["coordinator"].first.meta.timestamp
Consistent == SameDataset(poll.status, reads["coordinator"].first)

PollOver ==
    /\ poll' = Idle
    /\ reads' = [reads EXCEPT !["coordinator"] = Rest]

PollCompletes ==
    /\ Fetched
    /\ poll.step = "first" => ~RevisionMoved
    /\ Consistent
    /\ cache' = Measurements(reads["coordinator"])
    /\ snapshot' = [status |-> poll.status, measurements |-> cache']
    /\ PollOver
    /\ UNCHANGED <<store, faults>>

\* UpdateFailed: the data of the last success stays.
PollFails ==
    /\ \/ reads["coordinator"].at \in {"refused", "lost"}
       \/ poll.step = "first" /\ Fetched /\ RevisionMoved /\ ~Usable
       \/ poll.step = "second" /\ Fetched /\ ~Consistent
    /\ PollOver
    /\ UNCHANGED <<store, faults, cache, snapshot>>

CoordinatorStep ==
    \/ PollCached
    \/ PollNew
    \/ PollAgain
    \/ PollCompletes
    \/ PollFails
    \/ ReadStep("coordinator") /\ UNCHANGED coordinatorVars

CoordinatorInit == poll = Idle /\ cache = None /\ snapshot = None

\* What listeners see is one dataset: the measurements belong to the revision
\* of the status and are all its rows of the day before its data_timestamp
\* (_async_update_data, coordinator.py).
SnapshotIsOneRevision ==
    snapshot # None =>
        LET seen == snapshot.measurements
            of == published[snapshot.status.meta.revision]
            day == Within(snapshot.status.meta.timestamp - DAY, snapshot.status.meta.timestamp)
        IN  /\ snapshot.status.meta.timestamp = Timestamp(of)
            /\ \A i \in Intervals :
                   seen.values[i] = IF i \in day /\ of[i] # Invalid
                                    THEN of[i] ELSE Absent
=============================================================================
