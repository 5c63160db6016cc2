---------------------------- MODULE DatasetReads ----------------------------
(***************************************************************************)
(* The normalized dataset of the Collector and its paginated reads.        *)
(*                                                                         *)
(* NormalizedDatasetStore (dataset_store.py) keeps one row per channel and *)
(* quarter-hour and one metadata row; a collection first records its       *)
(* attempt and then, perhaps, commits rows and metadata in one             *)
(* transaction.  CollectorApi (api.py) answers a status request and each   *)
(* page of a measurements request from one SQLite snapshot; the snapshots  *)
(* of two requests differ.  CollectorClient.async_measurements (client.py) *)
(* follows the cursor and either returns one dataset or refuses.           *)
(*                                                                         *)
(* Intervals are numbered in the order of (interval_start, channel), which *)
(* is the order of every page: interval 2s is the grid_export row of       *)
(* quarter-hour s, 2s + 1 its grid_import row.  Times are quarter-hours.   *)
(***************************************************************************)
EXTENDS Integers, FiniteSets

CONSTANTS
    Quarters,      \* the dataset never grows past this many quarter-hours
    Collections,   \* what a collection may commit: [cells, dayEnd] records
    Energy,        \* values of a valid row
    Missing, Invalid, Absent,   \* the other cells: no value; no row at all
    None,
    MAX_LIMIT,     \* rows of a page
    MAX_PAGES,     \* pages of a read
    MAX_RANGE,     \* quarter-hours of a range
    MaxAttempts,   \* bound: collections started
    MaxFaults      \* bound: failed requests, and what the importing module adds

Intervals == 0 .. 2 * Quarters - 1
Cells == Energy \cup {Missing, Invalid}
Rows == [Intervals -> Cells \cup {Absent}]
Metas == [revision : 0 .. MaxAttempts, timestamp : 0 .. Quarters, success : 1 .. Quarters,
          source : {"ok", "partial", "no_data"}, expected : Nat]
Statuses == [meta : Metas, attempt : 0 .. MaxAttempts]
Answers == [meta : Metas, attempt : 0 .. MaxAttempts,
            completeness : [expected : Nat, valid : Nat, missing : Nat, invalid : Nat]]
Readers == {"coordinator", "statistics"}

ASSUME DatasetAssumption ==
    /\ Quarters \in Nat \ {0} /\ MaxAttempts \in Nat /\ MaxFaults \in Nat
    /\ MAX_LIMIT \in Nat \ {0} /\ MAX_PAGES \in Nat \ {0} /\ MAX_RANGE \in Nat
    /\ MAX_PAGES * MAX_LIMIT >= 2 * MAX_RANGE   \* a range fits in the pages of a read
    /\ Energy \subseteq Nat
    /\ Missing \notin Energy /\ Invalid \notin Energy /\ Absent \notin Energy
    /\ Missing # Invalid /\ Absent # Missing /\ Absent # Invalid
    /\ None \notin Statuses \cup Answers
    /\ \A c \in Collections :
           /\ c.cells \in Rows
           /\ c.dayEnd \in 1 .. Quarters
           /\ \A i \in Intervals : c.cells[i] # Absent => i < 2 * c.dayEnd
           /\ \E i \in Intervals : c.cells[i] # Absent

VARIABLES
    rows,         \* table measurements
    metadata,     \* table dataset_metadata; revision 0: no row yet
    lastAttempt,  \* collector_state.last_attempt; 0: never
    collecting,   \* a collection has recorded its attempt and is not over
    published,    \* history: the rows committed under each revision
    reads,        \* the measurements read of each reader
    faults        \* failures so far

store == <<rows, metadata, lastAttempt, collecting, published>>
datasetVars == <<store, reads, faults>>

-----------------------------------------------------------------------------
(* What a set of rows amounts to *)

Within(lo, hi) == {i \in Intervals : 2 * lo <= i /\ i < 2 * hi}
With(data, is, cell) == {i \in is : data[i] = cell}
Stored(data, is) == {i \in is : data[i] # Absent}
Valid(data, is) == {i \in is : data[i] \in Energy}

\* data_timestamp: where the last valid row ends; 0 stands for NULL.
Timestamp(data) ==
    CHOOSE t \in 0 .. Quarters :
        /\ Valid(data, Within(t, Quarters)) = {}
        /\ t > 0 => Valid(data, Within(t - 1, t)) # {}

SourceStatus(data) ==
    IF With(data, Intervals, Missing) \cup With(data, Intervals, Invalid) = {}
    THEN "ok" ELSE "partial"

Completeness(data, is) ==
    [expected |-> Cardinality(Stored(data, is)),
     valid    |-> Cardinality(Valid(data, is)),
     missing  |-> Cardinality(With(data, is, Missing)),
     invalid  |-> Cardinality(With(data, is, Invalid))]

\* success is the local midnight that ends the day of last_success.
Metadata(data, id, dayEnd) ==
    [revision |-> id, timestamp |-> Timestamp(data), success |-> dayEnd,
     source |-> SourceStatus(data), expected |-> Cardinality(Stored(data, Intervals))]

NoMetadata == [revision |-> 0, timestamp |-> 0, success |-> 1, source |-> "no_data",
               expected |-> 0]

-----------------------------------------------------------------------------
(* The store *)

\* The attempt is recorded before the portal is asked.
RecordAttempt ==
    /\ ~collecting
    /\ lastAttempt < MaxAttempts
    /\ lastAttempt' = lastAttempt + 1
    /\ collecting' = TRUE
    /\ UNCHANGED <<rows, metadata, published, reads, faults>>

\* Mutated: the revision changes only when the data_timestamp does.
CommitSameRevision(c) ==
    /\ collecting
    /\ c.dayEnd >= metadata.success
    /\ LET merged == [i \in Intervals |->
                         IF c.cells[i] = Absent THEN rows[i] ELSE c.cells[i]]
           id == IF metadata.revision > 0 /\ metadata.timestamp = Timestamp(merged)
                 THEN metadata.revision ELSE lastAttempt
       IN  /\ rows' = merged
           /\ metadata' = Metadata(merged, id, c.dayEnd)
           /\ published' = [published EXCEPT ![lastAttempt] = merged]
    /\ collecting' = FALSE
    /\ UNCHANGED <<lastAttempt, reads, faults>>

\* One transaction: upsert both channels, recompute the totals and give the
\* dataset a fresh revision (a random token; here the number of its attempt).
\* Rows of other intervals stay.  The clock of the Collector does not run
\* backwards, so last_success does not either.
CommitDataset(c) ==
    /\ collecting
    /\ c.dayEnd >= metadata.success
    /\ LET merged == [i \in Intervals |->
                         IF c.cells[i] = Absent THEN rows[i] ELSE c.cells[i]]
       IN  /\ rows' = merged
           /\ metadata' = Metadata(merged, lastAttempt, c.dayEnd)
           /\ published' = [published EXCEPT ![lastAttempt] = merged]
    /\ collecting' = FALSE
    /\ UNCHANGED <<lastAttempt, reads, faults>>

CollectionFails ==
    /\ collecting
    /\ collecting' = FALSE
    /\ UNCHANGED <<rows, metadata, lastAttempt, published, reads, faults>>

Collect ==
    \/ RecordAttempt
    \/ \E c \in Collections : CommitDataset(c)
    \/ CollectionFails

\* The answers of the API, each computed from one snapshot.
Status == [meta |-> metadata, attempt |-> lastAttempt]
RangeAnswer(lo, hi) ==
    [meta |-> metadata, attempt |-> lastAttempt,
     completeness |-> Completeness(rows, Within(lo, hi))]

\* What two answers must agree in to be about one dataset.
SameDataset(a, b) ==
    /\ a.meta.revision = b.meta.revision
    /\ a.meta.timestamp = b.meta.timestamp
    /\ a.meta.success = b.meta.success
    /\ a.meta.source = b.meta.source

-----------------------------------------------------------------------------
(* One paginated read *)

NoValues == [i \in Intervals |-> Absent]

Rest == [at |-> "rest", lo |-> 0, hi |-> 0, after |-> -1, first |-> None,
         pages |-> 0, values |-> NoValues]

Reading(lo, hi) == [Rest EXCEPT !.at = "reading", !.lo = lo, !.hi = hi]

\* The page of the API: the rows after the position of the cursor, at most
\* MAX_LIMIT of them; a cursor follows when rows are left.
FollowingFrom(r) == {i \in Stored(rows, Within(r.lo, r.hi)) : r.after <= i} \* mutated
Following(r) == {i \in Stored(rows, Within(r.lo, r.hi)) : r.after < i}
Page(r) ==
    LET following == Following(r)
    IN  {i \in following : Cardinality({j \in following : j <= i}) <= MAX_LIMIT}

\* What the client has after the page: invalid rows are counted, never sent.
WithPage(r, page) ==
    [i \in Intervals |-> IF i \in page /\ rows[i] # Invalid
                         THEN rows[i] ELSE r.values[i]]

\* Requests the API answers with an error.
RejectedByApi(r) ==
    \/ metadata.revision = 0
    \/ r.hi <= r.lo \/ r.hi - r.lo > MAX_RANGE
    \/ /\ r.after >= 0
       /\ rows[r.after] = Absent \/ r.first.meta.revision # metadata.revision

\* Pages the client does not accept after those it has.
RejectedByClient(r, page, answer, more) ==
    \/ r.first # None /\ answer # r.first
    \/ \E i \in page, j \in Stored(r.values, Intervals) : i <= j
    \/ more /\ r.pages + 1 = MAX_PAGES

\* The values of all pages against the completeness of the first.
Contradicts(values, completeness) ==
    \/ Cardinality(Valid(values, Intervals)) # completeness.valid
    \/ Cardinality(With(values, Intervals, Missing)) # completeness.missing

Accepts(r, page, answer, more) ==
    /\ ~RejectedByApi(r)
    /\ ~RejectedByClient(r, page, answer, more)
    /\ more \/ ~Contradicts(WithPage(r, page), answer.completeness)

Received(r, page, answer) ==
    [r EXCEPT !.pages = @ + 1, !.first = answer, !.values = WithPage(r, page)]

\* A page with a cursor: the read goes on behind its last row.
PageRead(who) ==
    /\ reads[who].at = "reading"
    /\ \E r \in {reads[who]} :
       \E page \in {Page(r)}, answer \in {RangeAnswer(r.lo, r.hi)} :
           /\ page # Following(r)
           /\ Accepts(r, page, answer, TRUE)
           /\ \E last \in page :
                  /\ \A i \in page : i <= last
                  /\ reads' = [reads EXCEPT ![who] =
                                   [Received(r, page, answer) EXCEPT !.after = last]]
    /\ UNCHANGED <<store, faults>>

\* The last page: the whole range is one dataset.
ReadCompletes(who) ==
    /\ reads[who].at = "reading"
    /\ \E r \in {reads[who]} :
       \E page \in {Page(r)}, answer \in {RangeAnswer(r.lo, r.hi)} :
           /\ page = Following(r)
           /\ Accepts(r, page, answer, FALSE)
           /\ reads' = [reads EXCEPT ![who] =
                            [Received(r, page, answer) EXCEPT !.at = "done"]]
    /\ UNCHANGED <<store, faults>>

ReadRefused(who) ==
    /\ reads[who].at = "reading"
    /\ \E r \in {reads[who]} :
       \E page \in {Page(r)}, answer \in {RangeAnswer(r.lo, r.hi)} :
           /\ ~Accepts(r, page, answer, page # Following(r))
           /\ reads' = [reads EXCEPT ![who].at = "refused"]
    /\ UNCHANGED <<store, faults>>

Fault == faults < MaxFaults /\ faults' = faults + 1

\* TLS, connection or HTTP failure of a request.
ReadLost(who) ==
    /\ reads[who].at = "reading"
    /\ Fault
    /\ reads' = [reads EXCEPT ![who].at = "lost"]
    /\ UNCHANGED store

ReadStep(who) ==
    \/ PageRead(who)
    \/ ReadCompletes(who)
    \/ ReadRefused(who)
    \/ ReadLost(who)

DatasetInit ==
    /\ rows = NoValues
    /\ metadata = NoMetadata
    /\ lastAttempt = 0
    /\ collecting = FALSE
    /\ published = [a \in 1 .. MaxAttempts |-> NoValues]
    /\ reads = [who \in Readers |-> Rest]
    /\ faults = 0

-----------------------------------------------------------------------------
(* Properties *)

Published(r) == published[r.first.meta.revision]

\* Type correctness of the store and of the reads.
DatasetTypeOK ==
    /\ rows \in Rows
    /\ metadata \in Metas
    /\ lastAttempt \in 0 .. MaxAttempts
    /\ collecting \in BOOLEAN
    /\ published \in [1 .. MaxAttempts -> Rows]
    /\ faults \in 0 .. MaxFaults
    /\ \A who \in Readers :
           /\ reads[who].at \in {"rest", "reading", "done", "refused", "lost"}
           /\ reads[who].after \in -1 .. 2 * Quarters - 1
           /\ reads[who].values \in Rows

\* A read that completed returns exactly the valid and missing rows that one
\* revision has in the range, however commits and attempts fell between its
\* pages (async_measurements, client.py; read_measurements, dataset_store.py).
ReadsAreOneRevision ==
    \A who \in Readers : reads[who].at = "done" =>
        \A i \in Intervals :
            reads[who].values[i] =
                IF i \in Within(reads[who].lo, reads[who].hi)
                   /\ Published(reads[who])[i] # Invalid
                THEN Published(reads[who])[i] ELSE Absent

\* None of the client's checks on order, counts, ranges and page numbers ever
\* turns away an undisturbed read: a refused one met a commit or an attempt
\* after its first page.
UndisturbedReadsSucceed ==
    \A who \in Readers : reads[who].at = "refused" =>
        /\ reads[who].first # None
        /\ \/ reads[who].first.meta.revision # metadata.revision
           \/ reads[who].first.attempt # lastAttempt
=============================================================================
