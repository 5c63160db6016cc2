----------------------- MODULE StatisticsImport_proof -----------------------
(***************************************************************************)
(* Proofs about the data path, for every size of page, range, window and    *)
(* hour, however commits and attempts fall between requests: a paginated    *)
(* read returns the rows of one revision, and is refused only when that     *)
(* revision or its attempt has passed; what listeners see is one dataset;   *)
(* the hours believed imported are those of the revision believed imported, *)
(* and the Recorder holds their sums.                                       *)
(***************************************************************************)
EXTENDS StatisticsImport, FiniteSetTheorems, NaturalsInduction, WellFoundedInduction, TLAPS

\* A boundary between two hours.
Aligned(t) == \E k \in Int : t = HOUR * k

\* The metadata of a revision that was committed.
Committed(meta) ==
  /\ meta \in Metas
  /\ meta.revision \in 1 .. metadata.revision
  /\ meta.timestamp = Timestamp(published[meta.revision])
  /\ meta.expected = Cardinality(Stored(published[meta.revision], Intervals))
  /\ Aligned(meta.success)
  /\ meta.revision = metadata.revision => meta = metadata

\* The rows on disk are those of the newest revision; a collection that is
\* going on has not used its number.
StoreInv ==
  /\ rows \in Rows
  /\ lastAttempt \in 0 .. MaxAttempts
  /\ metadata \in Metas
  /\ metadata.revision \in 0 .. lastAttempt
  /\ collecting => metadata.revision < lastAttempt
  /\ published \in [1 .. MaxAttempts -> Rows]
  /\ metadata.revision > 0 => Committed(metadata) /\ rows = published[metadata.revision]

\* The rows of a revision in a range, invalid ones left out.
Exactly(values, meta, range) ==
  \A i \in Intervals :
    values[i] = IF i \in range /\ published[meta.revision][i] # Invalid
                THEN published[meta.revision][i] ELSE Absent

UpTo(r) == {i \in Within(r.lo, r.hi) : i <= r.after}

ReadShape(r) ==
  r = [at |-> r.at, lo |-> r.lo, hi |-> r.hi, after |-> r.after, first |-> r.first,
       pages |-> r.pages, values |-> r.values]

\* A range the API answers.
Ranged(lo, hi) ==
  /\ lo \in Int /\ hi \in Int
  /\ lo < hi /\ hi - lo <= MAX_RANGE
  /\ metadata.revision > 0

\* The answer of the first page is that of one revision for the whole range.
FirstAnswer(r) ==
  /\ r.first = [meta |-> r.first.meta, attempt |-> r.first.attempt,
                completeness |-> Completeness(published[r.first.meta.revision],
                                              Within(r.lo, r.hi))]
  /\ Committed(r.first.meta)
  /\ r.first.attempt \in 0 .. lastAttempt

\* A commit or an attempt fell after the first page.
Disturbed(r) ==
  r.first.meta.revision # metadata.revision \/ r.first.attempt # lastAttempt

\* What a read has behind its cursor: full pages of its revision.
PagesRead(r) ==
  /\ r.first # None
  /\ Exactly(r.values, r.first.meta, UpTo(r))
  /\ published[r.first.meta.revision][r.after] # Absent
  /\ r.pages \in Nat
  /\ MAX_LIMIT * r.pages <= Cardinality(Stored(published[r.first.meta.revision], UpTo(r)))

ReadInv(r) ==
  /\ ReadShape(r)
  /\ r.after \in Intervals \cup {-1}
  /\ r.at # "rest" => Ranged(r.lo, r.hi)
  /\ r.first # None => FirstAnswer(r)
  /\ r.at = "reading" /\ r.after = -1 => r.values = NoValues /\ r.first = None /\ r.pages = 0
  /\ r.at = "reading" /\ r.after # -1 => PagesRead(r)
  /\ r.at = "done" => r.first # None /\ Exactly(r.values, r.first.meta, Within(r.lo, r.hi))
  /\ r.at = "refused" => r.first # None /\ Disturbed(r)

ReadsInv ==
  /\ reads = [who \in Readers |-> reads[who]]
  /\ \A who \in Readers : ReadInv(reads[who])

Day(meta) == Within(meta.timestamp - DAY, meta.timestamp)

StatusOK(status) == status \in Statuses /\ Committed(status.meta)

\* The coordinator reads the day before the data_timestamp it was told.
PollInv ==
  reads["coordinator"].at # "rest" =>
    /\ StatusOK(poll.status)
    /\ reads["coordinator"].lo = poll.status.meta.timestamp - DAY
    /\ reads["coordinator"].hi = poll.status.meta.timestamp

CacheInv ==
  cache # None =>
    Committed(cache.first.meta) /\ Exactly(cache.values, cache.first.meta, Day(cache.first.meta))

SnapshotInv ==
  snapshot # None =>
    /\ StatusOK(snapshot.status)
    /\ Exactly(snapshot.measurements.values, snapshot.status.meta, Day(snapshot.status.meta))

DataInv == StoreInv /\ ReadsInv /\ PollInv /\ CacheInv /\ SnapshotInv

\* The hours a synchronization with a status is about are of its revision.
OfRevision(hourly, status, full) ==
  \A c \in Channels, h \in Hours :
    full \/ InCorrection(status, h) =>
      hourly[c][h] = Hourly(published[status.meta.revision])[c][h]

\* The windows so far hold the newest hours, and their counts add up.
WindowsRead(r, status, hourly, expected) ==
  /\ r.hi <= HistoryEnd(status)
  /\ expected =
       Cardinality(Stored(published[status.meta.revision], Within(r.hi, HistoryEnd(status))))
  /\ \A c \in Channels, h \in Hours :
       hourly[c][h] = IF r.hi <= HOUR * h
                      THEN Hourly(published[status.meta.revision])[c][h] ELSE Absent

ReadingInv ==
  job.step = "reading" =>
    /\ Window.at # "rest"
    /\ Aligned(Window.lo) /\ Aligned(Window.hi)
    /\ job.full => WindowsRead(Window, job.status, job.hourly, job.expected)
    /\ ~job.full => /\ Window.lo = CeilHour(job.status.meta.timestamp) - RECENT_CORRECTION
                    /\ Window.hi = CeilHour(job.status.meta.timestamp)

JobShape ==
  job = [step |-> job.step, status |-> job.status, full |-> job.full, expected |-> job.expected,
         windows |-> job.windows, hourly |-> job.hourly, left |-> job.left]

JobInv ==
  /\ JobShape
  /\ job.full \in BOOLEAN
  /\ pending # None => StatusOK(pending)
  /\ job.step = "idle" => job = NoJob
  /\ job.step # "idle" => StatusOK(job.status)
  /\ job.step # "idle" /\ ~job.full => known.hourly # None
  /\ ReadingInv
  /\ job.step \in {"confirm", "clearing", "import"} =>
       OfRevision(job.hourly, job.status, job.full)

\* The hours of the last synchronization; after a correction its status.
KnownInv ==
  known.hourly # None =>
    /\ known.revision \in 1 .. metadata.revision
    /\ HoursOfRevision
    /\ known.status # None => StatusOK(known.status)

\* What the Recorder holds of a stream are the sums of these hours.
Holds(c, hourly) == recorder[c] = Cumulative(hourly[c])

\* Streams of a correction that are not written yet.
LeftStreams == {job.left[n] : n \in DOMAIN job.left}

\* A stream is what it was, or what it will be, or was just cleared.
RecorderInv ==
  /\ recorder = [c \in Channels |-> recorder[c]]
  /\ RecorderMatches
  /\ job.step = "import" /\ job.full =>
       job.left = <<>> /\ \A c \in Channels : Holds(c, job.hourly)
  /\ job.step \in {"clearing", "import"} /\ ~job.full =>
       /\ job.left \in {Streams, <<GridExport>>, <<>>}
       /\ job.step = "clearing" => job.left # <<>>
       /\ ~clearLost =>
            \A c \in Channels :
              \/ c \notin LeftStreams /\ Holds(c, job.hourly)
              \/ c \in LeftStreams /\ Holds(c, known.hourly)
              \/ job.step = "clearing" /\ c = Head(job.left)

ImportInv == DataInv /\ JobInv /\ KnownInv /\ RecorderInv

-----------------------------------------------------------------------------
(* Intervals                                                               *)

\* The intervals are finitely many.
LEMMA IntervalsFinite == IsFiniteSet(Intervals)
<1>1. 0 \in Int /\ 2 * Quarters - 1 \in Int
  BY DatasetAssumption
<1> QED
  BY <1>1, FS_Interval DEF Intervals

\* Every set of them is finite.
LEMMA Counted ==
  ASSUME NEW is \in SUBSET Intervals
  PROVE  IsFiniteSet(is) /\ Cardinality(is) \in Nat
  BY IntervalsFinite, FS_Subset, FS_CardinalityType

\* Disjoint sets of them.
LEMMA CountedTogether ==
  ASSUME NEW S \in SUBSET Intervals, NEW T \in SUBSET Intervals, S \cap T = {}
  PROVE  Cardinality(S \cup T) = Cardinality(S) + Cardinality(T)
<1>1. IsFiniteSet(S) /\ IsFiniteSet(T) /\ Cardinality(S) \in Nat /\ Cardinality(T) \in Nat
  BY Counted
<1>2. Cardinality(S \cup T) = Cardinality(S) + Cardinality(T) - Cardinality(S \cap T)
  BY <1>1, FS_Union
<1>3. Cardinality(S \cap T) = 0
  BY FS_EmptySet
<1> QED
  BY <1>1, <1>2, <1>3

\* A set of naturals has a least element.
LEMMA Least ==
  ASSUME NEW S \in SUBSET Nat, S # {}
  PROVE  \E x \in S : \A y \in S : x <= y
<1>1. PICK x \in S : \A y \in S : ~(<<y, x>> \in OpToRel(<, Nat))
  BY NatLessThanWellFounded, WFMin
<1>2. \A y \in S : ~(y < x)
  BY <1>1 DEF OpToRel
<1> QED
  BY <1>2

\* data_timestamp is the end of the last valid row: none is after it.
LEMMA TimestampOf ==
  ASSUME NEW data
  PROVE  /\ Timestamp(data) \in 0 .. Quarters
         /\ Valid(data, Within(Timestamp(data), Quarters)) = {}
<1> USE DatasetAssumption
<1> DEFINE quiet == {t \in 0 .. Quarters : Valid(data, Within(t, Quarters)) = {}}
<1>1. Quarters \in quiet
  BY DEF Valid, Within, Intervals
<1>2. PICK t \in quiet : \A u \in quiet : t <= u
  <2>1. quiet \in SUBSET Nat /\ quiet # {}
    BY <1>1
  <2> HIDE DEF quiet
  <2> QED
    BY <2>1, Least
<1>3. ASSUME t > 0 PROVE Valid(data, Within(t - 1, t)) # {}
  <2>1. t - 1 \notin quiet /\ t - 1 \in 0 .. Quarters
    BY <1>2, <1>3
  <2>2. PICK i \in Within(t - 1, Quarters) : data[i] \in Energy
    BY <2>1 DEF Valid
  <2>3. i \notin Within(t, Quarters)
    BY <1>2, <2>2 DEF Valid
  <2>4. i \in Within(t - 1, t)
    BY <1>2, <2>2, <2>3 DEF Within, Intervals
  <2> QED
    BY <2>2, <2>4 DEF Valid
<1> DEFINE P(u) == /\ Valid(data, Within(u, Quarters)) = {}
                   /\ u > 0 => Valid(data, Within(u - 1, u)) # {}
<1>4. \E u \in 0 .. Quarters : P(u)
  BY <1>2, <1>3
<1>5. Timestamp(data) = CHOOSE u \in 0 .. Quarters : P(u)
  BY DEF Timestamp
<1> HIDE DEF P
<1>6. Timestamp(data) \in 0 .. Quarters /\ P(Timestamp(data))
  BY <1>4, <1>5
<1> QED
  BY <1>6 DEF P

-----------------------------------------------------------------------------
(* Hours *)

\* An hour is a range of quarter-hours of the dataset.
LEMMA HourRange ==
  ASSUME NEW c \in Channels, NEW h \in Hours
  PROVE  /\ HOUR * h \in Nat /\ HOUR * h + HOUR <= Quarters
         /\ HourIntervals(c, h) # {}
         /\ HourIntervals(c, h) \subseteq Within(HOUR * h, HOUR * h + HOUR)
<1> USE DatasetAssumption, StatisticsAssumption
<1> DEFINE n == Quarters \div HOUR
           from == HOUR * h
<1>1. n \in Nat /\ HOUR * n <= Quarters
  OBVIOUS
<1>2. h \in Nat /\ h + 1 <= n
  BY <1>1 DEF Hours
<1>3. HOUR * (h + 1) <= HOUR * n /\ HOUR * h \in Nat /\ HOUR * (h + 1) = HOUR * h + HOUR
  <2> HIDE DEF n
  <2> QED BY <1>1, <1>2
<1>4. from \in Nat /\ from + HOUR <= Quarters
  <2> HIDE DEF n
  <2> QED
  BY <1>1, <1>3
<1>5. HourIntervals(c, h) = {2 * q + c : q \in from .. from + HOUR - 1}
  BY DEF HourIntervals
<1> HIDE DEF from
<1>6. HourIntervals(c, h) # {} /\ HourIntervals(c, h) \subseteq Within(from, from + HOUR)
  BY <1>4, <1>5 DEF Within, Intervals, Channels, GridExport, GridImport
<1> QED
  BY <1>4, <1>6 DEF from

\* The hour of two datasets that agree on its quarter-hours.
LEMMA HourOfEqual ==
  ASSUME NEW c \in Channels, NEW h \in Hours, NEW a, NEW b,
         \A i \in HourIntervals(c, h) : a[i] = b[i] \/ (a[i] \notin Energy /\ b[i] \notin Energy)
  PROVE  Hourly(a)[c][h] = Hourly(b)[c][h]
<1> DEFINE is == HourIntervals(c, h)
           hour(data) == Restrict(data, is)
<1>1. \A data : Hourly(data)[c][h] =
        IF Range(hour(data)) \subseteq Energy THEN SumFunction(hour(data)) ELSE Absent
  BY DEF Hourly
<1>2. \A data : Range(hour(data)) \subseteq Energy <=> \A i \in is : data[i] \in Energy
  BY DEF Restrict, Range
<1>3. (\A i \in is : a[i] \in Energy) => hour(a) = hour(b)
  BY DEF Restrict
<1>4. (\A i \in is : a[i] \in Energy) <=> (\A i \in is : b[i] \in Energy)
  OBVIOUS
<1> HIDE DEF is, hour
<1> QED
  BY <1>1, <1>2, <1>3, <1>4

\* An hour with a quarter-hour that is not valid.
LEMMA HourWithGap ==
  ASSUME NEW c \in Channels, NEW h \in Hours, NEW a,
         NEW i \in HourIntervals(c, h), a[i] \notin Energy
  PROVE  Hourly(a)[c][h] = Absent
<1>1. ~(Range(Restrict(a, HourIntervals(c, h))) \subseteq Energy)
  BY DEF Restrict, Range
<1> QED
  BY <1>1 DEF Hourly

\* Boundaries of hours do not fall into hours.
LEMMA AlignedBefore ==
  ASSUME NEW t, Aligned(t), NEW h \in Int
  PROVE  t \in Int /\ HOUR * h \in Int /\ (t <= HOUR * h \/ HOUR * h + HOUR <= t)
<1> USE StatisticsAssumption
<1>1. PICK k \in Int : t = HOUR * k
  BY DEF Aligned
<1>2. CASE k <= h
  <2>1. HOUR * k <= HOUR * h
    BY <1>2
  <2> QED BY <2>1, <1>1
<1>3. CASE h + 1 <= k
  <2>1. HOUR * (h + 1) <= HOUR * k /\ HOUR * (h + 1) = HOUR * h + HOUR
    BY <1>3
  <2> QED BY <2>1, <1>1
<1> QED BY <1>1, <1>2, <1>3

\* Boundaries are closed under differences.
LEMMA AlignedSum ==
  ASSUME NEW t, NEW u, Aligned(t), Aligned(u)
  PROVE  Aligned(t - u) /\ t - u \in Int
<1> USE StatisticsAssumption
<1>1. PICK k \in Int, l \in Int : t = HOUR * k /\ u = HOUR * l
  BY DEF Aligned
<1> DEFINE d == k - l
<1>2. d \in Int /\ k = d + l
  OBVIOUS
<1>3. HOUR * d + HOUR * l = HOUR * (d + l)
  <2> HIDE DEF d
  <2> QED
    BY <1>2
<1> HIDE DEF d
<1>4. t - u = HOUR * d /\ t - u \in Int
  BY <1>1, <1>2, <1>3
<1> QED
  BY <1>2, <1>4 DEF Aligned

\* What the configuration and last_success are divisible by.
LEMMA AlignedModulus ==
  ASSUME NEW t \in Nat, t % HOUR = 0
  PROVE  Aligned(t)
<1>1. t = HOUR * (t \div HOUR) /\ t \div HOUR \in Int
  BY StatisticsAssumption
<1> QED
  BY <1>1 DEF Aligned

\* Rounding up to the hour.
LEMMA CeilHourOf ==
  ASSUME NEW t \in Nat
  PROVE  CeilHour(t) \in Nat /\ Aligned(CeilHour(t)) /\ t <= CeilHour(t)
<1> USE StatisticsAssumption
<1> DEFINE n == (t + HOUR - 1) \div HOUR
<1>1. n \in Nat /\ t + HOUR - 1 < HOUR * n + HOUR
  OBVIOUS
<1>2. HOUR * n \in Nat /\ t <= HOUR * n
  <2> HIDE DEF n
  <2> QED BY <1>1
<1> QED
  BY <1>1, <1>2 DEF CeilHour, Aligned

-----------------------------------------------------------------------------
(* Pages                                                                   *)

\* A page and the rows it is taken from are intervals.
LEMMA PageIsPart ==
  ASSUME NEW r
  PROVE  Following(r) \subseteq Intervals /\ Page(r) \subseteq Following(r)
  BY DEF Page, Following, Stored, Within

\* A page is what follows the cursor up to its own last row.
LEMMA PageIsClosed ==
  ASSUME NEW r, NEW last \in Page(r), \A i \in Page(r) : i <= last
  PROVE  Page(r) = {i \in Following(r) : i <= last}
<1> DEFINE upTo(i) == {j \in Following(r) : j <= i}
<1>1. Following(r) \subseteq Intervals /\ Page(r) \subseteq Following(r)
  BY PageIsPart
<1>2. \A i \in Following(r) : IsFiniteSet(upTo(i)) /\ Cardinality(upTo(i)) \in Nat
  BY <1>1, Counted
<1>3. ASSUME NEW i \in Following(r), i <= last
      PROVE  i \in Page(r)
  <2>1. last \in Following(r) /\ i \in Int /\ last \in Int
    BY <1>1, DatasetAssumption DEF Intervals
  <2>2. upTo(i) \subseteq upTo(last)
    BY <1>1, <1>3, <2>1, DatasetAssumption DEF Intervals
  <2>3. Cardinality(upTo(i)) <= Cardinality(upTo(last))
    BY <1>2, <2>1, <2>2, FS_Subset
  <2>4. Cardinality(upTo(last)) <= MAX_LIMIT
    BY DEF Page
  <2>5. Cardinality(upTo(i)) <= MAX_LIMIT
    BY <1>2, <2>1, <2>3, <2>4, DatasetAssumption
  <2> QED
    BY <2>5 DEF Page
<1> QED
  BY <1>1, <1>3

\* A page that leaves rows behind is full.
LEMMA PageIsFull ==
  ASSUME NEW r, Page(r) # Following(r)
  PROVE  MAX_LIMIT <= Cardinality(Page(r))
<1> DEFINE page == Page(r)
           upTo(i) == {j \in Following(r) : j <= i}
<1>1. Following(r) \subseteq Intervals /\ page \subseteq Following(r) /\ Intervals \subseteq Nat
  BY PageIsPart DEF Intervals
<1>2. PICK i \in Following(r) \ page : \A j \in Following(r) \ page : i <= j
  <2>1. Following(r) \ page \in SUBSET Nat /\ Following(r) \ page # {}
    BY <1>1
  <2> QED
    BY <2>1, Least
<1>3. upTo(i) \subseteq page \cup {i}
  <2> SUFFICES ASSUME NEW j \in Following(r), j <= i, j \notin page
               PROVE  j = i
    OBVIOUS
  <2>1. j \in Following(r) \ page
    OBVIOUS
  <2>2. i <= j
    BY <1>2, <2>1
  <2>3. i \in Nat /\ j \in Nat
    BY <1>1, <1>2
  <2> QED
    BY <2>2, <2>3
<1>4. ~(Cardinality(upTo(i)) <= MAX_LIMIT)
  BY <1>2 DEF Page
<1>5. IsFiniteSet(page) /\ Cardinality(page) \in Nat
  BY <1>1, Counted
<1>6. IsFiniteSet(page \cup {i}) /\ Cardinality(page \cup {i}) = Cardinality(page) + 1
  BY <1>2, <1>5, FS_AddElement
<1>7. Cardinality(upTo(i)) <= Cardinality(page) + 1 /\ Cardinality(upTo(i)) \in Nat
  BY <1>1, <1>3, <1>6, FS_Subset, Counted
<1> QED
  BY <1>4, <1>5, <1>7, DatasetAssumption

\* A range has two rows per quarter-hour.
LEMMA RangeCount ==
  ASSUME NEW lo \in Int, NEW hi \in Int, lo < hi
  PROVE  Cardinality(Within(lo, hi)) <= 2 * (hi - lo)
<1>1. Within(lo, hi) \subseteq 2 * lo .. 2 * hi - 1
  BY DatasetAssumption DEF Within, Intervals
<1>2. IsFiniteSet(2 * lo .. 2 * hi - 1) /\ Cardinality(2 * lo .. 2 * hi - 1) = 2 * (hi - lo)
  BY FS_Interval
<1> QED
  BY <1>1, <1>2, FS_Subset

\* Every answer of the API is one, and so is every status.
LEMMA Answered ==
  ASSUME StoreInv, NEW lo, NEW hi
  PROVE  /\ RangeAnswer(lo, hi) # None
         /\ Status \in Statuses
         /\ Completeness(rows, Within(lo, hi)) \in
              [expected : Nat, valid : Nat, missing : Nat, invalid : Nat]
<1>1. \A is \in SUBSET Within(lo, hi) : Cardinality(is) \in Nat
  BY Counted DEF Within
<1>2. Completeness(rows, Within(lo, hi)) \in
        [expected : Nat, valid : Nat, missing : Nat, invalid : Nat]
  BY <1>1 DEF Completeness, Stored, Valid, With
<1>3. metadata \in Metas /\ lastAttempt \in 0 .. MaxAttempts
  BY DEF StoreInv
<1>4. RangeAnswer(lo, hi) \in Answers
  BY <1>2, <1>3 DEF RangeAnswer, Answers
<1>5. Status \in Statuses
  BY <1>3 DEF Status, Statuses
<1> QED
  BY <1>2, <1>4, <1>5, DatasetAssumption

\* A read in progress has exactly what is behind its cursor, whatever that is.
LEMMA BehindCursor ==
  ASSUME StoreInv, NEW r, ReadInv(r), r.at = "reading",
         r.after # -1 => r.first.meta.revision = metadata.revision
  PROVE  /\ metadata.revision > 0 /\ Committed(metadata) /\ rows = published[metadata.revision]
         /\ \A i \in Intervals : r.values[i] = IF i \in UpTo(r) /\ rows[i] # Invalid
                                               THEN rows[i] ELSE Absent
         /\ r.pages \in Nat
         /\ MAX_LIMIT * r.pages <= Cardinality(Stored(rows, UpTo(r)))
         /\ r.after # -1 => r.first # None /\ rows[r.after] # Absent
<1>1. metadata.revision > 0 /\ Committed(metadata) /\ rows = published[metadata.revision]
  BY DEF StoreInv, ReadInv, Ranged
<1>2. CASE r.after = -1
  <2>1. r.values = NoValues /\ UpTo(r) = {} /\ r.pages = 0
    BY <1>2, DatasetAssumption DEF ReadInv, UpTo, Within, Intervals
  <2>2. Stored(rows, UpTo(r)) = {}
    BY <2>1 DEF Stored
  <2>3. MAX_LIMIT * r.pages <= Cardinality(Stored(rows, UpTo(r)))
    <3>1. MAX_LIMIT * 0 = 0
      BY DatasetAssumption
    <3>2. Cardinality(Stored(rows, UpTo(r))) = 0
      BY <2>2, FS_EmptySet
    <3> QED
      BY <2>1, <3>1, <3>2
  <2> QED
    BY <1>1, <1>2, <2>1, <2>3 DEF NoValues
<1>3. CASE r.after # -1
  BY <1>1, <1>3 DEF ReadInv, PagesRead, Exactly
<1> QED
  BY <1>2, <1>3

\* What an accepted page adds is of the revision of the pages before.
LEMMA PageOfRevision ==
  ASSUME StoreInv, NEW r, ReadInv(r), r.at = "reading", ~RejectedByApi(r),
         NEW range, range \subseteq Within(r.lo, r.hi),
         UpTo(r) \subseteq range
  PROVE  Exactly(WithPage(r, {i \in Stored(rows, range) : r.after < i}), metadata, range)
<1>1. r.after # -1 => r.first.meta.revision = metadata.revision
  BY DatasetAssumption DEF ReadInv, Intervals, RejectedByApi
<1>2. /\ rows = published[metadata.revision]
      /\ \A i \in Intervals : r.values[i] = IF i \in UpTo(r) /\ rows[i] # Invalid
                                            THEN rows[i] ELSE Absent
  BY <1>1, BehindCursor
<1>3. Invalid # Absent
  BY DatasetAssumption
<1>4. ASSUME NEW i \in Intervals
      PROVE  WithPage(r, {j \in Stored(rows, range) : r.after < j})[i] =
               IF i \in range /\ rows[i] # Invalid THEN rows[i] ELSE Absent
  <2>1. i \in Int /\ r.after \in Int
    BY DatasetAssumption DEF Intervals, ReadInv
  <2>2. i \in UpTo(r) <=> i \in range /\ i <= r.after
    BY DEF UpTo
  <2> QED
    BY <1>2, <1>3, <2>1, <2>2 DEF WithPage, Stored
<1> QED
  BY <1>2, <1>4 DEF Exactly

\* A full page moves the count of the rows behind the cursor by a page.
LEMMA PagesCounted ==
  ASSUME StoreInv, NEW r, ReadInv(r), r.at = "reading",
         r.after # -1 => r.first.meta.revision = metadata.revision,
         Page(r) # Following(r), NEW some \in SUBSET Within(r.lo, r.hi),
         UpTo(r) \cup Page(r) \subseteq some
  PROVE  /\ r.pages + 1 \in Nat
         /\ MAX_LIMIT * (r.pages + 1) <= Cardinality(Stored(rows, some))
<1> DEFINE behind == Stored(rows, UpTo(r))
           page == Page(r)
<1>1. /\ behind \subseteq Intervals /\ page \subseteq Intervals
      /\ Stored(rows, some) \subseteq Intervals
  BY PageIsPart DEF Stored, UpTo, Within
<1>2. /\ IsFiniteSet(behind) /\ IsFiniteSet(page) /\ IsFiniteSet(Stored(rows, some))
      /\ Cardinality(behind) \in Nat /\ Cardinality(page) \in Nat
      /\ Cardinality(Stored(rows, some)) \in Nat
  BY <1>1, Counted
<1>3. behind \cap page = {}
  BY <1>1, DatasetAssumption DEF Stored, UpTo, Page, Following, ReadInv, Intervals
<1>4. behind \cup page \subseteq Stored(rows, some)
  BY DEF Stored, Page, Following
<1>5. Cardinality(behind \cup page) = Cardinality(behind) + Cardinality(page)
  <2> HIDE DEF behind, page
  <2> QED
    BY <1>1, <1>3, CountedTogether
<1>6. Cardinality(behind \cup page) <= Cardinality(Stored(rows, some))
  BY <1>2, <1>4, FS_Subset
<1>7. MAX_LIMIT <= Cardinality(page)
  BY PageIsFull
<1>8. r.pages \in Nat /\ MAX_LIMIT * r.pages <= Cardinality(behind)
  BY BehindCursor
<1>9. MAX_LIMIT * (r.pages + 1) = MAX_LIMIT * r.pages + MAX_LIMIT
      /\ MAX_LIMIT * r.pages \in Nat /\ MAX_LIMIT \in Nat
  BY <1>8, DatasetAssumption
<1> HIDE DEF behind, page
<1> QED
  BY <1>2, <1>5, <1>6, <1>7, <1>8, <1>9

\* None of the checks of a page turns away a read that nothing disturbed.
LEMMA UndisturbedIsAccepted ==
  ASSUME StoreInv, NEW r, ReadInv(r), r.at = "reading",
         r.first = None \/ ~Disturbed(r)
  PROVE  Accepts(r, Page(r), RangeAnswer(r.lo, r.hi), Page(r) # Following(r))
<1> DEFINE range == Within(r.lo, r.hi)
           page == Page(r)
           answer == RangeAnswer(r.lo, r.hi)
<1>1. r.after # -1 => r.first.meta.revision = metadata.revision
  BY DEF ReadInv, PagesRead, Disturbed
<1>2. /\ metadata.revision > 0 /\ Committed(metadata) /\ rows = published[metadata.revision]
      /\ \A i \in Intervals : r.values[i] = IF i \in UpTo(r) /\ rows[i] # Invalid
                                            THEN rows[i] ELSE Absent
      /\ r.after # -1 => r.first # None /\ rows[r.after] # Absent
  BY <1>1, BehindCursor
<1>3. /\ r.lo \in Int /\ r.hi \in Int /\ r.lo < r.hi /\ r.hi - r.lo <= MAX_RANGE
      /\ r.after \in Int
  BY DatasetAssumption DEF ReadInv, Ranged, Intervals
<1>4. ~RejectedByApi(r)
  BY <1>1, <1>2, <1>3, DatasetAssumption DEF RejectedByApi
<1>5. r.first # None => answer = r.first
  <2> SUFFICES ASSUME r.first # None PROVE answer = r.first
    OBVIOUS
  <2>1. FirstAnswer(r) /\ ~Disturbed(r)
    BY DEF ReadInv
  <2> QED
    BY <1>2, <2>1 DEF FirstAnswer, Disturbed, Committed, RangeAnswer
<1>6. \A i \in page, j \in Stored(r.values, Intervals) : ~(i <= j)
  <2> SUFFICES ASSUME NEW i \in page, NEW j \in Stored(r.values, Intervals)
               PROVE  ~(i <= j)
    OBVIOUS
  <2>1. i \in Int /\ j \in Int /\ r.after < i
    BY PageIsPart, DatasetAssumption DEF Page, Following, Stored, Intervals
  <2>2. j <= r.after
    BY <1>2 DEF Stored, UpTo
  <2> QED
    BY <1>3, <2>1, <2>2
<1>7. page # Following(r) => r.pages + 1 # MAX_PAGES
  <2> SUFFICES ASSUME page # Following(r), r.pages + 1 = MAX_PAGES
               PROVE  FALSE
    OBVIOUS
  <2>1. PICK rest \in Following(r) : rest \notin page
    BY PageIsPart
  <2> DEFINE some == range \ {rest}
  <2>2. rest \in range /\ UpTo(r) \cup page \subseteq some
    <3>1. rest \in range /\ r.after < rest /\ rest \in Int
      BY <2>1, DatasetAssumption DEF Following, Stored, Within, Intervals
    <3>2. page \subseteq some
      BY <2>1 DEF Page, Following, Stored
    <3>3. rest \notin UpTo(r) /\ UpTo(r) \subseteq range
      BY <1>3, <3>1 DEF UpTo
    <3> QED
      BY <3>1, <3>2, <3>3
  <2>3. MAX_LIMIT * MAX_PAGES <= Cardinality(Stored(rows, some))
    BY <1>1, <2>2, PagesCounted
  <2>4. /\ IsFiniteSet(range) /\ Cardinality(range) \in Nat
        /\ Cardinality(some) = Cardinality(range) - 1
        /\ IsFiniteSet(some) /\ Cardinality(some) \in Nat
    BY <2>2, Counted, FS_RemoveElement DEF Within
  <2>5. Cardinality(Stored(rows, some)) <= Cardinality(some)
        /\ Cardinality(Stored(rows, some)) \in Nat
    BY <2>4, FS_Subset, FS_CardinalityType DEF Stored
  <2>6. Cardinality(range) <= 2 * (r.hi - r.lo)
    BY <1>3, RangeCount
  <2>7. MAX_LIMIT * MAX_PAGES = MAX_PAGES * MAX_LIMIT /\ MAX_LIMIT * MAX_PAGES \in Nat
        /\ MAX_RANGE \in Nat /\ 2 * MAX_RANGE <= MAX_PAGES * MAX_LIMIT
    BY DatasetAssumption
  <2> HIDE DEF range, some
  <2> QED
    BY <1>3, <2>3, <2>4, <2>5, <2>6, <2>7
<1>8. page = Following(r) => ~Contradicts(WithPage(r, page), answer.completeness)
  <2> SUFFICES ASSUME page = Following(r)
               PROVE  ~Contradicts(WithPage(r, page), answer.completeness)
    OBVIOUS
  <2> DEFINE values == WithPage(r, page)
  <2>1. Exactly(values, metadata, range)
    <3>1. page = {i \in Stored(rows, range) : r.after < i} /\ UpTo(r) \subseteq range
      BY DEF Following, UpTo
    <3> QED
      BY <1>4, <3>1, PageOfRevision
  <2>2. \A i \in Intervals : values[i] = IF i \in range /\ rows[i] # Invalid
                                         THEN rows[i] ELSE Absent
    BY <1>2, <2>1 DEF Exactly
  <2>3. range \subseteq Intervals
    BY DEF Within
  <2> HIDE DEF values, range
  <2>4. Valid(values, Intervals) = Valid(rows, range)
    BY <2>2, <2>3, DatasetAssumption DEF Valid
  <2>5. With(values, Intervals, Missing) = With(rows, range, Missing)
    BY <2>2, <2>3, DatasetAssumption DEF With
  <2>6. answer.completeness = Completeness(rows, range)
    BY DEF RangeAnswer, range
  <2> QED
    BY <2>4, <2>5, <2>6 DEF Contradicts, Completeness, values
<1> QED
  BY <1>4, <1>5, <1>6, <1>7, <1>8 DEF Accepts, RejectedByClient
-----------------------------------------------------------------------------
(* The store and the reads                                                 *)

\* Revisions once committed stay what they were; the store moves on.
StoreStep ==
  /\ StoreInv /\ StoreInv'
  /\ lastAttempt <= lastAttempt'
  /\ metadata' = metadata \/ metadata.revision < metadata'.revision
  /\ \A a \in 1 .. metadata.revision : published'[a] = published[a]

\* A step that leaves the store alone.
LEMMA StoreRests ==
  ASSUME StoreInv, UNCHANGED store
  PROVE  StoreStep
<1>1. StoreInv'
  BY DEF StoreInv, Committed, Aligned, store
<1> QED
  BY <1>1 DEF StoreStep, StoreInv, store

\* What is committed of a revision stays true of it.
LEMMA CommittedStays ==
  ASSUME StoreStep, NEW meta, Committed(meta)
  PROVE  /\ published'[meta.revision] = published[meta.revision]
         /\ Committed(meta)'
<1>1. /\ meta.revision \in 1 .. metadata.revision
      /\ metadata.revision \in Nat /\ metadata'.revision \in Nat
  BY DEF Committed, StoreStep, StoreInv
<1>2. published'[meta.revision] = published[meta.revision]
  BY <1>1 DEF StoreStep
<1>3. /\ meta.revision \in 1 .. metadata'.revision
      /\ meta.revision = metadata'.revision => metadata' = metadata
  BY <1>1 DEF StoreStep
<1> QED
  BY <1>2, <1>3 DEF Committed, Aligned

\* So does what a read has; a read that was disturbed stays so.
LEMMA ReadStays ==
  ASSUME StoreStep, NEW r, ReadInv(r)
  PROVE  ReadInv(r)'
<1>1. metadata.revision > 0 => metadata'.revision > 0
  BY DEF StoreStep, StoreInv
<1>2. CASE r.first = None
  BY <1>1, <1>2 DEF ReadInv, ReadShape, Ranged, PagesRead
<1>3. CASE r.first # None
  <2>1. FirstAnswer(r) /\ Committed(r.first.meta)
    BY <1>3 DEF ReadInv, FirstAnswer
  <2>2. /\ published'[r.first.meta.revision] = published[r.first.meta.revision]
        /\ Committed(r.first.meta)'
    BY <2>1, CommittedStays
  <2>3. r.first.attempt \in 0 .. lastAttempt'
    BY <2>1 DEF FirstAnswer, StoreStep, StoreInv
  <2>4. FirstAnswer(r)'
    BY <2>1, <2>2, <2>3 DEF FirstAnswer
  <2>5. Disturbed(r) => Disturbed(r)'
    BY <2>1 DEF Disturbed, FirstAnswer, Committed, StoreStep, StoreInv
  <2> QED
    BY <1>1, <1>3, <2>2, <2>4, <2>5
    DEF ReadInv, ReadShape, Ranged, PagesRead, Exactly, UpTo
<1> QED
  BY <1>2, <1>3

\* What an update leaves of a read whose cursor moves,
LEMMA CursorMoved ==
  ASSUME NEW r, ReadShape(r), NEW last, NEW n, n = [r EXCEPT !.after = last]
  PROVE  /\ ReadShape(n)
         /\ n.at = r.at /\ n.lo = r.lo /\ n.hi = r.hi /\ n.after = last
         /\ n.first = r.first /\ n.pages = r.pages /\ n.values = r.values
  BY DEF ReadShape

\* ... of a read that is over,
LEMMA Ended ==
  ASSUME NEW r, ReadShape(r), NEW at, NEW n, n = [r EXCEPT !.at = at]
  PROVE  /\ ReadShape(n)
         /\ n.at = at /\ n.lo = r.lo /\ n.hi = r.hi /\ n.after = r.after
         /\ n.first = r.first /\ n.pages = r.pages /\ n.values = r.values
  BY DEF ReadShape

\* ... and of one that got a page.
LEMMA PageReceived ==
  ASSUME NEW r, ReadShape(r), NEW page, NEW answer, NEW n, n = Received(r, page, answer)
  PROVE  /\ ReadShape(n)
         /\ n.at = r.at /\ n.lo = r.lo /\ n.hi = r.hi /\ n.after = r.after
         /\ n.first = answer /\ n.pages = r.pages + 1 /\ n.values = WithPage(r, page)
  BY DEF ReadShape, Received

\* What the step of one reader leaves of the store and of the other reads.
LEMMA OthersKept ==
  ASSUME StoreInv, ReadsInv, UNCHANGED store, NEW who \in Readers, NEW n,
         reads' = [reads EXCEPT ![who] = n], ReadInv(n)
  PROVE  ReadsInv' /\ \A w \in Readers : reads'[w] = IF w = who THEN n ELSE reads[w]
<1>1. reads' = [w \in Readers |-> reads'[w]]
  BY DEF ReadsInv
<1>2. \A w \in Readers : reads'[w] = IF w = who THEN n ELSE reads[w]
  BY DEF ReadsInv
<1>3. ASSUME NEW w \in Readers PROVE ReadInv(reads[w])'
  <2>1. ReadInv(reads'[w])
    BY <1>2 DEF ReadsInv
  <2>2. StoreStep
    BY StoreRests
  <2> QED
    BY <2>1, <2>2, ReadStays
<1> QED
  BY <1>1, <1>2, <1>3 DEF ReadsInv

\* A step of one reader keeps its range and the other reads.
RangesKept(who) ==
  /\ reads'[who].lo = reads[who].lo /\ reads'[who].hi = reads[who].hi
  /\ reads'[who].at # "rest"
  /\ \A w \in Readers \ {who} : reads'[w] = reads[w]

\* The answer to an accepted page is of the newest revision, for the range.
LEMMA FirstIsAnswer ==
  ASSUME StoreInv, NEW r, ReadInv(r), r.at = "reading"
  PROVE  /\ RangeAnswer(r.lo, r.hi) # None
         /\ Committed(metadata)
         /\ metadata.revision > 0 /\ rows = published[metadata.revision]
         /\ \A n : n.first = RangeAnswer(r.lo, r.hi) /\ n.lo = r.lo /\ n.hi = r.hi =>
              FirstAnswer(n) /\ n.first.meta = metadata
<1>1. /\ metadata.revision > 0 /\ Committed(metadata) /\ rows = published[metadata.revision]
      /\ lastAttempt \in 0 .. lastAttempt
  BY DatasetAssumption DEF ReadInv, Ranged, StoreInv
<1> QED
  BY <1>1, Answered DEF FirstAnswer, RangeAnswer

\* A page that was accepted keeps the read on its revision.
LEMMA PageKeepsReads ==
  ASSUME DataInv, NEW who \in Readers, PageRead(who)
  PROVE  ReadsInv' /\ RangesKept(who)
<1> DEFINE r == reads[who]
           page == Page(r)
           answer == RangeAnswer(r.lo, r.hi)
<1>1. r.at = "reading" /\ ReadInv(r) /\ StoreInv /\ ReadsInv /\ UNCHANGED store
  BY DEF PageRead, DataInv, ReadsInv
<1>2. PICK last \in page :
        /\ \A i \in page : i <= last
        /\ ~RejectedByApi(r) /\ page # Following(r)
        /\ reads' = [reads EXCEPT ![who] = [Received(r, page, answer) EXCEPT !.after = last]]
  BY DEF PageRead, Accepts
<1> DEFINE m == Received(r, page, answer)
           n == [m EXCEPT !.after = last]
<1>3. /\ ReadShape(n)
      /\ n.at = r.at /\ n.lo = r.lo /\ n.hi = r.hi /\ n.after = last
      /\ n.first = answer /\ n.pages = r.pages + 1 /\ n.values = WithPage(r, page)
  <2> HIDE DEF r, page, answer, m
  <2>1. /\ ReadShape(m)
        /\ m.at = r.at /\ m.lo = r.lo /\ m.hi = r.hi
        /\ m.first = answer /\ m.pages = r.pages + 1 /\ m.values = WithPage(r, page)
    BY <1>1, PageReceived DEF ReadInv, m
  <2> QED
    BY <2>1, CursorMoved
<1>4. reads' = [reads EXCEPT ![who] = n]
  BY <1>2
<1> HIDE DEF m, n
<1>5. UpTo(n) = {i \in Within(r.lo, r.hi) : i <= last}
  BY <1>3 DEF UpTo
<1>6. page = {i \in Stored(rows, UpTo(n)) : r.after < i}
  <2>1. page = {i \in Following(r) : i <= last}
    BY <1>2, PageIsClosed
  <2> QED
    BY <1>5, <2>1 DEF Following, Stored
<1>7. last \in Intervals /\ r.after < last /\ rows[last] # Absent
  BY DEF Page, Following, Stored, Within
<1>8. UpTo(r) \subseteq UpTo(n) /\ UpTo(n) \subseteq Within(r.lo, r.hi)
  BY <1>1, <1>5, <1>7, DatasetAssumption DEF UpTo, Within, Intervals, ReadInv
<1>9. Exactly(WithPage(r, page), metadata, UpTo(n))
  BY <1>1, <1>2, <1>6, <1>8, PageOfRevision
<1>10. /\ FirstAnswer(n) /\ n.first.meta = metadata /\ answer # None
       /\ rows = published[metadata.revision]
  BY <1>1, <1>3, FirstIsAnswer
<1>11. r.after # -1 => r.first.meta.revision = metadata.revision
  BY <1>1, <1>2, DatasetAssumption DEF ReadInv, Intervals, RejectedByApi
<1>12. n.pages \in Nat /\ MAX_LIMIT * n.pages <= Cardinality(Stored(rows, UpTo(n)))
  <2>1. UpTo(n) \in SUBSET Within(r.lo, r.hi) /\ UpTo(r) \cup page \subseteq UpTo(n)
    BY <1>6, <1>8 DEF Stored
  <2> QED
    BY <1>1, <1>2, <1>3, <1>11, <2>1, PagesCounted
<1>13. ReadInv(n)
  <2>1. last # -1
    BY <1>7, DatasetAssumption DEF Intervals
  <2>2. PagesRead(n)
    BY <1>3, <1>7, <1>9, <1>10, <1>12 DEF PagesRead, Exactly
  <2> QED
    BY <1>1, <1>3, <1>7, <1>10, <2>1, <2>2 DEF ReadInv
<1>14. ReadsInv' /\ \A w \in Readers : reads'[w] = IF w = who THEN n ELSE reads[w]
  BY <1>1, <1>4, <1>13, OthersKept
<1> QED
  BY <1>1, <1>3, <1>14 DEF RangesKept

\* The last page completes the read of one revision.
LEMMA CompletionKeepsReads ==
  ASSUME DataInv, NEW who \in Readers, ReadCompletes(who)
  PROVE  ReadsInv' /\ RangesKept(who)
<1> DEFINE r == reads[who]
           page == Following(r)
           answer == RangeAnswer(r.lo, r.hi)
<1>1. r.at = "reading" /\ ReadInv(r) /\ StoreInv /\ ReadsInv /\ UNCHANGED store
  BY DEF ReadCompletes, DataInv, ReadsInv
<1>2. /\ ~RejectedByApi(r)
      /\ reads' = [reads EXCEPT ![who] = [Received(r, page, answer) EXCEPT !.at = "done"]]
  BY DEF ReadCompletes, Accepts
<1> DEFINE m == Received(r, page, answer)
           n == [m EXCEPT !.at = "done"]
<1>3. /\ ReadShape(n)
      /\ n.at = "done" /\ n.lo = r.lo /\ n.hi = r.hi /\ n.after = r.after
      /\ n.first = answer /\ n.values = WithPage(r, page)
  <2> HIDE DEF r, page, answer, m
  <2>1. /\ ReadShape(m)
        /\ m.lo = r.lo /\ m.hi = r.hi /\ m.after = r.after
        /\ m.first = answer /\ m.values = WithPage(r, page)
    BY <1>1, PageReceived DEF ReadInv, m
  <2> QED
    BY <2>1, Ended
<1>4. reads' = [reads EXCEPT ![who] = n]
  BY <1>2
<1> HIDE DEF m, n
<1>5. UpTo(r) \subseteq Within(r.lo, r.hi)
      /\ page = {i \in Stored(rows, Within(r.lo, r.hi)) : r.after < i}
  BY DEF UpTo, Following
<1>6. Exactly(WithPage(r, page), metadata, Within(r.lo, r.hi))
  BY <1>1, <1>2, <1>5, PageOfRevision
<1>7. FirstAnswer(n) /\ n.first.meta = metadata /\ answer # None
  BY <1>1, <1>3, FirstIsAnswer
<1>8. ReadInv(n)
  BY <1>1, <1>3, <1>6, <1>7 DEF ReadInv, Exactly
<1>9. ReadsInv' /\ \A w \in Readers : reads'[w] = IF w = who THEN n ELSE reads[w]
  BY <1>1, <1>4, <1>8, OthersKept
<1> QED
  BY <1>3, <1>9 DEF RangesKept

\* A read that is given up has nothing to answer for; one that is refused met
\* a commit or an attempt.
LEMMA EndKeepsReads ==
  ASSUME DataInv, NEW who \in Readers, ReadRefused(who) \/ ReadLost(who)
  PROVE  ReadsInv' /\ RangesKept(who)
<1> DEFINE r == reads[who]
<1>1. /\ ReadInv(r) /\ StoreInv /\ ReadsInv /\ UNCHANGED store
      /\ r.at = "reading"
  BY DEF ReadRefused, ReadLost, DataInv, ReadsInv
<1>2. PICK at \in {"refused", "lost"} :
        /\ reads' = [reads EXCEPT ![who] = [r EXCEPT !.at = at]]
        /\ at = "refused" => r.first # None /\ Disturbed(r)
  <2>1. CASE ReadRefused(who)
    BY <1>1, <2>1, UndisturbedIsAccepted DEF ReadRefused
  <2>2. CASE ReadLost(who)
    BY <2>2 DEF ReadLost
  <2> QED
    BY <2>1, <2>2
<1> DEFINE n == [r EXCEPT !.at = at]
<1>3. /\ ReadShape(n)
      /\ n.at = at /\ n.lo = r.lo /\ n.hi = r.hi /\ n.after = r.after
      /\ n.first = r.first
  <2> HIDE DEF r
  <2> QED
    BY <1>1, Ended DEF ReadInv
<1>4. reads' = [reads EXCEPT ![who] = n]
  BY <1>2
<1> HIDE DEF n
<1>5. ReadInv(n)
  BY <1>1, <1>2, <1>3 DEF ReadInv, FirstAnswer, Disturbed
<1>6. ReadsInv' /\ \A w \in Readers : reads'[w] = IF w = who THEN n ELSE reads[w]
  BY <1>1, <1>4, <1>5, OthersKept
<1> QED
  BY <1>3, <1>6 DEF RangesKept

\* A read that begins, or none at all, has nothing yet.
LEMMA FreshReads ==
  /\ ReadInv(Rest) /\ Rest.at = "rest"
  /\ \A lo, hi : /\ Ranged(lo, hi) => ReadInv(Reading(lo, hi))
                 /\ Reading(lo, hi).lo = lo /\ Reading(lo, hi).hi = hi
                 /\ Reading(lo, hi).at = "reading"
<1>1. ASSUME NEW lo, NEW hi, NEW n, n = Reading(lo, hi)
      PROVE  /\ ReadShape(n)
             /\ n.at = "reading" /\ n.lo = lo /\ n.hi = hi /\ n.after = -1
             /\ n.first = None /\ n.pages = 0 /\ n.values = NoValues
  BY <1>1 DEF Reading, Rest, ReadShape
<1>2. ASSUME NEW lo, NEW hi
      PROVE  /\ Ranged(lo, hi) => ReadInv(Reading(lo, hi))
             /\ Reading(lo, hi).lo = lo /\ Reading(lo, hi).hi = hi
             /\ Reading(lo, hi).at = "reading"
  BY <1>1 DEF ReadInv
<1>3. ReadInv(Rest) /\ Rest.at = "rest"
  BY DEF Rest, ReadInv, ReadShape
<1> QED
  BY <1>2, <1>3

\* A status of a revision stays one.
LEMMA StatusStays ==
  ASSUME StoreStep, NEW status, StatusOK(status)
  PROVE  /\ StatusOK(status)'
         /\ published'[status.meta.revision] = published[status.meta.revision]
  BY CommittedStays DEF StatusOK

\* What is at rest in a store that moves on.
LEMMA RestStays ==
  ASSUME StoreStep, DataInv
  PROVE  /\ UNCHANGED reads => ReadsInv'
         /\ UNCHANGED <<reads, poll>> => PollInv'
         /\ UNCHANGED cache => CacheInv'
         /\ UNCHANGED snapshot => SnapshotInv'
<1>1. UNCHANGED reads => ReadsInv'
  <2> SUFFICES ASSUME UNCHANGED reads PROVE ReadsInv'
    OBVIOUS
  <2>1. ASSUME NEW who \in Readers PROVE ReadInv(reads[who])'
    <3>1. ReadInv(reads'[who])
      BY DEF DataInv, ReadsInv
    <3> QED
      BY <3>1, ReadStays
  <2> QED
    BY <2>1 DEF DataInv, ReadsInv
<1>2. UNCHANGED <<reads, poll>> => PollInv'
  BY StatusStays DEF DataInv, PollInv
<1>3. UNCHANGED cache => CacheInv'
  BY CommittedStays DEF DataInv, CacheInv, Exactly
<1>4. UNCHANGED snapshot => SnapshotInv'
  BY StatusStays DEF DataInv, SnapshotInv, Exactly
<1> QED
  BY <1>1, <1>2, <1>3, <1>4

\* The steps of a read.
LEMMA ReadStepKeepsInv ==
  ASSUME DataInv, NEW who \in Readers, ReadStep(who), UNCHANGED coordinatorVars
  PROVE  DataInv' /\ RangesKept(who) /\ StoreStep
<1>1. ReadsInv' /\ RangesKept(who) /\ UNCHANGED store /\ reads[who].at = "reading"
  <2>1. CASE PageRead(who)
    BY <2>1, PageKeepsReads DEF PageRead
  <2>2. CASE ReadCompletes(who)
    BY <2>2, CompletionKeepsReads DEF ReadCompletes
  <2>3. CASE ReadRefused(who) \/ ReadLost(who)
    BY <2>3, EndKeepsReads DEF ReadRefused, ReadLost
  <2> QED
    BY <2>1, <2>2, <2>3 DEF ReadStep
<1>2. StoreStep
  BY <1>1, StoreRests DEF DataInv
<1>3. PollInv'
  <2>1. reads["coordinator"].at # "rest" =>
          /\ StatusOK(poll.status)'
          /\ reads["coordinator"].lo = poll.status.meta.timestamp - DAY
          /\ reads["coordinator"].hi = poll.status.meta.timestamp
    <3>1. ASSUME reads["coordinator"].at # "rest" PROVE StatusOK(poll'.status)
      BY <3>1 DEF DataInv, PollInv, coordinatorVars
    <3> QED
      BY <1>2, <3>1, StatusStays DEF DataInv, PollInv
  <2>2. reads'["coordinator"].at # "rest" =>
          /\ reads["coordinator"].at # "rest"
          /\ reads'["coordinator"].lo = reads["coordinator"].lo
          /\ reads'["coordinator"].hi = reads["coordinator"].hi
    BY <1>1 DEF RangesKept, Readers
  <2> QED
    BY <2>1, <2>2 DEF PollInv, coordinatorVars
<1>4. StoreInv' /\ CacheInv' /\ SnapshotInv'
  BY <1>2, RestStays DEF StoreStep, coordinatorVars
<1> QED
  BY <1>1, <1>2, <1>3, <1>4 DEF DataInv

\* The steps of a collection.
LEMMA CollectKeepsInv ==
  ASSUME DataInv, Collect, UNCHANGED coordinatorVars
  PROVE  DataInv' /\ StoreStep /\ UNCHANGED reads
<1> USE DatasetAssumption
<1>1. StoreStep /\ UNCHANGED reads
  <2>1. CASE RecordAttempt
    <3>1. StoreInv'
      BY <2>1 DEF RecordAttempt, DataInv, StoreInv, Committed, Aligned
    <3> QED
      BY <2>1, <3>1 DEF RecordAttempt, DataInv, StoreInv, StoreStep
  <2>2. CASE \E c \in Collections : CommitDataset(c)
    <3>1. PICK c \in Collections : CommitDataset(c)
      BY <2>2
    <3> DEFINE merged == [i \in Intervals |->
                            IF c.cells[i] = Absent THEN rows[i] ELSE c.cells[i]]
    <3>2. /\ rows' = merged
          /\ metadata' = Metadata(merged, lastAttempt, c.dayEnd)
          /\ published' = [published EXCEPT ![lastAttempt] = merged]
          /\ ~collecting' /\ UNCHANGED <<lastAttempt, reads>> /\ collecting
      BY <3>1 DEF CommitDataset
    <3>3. merged \in Rows
      BY DEF DataInv, StoreInv, Rows
    <3>4. lastAttempt \in 1 .. MaxAttempts /\ metadata.revision < lastAttempt
          /\ metadata.revision \in Nat
      BY <3>2 DEF DataInv, StoreInv
    <3> HIDE DEF merged
    <3>5. Aligned(c.dayEnd) /\ c.dayEnd \in 1 .. Quarters
      BY StatisticsAssumption, AlignedModulus
    <3>6. /\ metadata'.revision = lastAttempt
          /\ metadata'.timestamp = Timestamp(merged)
          /\ metadata'.success = c.dayEnd
          /\ metadata'.expected = Cardinality(Stored(merged, Intervals))
      BY <3>2 DEF Metadata
    <3>7. metadata' \in Metas
      <4>1. Timestamp(merged) \in 0 .. Quarters
        BY TimestampOf
      <4>2. Cardinality(Stored(merged, Intervals)) \in Nat
        BY Counted DEF Stored
      <4>3. SourceStatus(merged) \in {"ok", "partial", "no_data"}
        BY DEF SourceStatus
      <4> QED
        BY <3>2, <3>4, <3>5, <4>1, <4>2, <4>3 DEF Metadata, Metas
    <3>8. published' \in [1 .. MaxAttempts -> Rows] /\ published'[lastAttempt] = merged
          /\ \A a \in 1 .. metadata.revision : published'[a] = published[a]
      BY <3>2, <3>3, <3>4 DEF DataInv, StoreInv
    <3>9. Committed(metadata)'
      BY <3>4, <3>5, <3>6, <3>7, <3>8 DEF Committed, Aligned
    <3>10. StoreInv'
      BY <3>2, <3>3, <3>4, <3>6, <3>7, <3>8, <3>9 DEF DataInv, StoreInv
    <3> QED
      BY <3>2, <3>4, <3>6, <3>8, <3>10 DEF DataInv, StoreInv, StoreStep
  <2>3. CASE CollectionFails
    <3>1. StoreInv'
      BY <2>3 DEF CollectionFails, DataInv, StoreInv, Committed, Aligned
    <3> QED
      BY <2>3, <3>1 DEF CollectionFails, DataInv, StoreInv, StoreStep
  <2> QED
    BY <2>1, <2>2, <2>3 DEF Collect
<1> QED
  BY <1>1, RestStays DEF StoreStep, DataInv, coordinatorVars

\* A read is begun, or put away.
LEMMA ReadReplaced ==
  ASSUME DataInv, UNCHANGED store, NEW who \in Readers, NEW n,
         reads' = [reads EXCEPT ![who] = n],
         n = Rest \/ \E lo, hi : n = Reading(lo, hi) /\ Ranged(lo, hi)
  PROVE  ReadsInv' /\ \A w \in Readers : reads'[w] = IF w = who THEN n ELSE reads[w]
<1>1. ReadInv(n)
  BY FreshReads
<1> QED
  BY <1>1, OthersKept DEF DataInv

\* The status of the API is that of the newest revision.
LEMMA CurrentStatus ==
  ASSUME StoreInv, metadata.revision > 0
  PROVE  StatusOK(Status) /\ Status.meta = metadata
  BY Answered DEF StoreInv, StatusOK, Status

\* The steps of a poll.
LEMMA PollKeepsInv ==
  ASSUME DataInv, CoordinatorStep
  PROVE  /\ DataInv' /\ StoreStep
         /\ reads'["statistics"] = reads["statistics"]
         /\ snapshot' = snapshot \/ StatusOK(snapshot'.status)
<1> DEFINE read == reads["coordinator"]
<1>1. CASE PollCached
  <2>1. /\ UNCHANGED <<store, reads, poll, cache>>
        /\ metadata.revision > 0 /\ cache # None
        /\ SameDataset(Status, cache.first)
        /\ snapshot' = [status |-> Status, measurements |-> cache]
    BY <1>1 DEF PollCached, PollUsable, Usable, CacheHit, datasetVars
  <2>2. StoreStep
    BY <2>1, StoreRests DEF DataInv
  <2>3. StoreInv' /\ ReadsInv' /\ PollInv' /\ CacheInv'
    BY <2>1, <2>2, RestStays DEF StoreStep
  <2>4. StatusOK(Status) /\ Status.meta = metadata
    BY <2>1, CurrentStatus DEF DataInv
  <2>5. SnapshotInv'
    <3>1. snapshot'.status = Status /\ snapshot'.measurements = cache
      BY <2>1
    <3>2. StatusOK(snapshot'.status)
      BY <2>4, <3>1
    <3>3. StatusOK(snapshot.status)'
      BY <2>2, <3>2, StatusStays
    <3>4. /\ Exactly(cache.values, cache.first.meta, Day(cache.first.meta))
          /\ metadata.revision = cache.first.meta.revision
          /\ metadata.timestamp = cache.first.meta.timestamp
      BY <2>1, <2>4 DEF DataInv, CacheInv, SameDataset
    <3> QED
      BY <2>1, <2>4, <3>1, <3>3, <3>4 DEF SnapshotInv, Exactly, Day, store
  <2> QED
    BY <2>1, <2>2, <2>3, <2>4, <2>5 DEF DataInv
<1>2. CASE PollNew \/ PollAgain
  <2>1. PICK step \in {"first", "second"} :
          /\ poll' = [step |-> step, status |-> Status]
          /\ reads' = [reads EXCEPT !["coordinator"] =
                         Reading(Status.meta.timestamp - DAY, Status.meta.timestamp)]
          /\ UNCHANGED <<store, cache, snapshot>>
          /\ metadata.revision > 0
    BY <1>2 DEF PollNew, PollAgain, PollUsable, Usable, FetchMeasurements
  <2> DEFINE n == Reading(Status.meta.timestamp - DAY, Status.meta.timestamp)
  <2>2. StatusOK(Status) /\ Status.meta = metadata
    BY <2>1, CurrentStatus DEF DataInv
  <2>3. Ranged(Status.meta.timestamp - DAY, Status.meta.timestamp)
    BY <2>1, <2>2, DayAssumption, DatasetAssumption DEF Ranged, DataInv, StoreInv, Metas
  <2>4. ReadsInv' /\ reads'["coordinator"] = n /\ reads'["statistics"] = reads["statistics"]
    BY <2>1, <2>3, ReadReplaced DEF Readers
  <2>5. StoreStep
    BY <2>1, StoreRests DEF DataInv
  <2>6. PollInv'
    <3>1. poll'.status = Status
      BY <2>1
    <3>2. StatusOK(poll.status)'
      BY <2>2, <2>5, <3>1, StatusStays
    <3> QED
      BY <2>4, <3>1, <3>2, FreshReads DEF PollInv
  <2>7. StoreInv' /\ CacheInv' /\ SnapshotInv'
    BY <2>1, <2>5, RestStays DEF StoreStep
  <2> QED
    BY <2>1, <2>4, <2>5, <2>6, <2>7 DEF DataInv
<1>3. CASE PollCompletes
  <2>1. /\ read.at = "done"
        /\ SameDataset(poll.status, read.first)
        /\ cache' = Measurements(read)
        /\ snapshot' = [status |-> poll.status, measurements |-> cache']
        /\ reads' = [reads EXCEPT !["coordinator"] = Rest]
        /\ UNCHANGED store
    BY <1>3 DEF PollCompletes, Fetched, Consistent, PollOver
  <2>2. ReadsInv' /\ reads'["coordinator"] = Rest /\ reads'["statistics"] = reads["statistics"]
    BY <2>1, ReadReplaced DEF Readers
  <2>3. StoreStep /\ PollInv'
    BY <2>1, <2>2, FreshReads, StoreRests DEF DataInv, PollInv
  <2>4. /\ Committed(read.first.meta)
        /\ Exactly(read.values, read.first.meta, Within(read.lo, read.hi))
        /\ StatusOK(poll.status)
        /\ read.lo = poll.status.meta.timestamp - DAY
        /\ read.hi = poll.status.meta.timestamp
    BY <2>1 DEF DataInv, ReadsInv, ReadInv, FirstAnswer, PollInv, Readers
  <2>5. /\ poll.status.meta.revision = read.first.meta.revision
        /\ poll.status.meta.timestamp = read.first.meta.timestamp
    BY <2>1 DEF SameDataset
  <2>6. /\ cache'.first = read.first /\ cache'.values = read.values
        /\ snapshot'.status = poll.status /\ snapshot'.measurements.values = read.values
    BY <2>1 DEF Measurements
  <2>7. published' = published
    BY <2>1 DEF store
  <2>8. CacheInv'
    <3>1. Committed(cache'.first.meta)
      BY <2>4, <2>6
    <3>2. Committed(cache.first.meta)'
      BY <2>3, <3>1, CommittedStays
    <3> QED
      BY <2>4, <2>5, <2>6, <2>7, <3>2 DEF CacheInv, Exactly, Day
  <2>9. SnapshotInv'
    <3>1. StatusOK(snapshot'.status)
      BY <2>4, <2>6
    <3>2. StatusOK(snapshot.status)'
      BY <2>3, <3>1, StatusStays
    <3> QED
      BY <2>4, <2>5, <2>6, <2>7, <3>2 DEF SnapshotInv, Exactly, Day
  <2> QED
    BY <2>2, <2>3, <2>4, <2>6, <2>8, <2>9 DEF DataInv, StoreStep
<1>4. CASE PollFails
  <2>1. /\ reads' = [reads EXCEPT !["coordinator"] = Rest]
        /\ UNCHANGED <<store, cache, snapshot>>
    BY <1>4 DEF PollFails, PollOver
  <2>2. ReadsInv' /\ reads'["coordinator"] = Rest /\ reads'["statistics"] = reads["statistics"]
    BY <2>1, ReadReplaced DEF Readers
  <2>3. StoreStep /\ PollInv'
    BY <2>1, <2>2, FreshReads, StoreRests DEF DataInv, PollInv
  <2>4. StoreInv' /\ CacheInv' /\ SnapshotInv'
    BY <2>1, <2>3, RestStays DEF StoreStep
  <2> QED
    BY <2>1, <2>2, <2>3, <2>4 DEF DataInv
<1>5. CASE ReadStep("coordinator") /\ UNCHANGED coordinatorVars
  <2>1. DataInv' /\ StoreStep /\ RangesKept("coordinator")
    BY <1>5, ReadStepKeepsInv DEF Readers
  <2> QED
    BY <1>5, <2>1 DEF RangesKept, Readers, coordinatorVars
<1> QED
  BY <1>1, <1>2, <1>3, <1>4, <1>5 DEF CoordinatorStep

\* What the statistics manager does outside a read is nothing to the others.
LEMMA ManagerKeepsInv ==
  ASSUME DataInv, UNCHANGED <<store, coordinatorVars>>,
         \/ UNCHANGED reads
         \/ ReadOver
         \/ \E lo, hi : ReadRange(lo, hi) /\ Ranged(lo, hi)
  PROVE  DataInv' /\ StoreStep
<1>1. StoreStep
  BY StoreRests DEF DataInv
<1>2. StoreInv' /\ CacheInv' /\ SnapshotInv'
  BY <1>1, RestStays DEF StoreStep, coordinatorVars
<1>3. CASE UNCHANGED reads
  BY <1>1, <1>2, <1>3, RestStays DEF DataInv, coordinatorVars
<1>4. CASE ReadOver \/ \E lo, hi : ReadRange(lo, hi) /\ Ranged(lo, hi)
  <2>1. PICK n : /\ reads' = [reads EXCEPT !["statistics"] = n]
                 /\ n = Rest \/ \E lo, hi : n = Reading(lo, hi) /\ Ranged(lo, hi)
    BY <1>4 DEF ReadOver, ReadRange
  <2>2. ReadsInv' /\ reads'["coordinator"] = reads["coordinator"]
    BY <2>1, ReadReplaced DEF Readers
  <2>3. PollInv'
    <3>1. ASSUME reads["coordinator"].at # "rest" PROVE StatusOK(poll'.status)
      BY <3>1 DEF DataInv, PollInv, coordinatorVars
    <3>2. reads["coordinator"].at # "rest" => StatusOK(poll.status)'
      BY <1>1, <3>1, StatusStays
    <3> QED
      BY <2>2, <3>2 DEF DataInv, PollInv, coordinatorVars
  <2> QED
    BY <1>1, <1>2, <2>2, <2>3 DEF DataInv
<1> QED
  BY <1>3, <1>4

\* Reload forgets the reads and what the coordinator had.
LEMMA ReloadKeepsInv ==
  ASSUME DataInv, Reload
  PROVE  DataInv' /\ StoreStep
<1>1. /\ reads' = [who \in Readers |-> Rest]
      /\ cache' = None /\ snapshot' = None
      /\ UNCHANGED store
  BY DEF Reload
<1>2. StoreStep
  BY <1>1, StoreRests DEF DataInv
<1>3. ReadsInv' /\ PollInv'
  <2>1. \A who \in Readers : reads'[who] = Rest /\ ReadInv(reads'[who])
    BY <1>1, FreshReads
  <2>2. \A who \in Readers : ReadInv(reads[who])'
    BY <1>2, <2>1, ReadStays
  <2> QED
    BY <1>1, <2>1, <2>2, FreshReads DEF ReadsInv, PollInv, Readers
<1> QED
  BY <1>1, <1>2, <1>3 DEF DataInv, CacheInv, SnapshotInv, StoreStep

-----------------------------------------------------------------------------
(* Windows of hours                                                        *)

\* No hour has a value from the data_timestamp on.
LEMMA NoLaterHour ==
  ASSUME NEW data, NEW c \in Channels, NEW h \in Hours, Timestamp(data) <= HOUR * h
  PROVE  Hourly(data)[c][h] = Absent
<1>1. /\ Timestamp(data) \in 0 .. Quarters
      /\ Valid(data, Within(Timestamp(data), Quarters)) = {}
  BY TimestampOf
<1>2. /\ HOUR * h \in Nat
      /\ HourIntervals(c, h) # {}
      /\ HourIntervals(c, h) \subseteq Within(HOUR * h, HOUR * h + HOUR)
  BY HourRange
<1>3. PICK i : i \in HourIntervals(c, h)
  BY <1>2
<1>4. i \in Within(HOUR * h, HOUR * h + HOUR)
  BY <1>2, <1>3
<1>5. i \in Within(Timestamp(data), Quarters)
  BY <1>1, <1>2, <1>4, DatasetAssumption DEF Within, Intervals
<1>6. data[i] \notin Energy
  BY <1>1, <1>5 DEF Valid
<1> QED
  BY <1>3, <1>6, HourWithGap

\* A history ends at a boundary behind the last valid row.
LEMMA HistoryEndOf ==
  ASSUME NEW status, status.meta.timestamp \in Nat, Aligned(status.meta.success)
  PROVE  /\ HistoryEnd(status) \in Int /\ Aligned(HistoryEnd(status))
         /\ status.meta.timestamp <= HistoryEnd(status)
<1>1. /\ CeilHour(status.meta.timestamp) \in Nat
      /\ Aligned(CeilHour(status.meta.timestamp))
      /\ status.meta.timestamp <= CeilHour(status.meta.timestamp)
  BY CeilHourOf
<1>2. status.meta.success \in Int
  BY StatisticsAssumption DEF Aligned
<1> QED
  BY <1>1, <1>2 DEF HistoryEnd

\* What a window has of the hours of its revision: those inside it.
LEMMA WindowHours ==
  ASSUME NEW lo, NEW hi, Aligned(lo), Aligned(hi),
         NEW values, NEW meta, Exactly(values, meta, Within(lo, hi)),
         NEW c \in Channels, NEW h \in Hours
  PROVE  Hourly(values)[c][h] = IF lo <= HOUR * h /\ HOUR * h < hi
                                THEN Hourly(published[meta.revision])[c][h] ELSE Absent
<1> DEFINE of == published[meta.revision]
<1>1. h \in Int
  BY DEF Hours
<1>2. /\ lo \in Int /\ hi \in Int /\ HOUR * h \in Int
      /\ lo <= HOUR * h \/ HOUR * h + HOUR <= lo
      /\ hi <= HOUR * h \/ HOUR * h + HOUR <= hi
  BY <1>1, AlignedBefore
<1>3. /\ HourIntervals(c, h) # {}
      /\ HourIntervals(c, h) \subseteq Within(HOUR * h, HOUR * h + HOUR)
  BY HourRange
<1>4. HOUR \in Nat \ {0}
  BY StatisticsAssumption
<1>5. \A i \in Intervals : values[i] = IF i \in Within(lo, hi) /\ of[i] # Invalid
                                       THEN of[i] ELSE Absent
  BY DEF Exactly
<1>6. CASE lo <= HOUR * h /\ HOUR * h < hi
  <2>1. HOUR * h + HOUR <= hi
    BY <1>2, <1>6
  <2>2. ASSUME NEW i \in HourIntervals(c, h)
        PROVE  values[i] = of[i] \/ (values[i] \notin Energy /\ of[i] \notin Energy)
    <3>1. i \in Within(HOUR * h, HOUR * h + HOUR)
      BY <1>3
    <3>2. i \in Within(lo, hi) /\ i \in Intervals
      BY <1>2, <1>4, <1>6, <2>1, <3>1, DatasetAssumption DEF Within, Intervals
    <3> QED
      BY <1>5, <3>2, DatasetAssumption
  <2> HIDE DEF of
  <2>3. Hourly(values)[c][h] = Hourly(of)[c][h]
    BY <2>2, HourOfEqual
  <2> QED
    BY <1>6, <2>3 DEF of
<1>7. CASE ~(lo <= HOUR * h /\ HOUR * h < hi)
  <2>1. PICK i \in HourIntervals(c, h) : TRUE
    BY <1>3
  <2>2. i \in Within(HOUR * h, HOUR * h + HOUR)
    BY <1>3, <2>1
  <2>3. i \in Intervals /\ i \notin Within(lo, hi)
    BY <1>2, <1>4, <1>7, <2>2, DatasetAssumption DEF Within, Intervals
  <2>4. values[i] \notin Energy
    BY <1>5, <2>3, DatasetAssumption
  <2> QED
    BY <1>7, <2>4, HourWithGap
<1> QED
  BY <1>6, <1>7

\* Ranges of rows that touch.
LEMMA RangesTouch ==
  ASSUME NEW data, NEW lo \in Int, NEW mid \in Int, NEW hi \in Int, lo <= mid, mid <= hi
  PROVE  Cardinality(Stored(data, Within(lo, hi))) =
           Cardinality(Stored(data, Within(mid, hi))) + Cardinality(Stored(data, Within(lo, mid)))
<1> DEFINE S == Stored(data, Within(mid, hi))
           T == Stored(data, Within(lo, mid))
<1>1. S \in SUBSET Intervals /\ T \in SUBSET Intervals
  BY DEF Stored, Within
<1>2. \A i \in Intervals : i \in Int
  BY DatasetAssumption DEF Intervals
<1>3. S \cap T = {} /\ Stored(data, Within(lo, hi)) = S \cup T
  BY <1>2 DEF Stored, Within
<1> HIDE DEF S, T
<1>4. Cardinality(S \cup T) = Cardinality(S) + Cardinality(T)
  BY <1>1, <1>3, CountedTogether
<1> QED
  BY <1>3, <1>4 DEF S, T

\* A usable window has the hours and the count of its range.
LEMMA WindowIsOfRevision ==
  ASSUME DataInv, JobInv, job.step = "reading", WindowUsable
  PROVE  LET of == published[job.status.meta.revision]
         IN  /\ Window.lo \in Int /\ Window.hi \in Int /\ Window.lo < Window.hi
             /\ Window.first.completeness.expected =
                  Cardinality(Stored(of, Within(Window.lo, Window.hi)))
             /\ \A c \in Channels, h \in Hours :
                  Hourly(Window.values)[c][h] =
                    IF Window.lo <= HOUR * h /\ HOUR * h < Window.hi
                    THEN Hourly(of)[c][h] ELSE Absent
<1>1. /\ ReadInv(Window) /\ Window.at = "done"
      /\ SameDataset(job.status, Window.first)
      /\ Aligned(Window.lo) /\ Aligned(Window.hi)
  BY DEF DataInv, ReadsInv, Readers, WindowUsable, JobInv, ReadingInv, Window
<1>2. /\ FirstAnswer(Window) /\ Ranged(Window.lo, Window.hi)
      /\ Exactly(Window.values, Window.first.meta, Within(Window.lo, Window.hi))
  BY <1>1 DEF ReadInv
<1>3. Window.first.meta.revision = job.status.meta.revision
  BY <1>1 DEF SameDataset
<1>4. Window.lo \in Int /\ Window.hi \in Int /\ Window.lo < Window.hi
  BY <1>2 DEF Ranged
<1>5. Window.first.completeness.expected =
        Cardinality(Stored(published[Window.first.meta.revision], Within(Window.lo, Window.hi)))
  BY <1>2 DEF FirstAnswer, Completeness
<1>6. ASSUME NEW c \in Channels, NEW h \in Hours
      PROVE  Hourly(Window.values)[c][h] =
               IF Window.lo <= HOUR * h /\ HOUR * h < Window.hi
               THEN Hourly(published[Window.first.meta.revision])[c][h] ELSE Absent
  BY <1>1, <1>2, WindowHours
<1> QED
  BY <1>3, <1>4, <1>5, <1>6

\* The windows of a history with one more.
LEMMA WindowMerged ==
  ASSUME DataInv, JobInv, job.step = "reading", job.full, WindowUsable
  PROVE  LET of == published[job.status.meta.revision]
         IN  /\ SoFar = Cardinality(Stored(of, Within(Window.lo, HistoryEnd(job.status))))
             /\ Window.lo <= HistoryEnd(job.status)
             /\ \A c \in Channels, h \in Hours :
                  Merged(job.hourly, Hourly(Window.values))[c][h] =
                    IF Window.lo <= HOUR * h THEN Hourly(of)[c][h] ELSE Absent
<1> DEFINE of == published[job.status.meta.revision]
           end == HistoryEnd(job.status)
<1>1. /\ Window.lo \in Int /\ Window.hi \in Int /\ Window.lo < Window.hi
      /\ Window.first.completeness.expected =
           Cardinality(Stored(of, Within(Window.lo, Window.hi)))
      /\ \A c \in Channels, h \in Hours :
           Hourly(Window.values)[c][h] =
             IF Window.lo <= HOUR * h /\ HOUR * h < Window.hi
             THEN Hourly(of)[c][h] ELSE Absent
  BY WindowIsOfRevision
<1>2. /\ Window.hi <= end
      /\ job.expected = Cardinality(Stored(of, Within(Window.hi, end)))
      /\ \A c \in Channels, h \in Hours :
           job.hourly[c][h] = IF Window.hi <= HOUR * h THEN Hourly(of)[c][h] ELSE Absent
  BY DEF JobInv, ReadingInv, WindowsRead
<1>3. end \in Int
  <2>1. StatusOK(job.status)
    BY DEF JobInv
  <2>2. job.status.meta.timestamp \in Nat /\ Aligned(job.status.meta.success)
    BY <2>1 DEF StatusOK, Committed, Metas
  <2> QED
    BY <2>2, HistoryEndOf
<1>4. SoFar = Cardinality(Stored(of, Within(Window.lo, end)))
  <2> HIDE DEF of, end
  <2> QED
    BY <1>1, <1>2, <1>3, RangesTouch DEF SoFar
<1>5. ASSUME NEW c \in Channels, NEW h \in Hours
      PROVE  Merged(job.hourly, Hourly(Window.values))[c][h] =
               IF Window.lo <= HOUR * h THEN Hourly(of)[c][h] ELSE Absent
  <2>1. Merged(job.hourly, Hourly(Window.values))[c][h] =
          IF job.hourly[c][h] # Absent THEN job.hourly[c][h]
          ELSE Hourly(Window.values)[c][h]
    BY DEF Merged
  <2>2. HOUR * h \in Int
    BY StatisticsAssumption DEF Hours
  <2> HIDE DEF of, end
  <2> QED
    BY <1>1, <1>2, <2>1, <2>2
<1> QED
  BY <1>1, <1>2, <1>3, <1>4, <1>5

\* Once the counts add up no row is older than the last window.
LEMMA HistoryIsWhole ==
  ASSUME DataInv, JobInv, job.step = "reading", job.full, WindowUsable, HistoryWhole,
         NEW c \in Channels, NEW h \in Hours, ~(Window.lo <= HOUR * h)
  PROVE  Hourly(published[job.status.meta.revision])[c][h] = Absent
<1> DEFINE of == published[job.status.meta.revision]
           seen == Within(Window.lo, HistoryEnd(job.status))
<1>1. Window.lo \in Int /\ Aligned(Window.lo)
  BY WindowIsOfRevision DEF JobInv, ReadingInv
<1>2. Cardinality(Stored(of, seen)) = Cardinality(Stored(of, Intervals))
  BY WindowMerged DEF HistoryWhole, JobInv, StatusOK, Committed
<1>3. Stored(of, seen) = Stored(of, Intervals)
  <2>1. Stored(of, seen) \in SUBSET Stored(of, Intervals) /\ IsFiniteSet(Stored(of, Intervals))
    BY Counted DEF Stored, Within
  <2> HIDE DEF of, seen
  <2> QED
    BY <1>2, <2>1, FS_Subset
<1>4. HOUR * h \in Int /\ HOUR * h + HOUR <= Window.lo
  <2>1. h \in Int
    BY DEF Hours
  <2> QED
    BY <1>1, <2>1, AlignedBefore
<1>5. PICK i \in HourIntervals(c, h) : i \in Within(HOUR * h, HOUR * h + HOUR)
  BY HourRange
<1>6. i \in Intervals /\ i \notin seen
  BY <1>1, <1>4, <1>5, DatasetAssumption, StatisticsAssumption DEF Within, Intervals
<1>7. of[i] = Absent
  BY <1>3, <1>6 DEF Stored
<1> QED
  BY <1>7, HourWithGap, DatasetAssumption

-----------------------------------------------------------------------------
(* The task                                                                *)

\* The hours believed imported stay those of their revision.
LEMMA KnownRests ==
  ASSUME StoreStep, KnownInv, UNCHANGED known
  PROVE  KnownInv'
<1> SUFFICES ASSUME known.hourly # None
             PROVE  KnownInv'
  BY DEF KnownInv
<1>1. /\ known.revision \in 1 .. metadata.revision
      /\ HoursOfRevision
      /\ known.status # None => StatusOK(known.status)
  BY DEF KnownInv
<1>2. known.revision \in 1 .. metadata'.revision
  BY <1>1 DEF StoreStep, StoreInv
<1>3. published'[known.revision] = published[known.revision]
  BY <1>1 DEF StoreStep
<1>4. HoursOfRevision'
  BY <1>1, <1>3 DEF HoursOfRevision
<1>5. known.status # None => StatusOK(known.status)'
  <2>1. known.status # None => StatusOK(known'.status)
    BY <1>1
  <2> QED
    BY <2>1, StatusStays
<1> QED
  BY <1>2, <1>4, <1>5 DEF KnownInv

\* Steps of the store, of the coordinator and of its own read leave the task
\* what it is.
LEMMA JobRests ==
  ASSUME StoreStep, JobInv, UNCHANGED <<job, known>>,
         Window'.lo = Window.lo, Window'.hi = Window.hi,
         Window.at # "rest" => Window'.at # "rest",
         UNCHANGED pending \/ StatusOK(pending')
  PROVE  JobInv'
<1>1. job.step # "idle" =>
        /\ StatusOK(job.status)'
        /\ published'[job.status.meta.revision] = published[job.status.meta.revision]
  <2>1. job.step # "idle" => StatusOK(job'.status)
    BY DEF JobInv
  <2> QED
    BY <2>1, StatusStays
<1>2. pending' # None => StatusOK(pending)'
  <2>1. pending' # None => StatusOK(pending')
    BY DEF JobInv
  <2> QED
    BY <2>1, StatusStays
<1>3. ReadingInv'
  <2> SUFFICES ASSUME job.step = "reading" PROVE ReadingInv'
    BY DEF ReadingInv
  <2>1. /\ Window.at # "rest"
        /\ Aligned(Window.lo) /\ Aligned(Window.hi)
        /\ job.full => WindowsRead(Window, job.status, job.hourly, job.expected)
        /\ ~job.full => /\ Window.lo = CeilHour(job.status.meta.timestamp) - RECENT_CORRECTION
                        /\ Window.hi = CeilHour(job.status.meta.timestamp)
    BY DEF JobInv, ReadingInv
  <2>2. Aligned(Window.lo)' /\ Aligned(Window.hi)'
    BY <2>1 DEF Aligned
  <2>3. job.full => WindowsRead(Window, job.status, job.hourly, job.expected)'
    BY <1>1, <2>1 DEF WindowsRead
  <2> QED
    BY <2>1, <2>2, <2>3 DEF ReadingInv
<1> QED
  BY <1>1, <1>2, <1>3 DEF JobInv, JobShape, OfRevision

\* Without a task there is only the status that waits.
LEMMA JobOver ==
  ASSUME StoreStep, JobInv, job' = NoJob, UNCHANGED pending \/ pending' = None
  PROVE  JobInv'
<1>1. job'.step = "idle" /\ job'.full = FALSE /\ JobShape'
  BY DEF NoJob, JobShape
<1>2. pending' # None => StatusOK(pending)'
  <2>1. pending' # None => StatusOK(pending')
    BY DEF JobInv
  <2> QED
    BY <2>1, StatusStays
<1> QED
  BY <1>1, <1>2 DEF JobInv, ReadingInv

\* The range of a window is one the API answers.
LEMMA SpanRanged ==
  ASSUME StoreInv, metadata.revision > 0,
         NEW end, end \in Int, Aligned(end),
         NEW span, span \in Nat \ {0}, span <= MAX_RANGE, Aligned(span)
  PROVE  Ranged(end - span, end) /\ Aligned(end - span)
<1>1. Aligned(end - span) /\ end - span \in Int
  BY AlignedSum
<1>2. end - span < end /\ end - (end - span) <= MAX_RANGE
  BY DatasetAssumption
<1> QED
  BY <1>1, <1>2 DEF Ranged

\* A synchronization begins with the newest hours of its status.
LEMMA BeginKeepsInv ==
  ASSUME DataInv, JobInv, Begin
  PROVE  DataInv' /\ StoreStep /\ JobInv'
<1> DEFINE status == pending
           full == NeedsFullHistory(status)
           end == IF full THEN HistoryEnd(status) ELSE CeilHour(status.meta.timestamp)
           span == IF full THEN HISTORY_WINDOW ELSE RECENT_CORRECTION
           of == published[status.meta.revision]
<1>1. /\ job = NoJob /\ StatusOK(status)
      /\ job' = [NoJob EXCEPT !.step = "reading", !.status = status, !.full = full]
      /\ ReadRange(end - span, end)
      /\ pending' = None
      /\ UNCHANGED <<store, coordinatorVars, known>>
  BY DEF Begin, JobInv
<1>2. /\ job'.step = "reading" /\ job'.status = status /\ job'.full = full
      /\ job'.expected = 0 /\ job'.hourly = NoHours /\ JobShape'
  BY <1>1 DEF NoJob, JobShape
<1>3. /\ status.meta.timestamp \in Nat /\ Aligned(status.meta.success)
      /\ status.meta.timestamp = Timestamp(of)
      /\ metadata.revision > 0
  BY <1>1 DEF StatusOK, Committed, Metas, DataInv, StoreInv
<1>4. end \in Int /\ Aligned(end)
  BY <1>3, HistoryEndOf, CeilHourOf
<1>5. span \in Nat \ {0} /\ span <= MAX_RANGE /\ Aligned(span)
  <2>1. /\ HISTORY_WINDOW \in Nat \ {0} /\ HISTORY_WINDOW % HOUR = 0
        /\ RECENT_CORRECTION \in Nat \ {0} /\ RECENT_CORRECTION % HOUR = 0
        /\ HISTORY_WINDOW <= MAX_RANGE /\ RECENT_CORRECTION <= MAX_RANGE
    BY StatisticsAssumption
  <2> QED
    BY <2>1, AlignedModulus
<1>6. full \in BOOLEAN /\ (~full => known.hourly # None)
  BY DEF NeedsFullHistory
<1> HIDE DEF full, span
<1>7. Ranged(end - span, end) /\ Aligned(end - span)
  <2> HIDE DEF end
  <2> QED
    BY <1>3, <1>4, <1>5, SpanRanged DEF DataInv
<1>8. DataInv' /\ StoreStep
  <2> HIDE DEF end
  <2> QED
    BY <1>1, <1>7, ManagerKeepsInv
<1>9. Window'.lo = end - span /\ Window'.hi = end /\ Window'.at = "reading"
  <2> HIDE DEF end
  <2>1. reads'["statistics"] = Reading(end - span, end)
    BY <1>1 DEF ReadRange, DataInv, ReadsInv, Readers
  <2> QED
    BY <2>1, FreshReads DEF Window
<1>10. StatusOK(job'.status) /\ StatusOK(job.status)'
  <2>1. StatusOK(job'.status)
    BY <1>1, <1>2
  <2> QED
    BY <1>8, <2>1, StatusStays
<1>11. full => WindowsRead(Window, job.status, job.hourly, job.expected)'
  <2> SUFFICES ASSUME full PROVE WindowsRead(Window, job.status, job.hourly, job.expected)'
    OBVIOUS
  <2>1. end = HistoryEnd(status) /\ status.meta.timestamp <= end
    BY <1>3, HistoryEndOf
  <2>2. Cardinality(Stored(of, Within(end, end))) = 0
    <3>1. Within(end, end) = {}
      BY <1>4, DatasetAssumption DEF Within, Intervals
    <3>2. Stored(of, Within(end, end)) = {}
      BY <3>1 DEF Stored
    <3> QED
      BY <3>2, FS_EmptySet
  <2>3. ASSUME NEW c \in Channels, NEW h \in Hours
        PROVE  NoHours[c][h] = IF end <= HOUR * h THEN Hourly(of)[c][h] ELSE Absent
    <3>1. NoHours[c][h] = Absent
      BY DEF NoHours
    <3>2. HOUR * h \in Int
      BY StatisticsAssumption DEF Hours
    <3>3. end <= HOUR * h => Timestamp(of) <= HOUR * h
      BY <1>3, <1>4, <2>1, <3>2
    <3> HIDE DEF end, of
    <3>4. end <= HOUR * h => Hourly(of)[c][h] = Absent
      BY <3>3, NoLaterHour
    <3> QED
      BY <3>1, <3>4
  <2>4. published' = published
    BY <1>1 DEF store
  <2> HIDE DEF end
  <2>5. end <= HistoryEnd(status)
    BY <1>4, <2>1
  <2> QED
    BY <1>2, <1>9, <2>1, <2>2, <2>3, <2>4, <2>5 DEF WindowsRead
<1>12. ReadingInv'
  <2>1. ~full => end = CeilHour(status.meta.timestamp) /\ span = RECENT_CORRECTION
    BY DEF span
  <2> HIDE DEF end
  <2>2. Aligned(Window.lo)' /\ Aligned(Window.hi)'
    BY <1>4, <1>7, <1>9 DEF Aligned
  <2> QED
    BY <1>2, <1>9, <1>11, <2>1, <2>2 DEF ReadingInv
<1> QED
  BY <1>1, <1>2, <1>6, <1>8, <1>10, <1>12 DEF JobInv

\* An older window is asked for with what was read so far.
LEMMA OlderWindowKeepsInv ==
  ASSUME DataInv, JobInv, OlderWindow
  PROVE  DataInv' /\ StoreStep /\ JobInv'
<1> DEFINE lo == Window.lo
           of == published[job.status.meta.revision]
           hours == Merged(job.hourly, Hourly(Window.values))
<1>1. /\ job.step = "reading" /\ job.full /\ WindowUsable
      /\ job' = [job EXCEPT !.expected = SoFar, !.windows = @ + 1, !.hourly = hours]
      /\ ReadRange(lo - HISTORY_WINDOW, lo)
      /\ UNCHANGED <<store, coordinatorVars, known, pending>>
  BY DEF OlderWindow
<1>2. /\ job'.step = "reading" /\ job'.status = job.status /\ job'.full = job.full
      /\ job'.expected = SoFar /\ job'.hourly = hours /\ JobShape'
  <2> HIDE DEF hours
  <2> QED
    BY <1>1 DEF JobInv, JobShape
<1>3. /\ lo \in Int /\ Aligned(lo)
      /\ SoFar = Cardinality(Stored(of, Within(lo, HistoryEnd(job.status))))
      /\ lo <= HistoryEnd(job.status)
      /\ \A c \in Channels, h \in Hours :
           hours[c][h] = IF lo <= HOUR * h THEN Hourly(of)[c][h] ELSE Absent
  BY <1>1, WindowIsOfRevision, WindowMerged DEF JobInv, ReadingInv
<1>4. HISTORY_WINDOW \in Nat \ {0} /\ HISTORY_WINDOW <= MAX_RANGE /\ Aligned(HISTORY_WINDOW)
  <2>1. /\ HISTORY_WINDOW \in Nat \ {0} /\ HISTORY_WINDOW % HOUR = 0
        /\ HISTORY_WINDOW <= MAX_RANGE
    BY StatisticsAssumption
  <2> QED
    BY <2>1, AlignedModulus
<1>5. StatusOK(job.status) /\ metadata.revision > 0
  BY <1>1 DEF JobInv, StatusOK, Committed, DataInv, StoreInv
<1> HIDE DEF lo, hours
<1>6. Ranged(lo - HISTORY_WINDOW, lo) /\ Aligned(lo - HISTORY_WINDOW)
  BY <1>3, <1>4, <1>5, SpanRanged DEF DataInv
<1>7. DataInv' /\ StoreStep
  BY <1>1, <1>6, ManagerKeepsInv
<1>8. Window'.lo = lo - HISTORY_WINDOW /\ Window'.hi = lo /\ Window'.at = "reading"
  <2>1. reads'["statistics"] = Reading(lo - HISTORY_WINDOW, lo)
    BY <1>1 DEF ReadRange, DataInv, ReadsInv, Readers
  <2> QED
    BY <2>1, FreshReads DEF Window
<1>9. StatusOK(job.status)'
  <2>1. StatusOK(job'.status)
    BY <1>2, <1>5
  <2> QED
    BY <1>7, <2>1, StatusStays
<1>10. pending' # None => StatusOK(pending)'
  <2>1. pending' # None => StatusOK(pending')
    BY <1>1 DEF JobInv
  <2> QED
    BY <1>7, <2>1, StatusStays
<1>11. ReadingInv'
  <2>1. published' = published
    BY <1>1 DEF store
  <2>2. Aligned(Window.lo)' /\ Aligned(Window.hi)'
    BY <1>3, <1>6, <1>8 DEF Aligned
  <2>3. WindowsRead(Window, job.status, job.hourly, job.expected)'
    BY <1>2, <1>3, <1>8, <2>1 DEF WindowsRead
  <2> QED
    BY <1>1, <1>2, <1>8, <2>2, <2>3 DEF ReadingInv
<1> QED
  BY <1>1, <1>2, <1>7, <1>9, <1>10, <1>11 DEF JobInv

\* The last window leaves exactly the hours of the revision.
LEMMA LastWindowKeepsInv ==
  ASSUME DataInv, JobInv, LastWindow
  PROVE  DataInv' /\ StoreStep /\ JobInv'
<1> DEFINE of == published[job.status.meta.revision]
           hours == IF job.full THEN Merged(job.hourly, Hourly(Window.values)) ELSE Corrected
<1>1. /\ job.step = "reading" /\ WindowUsable /\ (job.full => HistoryWhole)
      /\ job' = [job EXCEPT !.step = "confirm", !.hourly = hours]
      /\ ReadOver
      /\ UNCHANGED <<store, coordinatorVars, known, pending>>
  BY DEF LastWindow
<1>2. /\ job'.step = "confirm" /\ job'.status = job.status /\ job'.full = job.full
      /\ job'.hourly = hours /\ JobShape'
  <2> HIDE DEF hours
  <2> QED
    BY <1>1 DEF JobInv, JobShape
<1>3. DataInv' /\ StoreStep
  BY <1>1, ManagerKeepsInv
<1>4. ASSUME NEW c \in Channels, NEW h \in Hours,
             job.full \/ InCorrection(job.status, h)
      PROVE  hours[c][h] = Hourly(of)[c][h]
  <2>1. CASE job.full
    <3>1. hours[c][h] = IF Window.lo <= HOUR * h THEN Hourly(of)[c][h] ELSE Absent
      BY <1>1, <2>1, WindowMerged
    <3>2. ~(Window.lo <= HOUR * h) => Hourly(of)[c][h] = Absent
      BY <1>1, <2>1, HistoryIsWhole
    <3> HIDE DEF of, hours
    <3> QED
      BY <3>1, <3>2
  <2>2. CASE ~job.full
    <3>1. InCorrection(job.status, h) /\ hours = Corrected
      BY <1>4, <2>2
    <3>2. hours[c][h] = Hourly(Window.values)[c][h]
      BY <3>1 DEF Corrected
    <3>3. Window.lo <= HOUR * h /\ HOUR * h < Window.hi
      BY <1>1, <2>2, <3>1 DEF JobInv, ReadingInv, InCorrection
    <3>4. Hourly(Window.values)[c][h] = Hourly(of)[c][h]
      BY <1>1, <3>3, WindowIsOfRevision
    <3> HIDE DEF of, hours
    <3> QED
      BY <3>2, <3>4
  <2> QED
    BY <2>1, <2>2
<1> HIDE DEF hours
<1>5. OfRevision(job.hourly, job.status, job.full)'
  BY <1>1, <1>2, <1>4 DEF OfRevision, store
<1>6. StatusOK(job.status)'
  <2>1. StatusOK(job'.status)
    BY <1>1, <1>2 DEF JobInv
  <2> QED
    BY <1>3, <2>1, StatusStays
<1>7. pending' # None => StatusOK(pending)'
  <2>1. pending' # None => StatusOK(pending')
    BY <1>1 DEF JobInv
  <2> QED
    BY <1>3, <2>1, StatusStays
<1> QED
  BY <1>1, <1>2, <1>3, <1>5, <1>6, <1>7 DEF JobInv, ReadingInv

\* The import goes on with the same hours.
LEMMA ImportKeepsInv ==
  ASSUME DataInv, JobInv, KnownInv, Confirm \/ UpdateStream \/ StreamsCleared
  PROVE  DataInv' /\ StoreStep /\ JobInv' /\ KnownInv'
<1>1. /\ job.step \in {"confirm", "clearing", "import"}
      /\ UNCHANGED <<store, reads, coordinatorVars, known, pending>>
  BY DEF Confirm, UpdateStream, StreamsCleared, datasetVars
<1>2. /\ job'.step \in {"clearing", "import"} /\ job'.status = job.status /\ job'.full = job.full
      /\ job'.hourly = job.hourly /\ JobShape'
  <2>1. JobShape
    BY DEF JobInv
  <2>2. CASE Confirm
    BY <2>1, <2>2 DEF Confirm, JobShape
  <2>3. CASE UpdateStream
    <3>1. \/ job' = [job EXCEPT !.step = "clearing"]
          \/ job.step = "import" /\ job' = [job EXCEPT !.left = Tail(@)]
      BY <2>3 DEF UpdateStream
    <3> QED
      BY <2>1, <3>1 DEF JobShape
  <2>4. CASE StreamsCleared
    BY <2>1, <2>4 DEF StreamsCleared, JobShape
  <2> QED
    BY <2>2, <2>3, <2>4
<1>3. DataInv' /\ StoreStep
  BY <1>1, ManagerKeepsInv
<1>4. StatusOK(job.status)'
  <2>1. StatusOK(job'.status)
    BY <1>1, <1>2 DEF JobInv
  <2> QED
    BY <1>3, <2>1, StatusStays
<1>5. pending' # None => StatusOK(pending)'
  <2>1. pending' # None => StatusOK(pending')
    BY <1>1 DEF JobInv
  <2> QED
    BY <1>3, <2>1, StatusStays
<1>6. OfRevision(job.hourly, job.status, job.full)'
  BY <1>1, <1>2 DEF JobInv, OfRevision, store
<1>7. JobInv'
  BY <1>1, <1>2, <1>4, <1>5, <1>6 DEF JobInv, ReadingInv
<1> QED
  BY <1>1, <1>3, <1>7, KnownRests

\* What was imported is known from here on.
LEMMA SynchronizedKeepsInv ==
  ASSUME DataInv, JobInv, Synchronized
  PROVE  DataInv' /\ StoreStep /\ JobInv' /\ KnownInv'
<1>1. /\ job.step = "import"
      /\ job' = NoJob
      /\ known'.hourly = job.hourly
      /\ known'.revision = job.status.meta.revision
      /\ known'.status = IF job.full THEN None ELSE job.status
      /\ UNCHANGED <<store, reads, coordinatorVars, pending>>
  BY DEF Synchronized, datasetVars
<1>2. DataInv' /\ StoreStep
  BY <1>1, ManagerKeepsInv
<1>3. JobInv'
  BY <1>1, <1>2, JobOver
<1>4. StatusOK(job.status) /\ OfRevision(job.hourly, job.status, job.full)
  BY <1>1 DEF JobInv
<1>5. job.status # None /\ job.status.meta.revision \in 1 .. metadata.revision
  BY <1>4, DatasetAssumption DEF StatusOK, Committed
<1>6. HoursOfRevision'
  <2>1. job.full \in BOOLEAN
    BY DEF JobInv
  <2>2. published' = published
    BY <1>1 DEF store
  <2>3. ASSUME NEW c \in Channels, NEW h \in Hours,
               known'.status = None \/ InCorrection(known'.status, h)
        PROVE  known'.hourly[c][h] = Hourly(published'[known'.revision])[c][h]
    <3>1. job.full \/ InCorrection(job.status, h)
      BY <1>1, <1>5, <2>1, <2>3
    <3> QED
      BY <1>1, <1>4, <2>2, <3>1 DEF OfRevision
  <2> QED
    BY <2>3 DEF HoursOfRevision
<1>7. known'.status # None => StatusOK(known.status)'
  <2>1. known'.status # None => StatusOK(known'.status)
    BY <1>1, <1>4
  <2> QED
    BY <1>2, <2>1, StatusStays
<1> QED
  BY <1>1, <1>2, <1>3, <1>5, <1>6, <1>7 DEF KnownInv, store

\* What the coordinator hands over is a status of a revision.
LEMMA RefreshKeepsInv ==
  ASSUME DataInv, JobInv, KnownInv, Refresh
  PROVE  DataInv' /\ StoreStep /\ JobInv' /\ KnownInv'
<1>1. /\ DataInv' /\ StoreStep
      /\ reads'["statistics"] = reads["statistics"]
      /\ snapshot' = snapshot \/ StatusOK(snapshot'.status)
  BY PollKeepsInv DEF Refresh
<1>2. /\ UNCHANGED <<known, job>>
      /\ UNCHANGED pending \/ StatusOK(pending')
  BY <1>1 DEF Refresh, Schedule, managerVars
<1>3. Window' = Window
  BY <1>1 DEF Window
<1> QED
  BY <1>1, <1>2, <1>3, JobRests, KnownRests

\* One case per actor.
LEMMA NextKeepsHours ==
  ASSUME DataInv, JobInv, KnownInv, [Next]_vars
  PROVE  DataInv' /\ StoreStep /\ JobInv' /\ KnownInv'
<1>1. CASE Collect /\ UNCHANGED <<coordinatorVars, managerVars>>
  <2>1. DataInv' /\ StoreStep /\ UNCHANGED <<reads, known, job, pending>>
    BY <1>1, CollectKeepsInv DEF managerVars
  <2>2. Window' = Window
    BY <2>1 DEF Window
  <2> QED
    BY <2>1, <2>2, JobRests, KnownRests
<1>2. CASE Refresh
  BY <1>2, RefreshKeepsInv
<1>3. CASE ReadStep("statistics") /\ UNCHANGED <<coordinatorVars, managerVars>>
  <2>1. /\ DataInv' /\ StoreStep /\ RangesKept("statistics")
        /\ UNCHANGED <<known, job, pending>>
    BY <1>3, ReadStepKeepsInv DEF Readers, managerVars
  <2>2. /\ Window'.lo = Window.lo /\ Window'.hi = Window.hi
        /\ Window'.at # "rest"
    BY <2>1 DEF Window, RangesKept
  <2> QED
    BY <2>1, <2>2, JobRests, KnownRests
<1>4. CASE Begin
  <2>1. DataInv' /\ StoreStep /\ JobInv'
    BY <1>4, BeginKeepsInv
  <2> QED
    BY <1>4, <2>1, KnownRests DEF Begin
<1>5. CASE OlderWindow
  <2>1. DataInv' /\ StoreStep /\ JobInv'
    BY <1>5, OlderWindowKeepsInv
  <2> QED
    BY <1>5, <2>1, KnownRests DEF OlderWindow
<1>6. CASE LastWindow
  <2>1. DataInv' /\ StoreStep /\ JobInv'
    BY <1>6, LastWindowKeepsInv
  <2> QED
    BY <1>6, <2>1, KnownRests DEF LastWindow
<1>7. CASE Confirm \/ UpdateStream \/ StreamsCleared
  BY <1>7, ImportKeepsInv
<1>8. CASE Synchronized
  BY <1>8, SynchronizedKeepsInv
<1>9. CASE ReadingFails \/ ConfirmFails \/ ClearTimesOut
  <2>1. /\ UNCHANGED <<store, coordinatorVars, known, pending>>
        /\ UNCHANGED reads \/ ReadOver
        /\ job' = NoJob
    BY <1>9 DEF ReadingFails, ConfirmFails, ClearTimesOut, JobFails
  <2>2. DataInv' /\ StoreStep
    BY <2>1, ManagerKeepsInv
  <2> QED
    BY <2>1, <2>2, JobOver, KnownRests
<1>10. CASE Reload
  <2>1. DataInv' /\ StoreStep
    BY <1>10, ReloadKeepsInv
  <2>2. job' = NoJob /\ pending' = None /\ known'.hourly = None
    BY <1>10 DEF Reload, Nothing
  <2> QED
    BY <2>1, <2>2, JobOver DEF KnownInv
<1>11. CASE UNCHANGED vars
  <2>1. UNCHANGED <<store, reads, coordinatorVars, known, job, pending>>
    BY <1>11 DEF vars, datasetVars, managerVars
  <2>2. DataInv' /\ StoreStep
    BY <2>1, ManagerKeepsInv
  <2>3. Window' = Window
    BY <2>1 DEF Window
  <2> QED
    BY <2>1, <2>2, <2>3, JobRests, KnownRests
<1> QED
  BY <1>1, <1>2, <1>3, <1>4, <1>5, <1>6, <1>7, <1>8, <1>9, <1>10, <1>11 DEF Next, ManagerStep

-----------------------------------------------------------------------------
(* The Recorder                                                            *)

\* Rows from the earliest changed hour on make the sums those of the new
\* hours, when no hour was removed.
LEMMA UpsertedSums ==
  ASSUME NEW c \in Channels, Removed(c) = {}, Holds(c, known.hourly)
  PROVE  Upserted(c) = Cumulative(job.hourly[c])
<1> DEFINE J == job.hourly[c]
           K == known.hourly[c]
<1>1. \A h \in Hours : J[h] = Absent => K[h] = Absent
  BY DEF Removed
<1>2. ASSUME NEW h \in Hours
      PROVE  (IF J[h] # Absent /\ \E first \in Changed(c) : first <= h
              THEN Cumulative(J)[h] ELSE recorder[c][h]) = Cumulative(J)[h]
  <2>1. /\ recorder[c][h] = IF K[h] = Absent THEN Absent ELSE Total([x \in 0 .. h |-> K[x]])
        /\ Cumulative(J)[h] = IF J[h] = Absent THEN Absent ELSE Total([x \in 0 .. h |-> J[x]])
    BY DEF Holds, Cumulative
  <2>2. CASE J[h] = Absent
    BY <1>1, <2>1, <2>2
  <2>3. CASE J[h] # Absent /\ ~ \E first \in Changed(c) : first <= h
    <3>1. \A x \in 0 .. h : x \in Hours /\ x <= h
      BY StatisticsAssumption, DatasetAssumption DEF Hours
    <3>2. \A x \in 0 .. h : J[x] = K[x]
      BY <1>1, <2>3, <3>1 DEF Changed
    <3>3. [x \in 0 .. h |-> J[x]] = [x \in 0 .. h |-> K[x]]
      BY <3>2
    <3>4. h \in 0 .. h
      BY DEF Hours
    <3>5. J[h] = K[h]
      BY <3>2, <3>4
    <3> HIDE DEF J, K
    <3> QED
      BY <2>1, <2>3, <3>3, <3>5
  <2> QED
    BY <2>2, <2>3
<1> QED
  BY <1>2 DEF Upserted, Cumulative

\* Before and between imports the Recorder is left alone.
LEMMA RecorderUntouched ==
  ASSUME RecorderInv, UNCHANGED <<known, recorder, clearLost>>,
         job.step \notin {"clearing", "import"}, job'.step \notin {"clearing", "import"}
  PROVE  RecorderInv'
  BY DEF RecorderInv, RecorderMatches, Imported, Cumulative

\* The streams of a correction, and what is left of them.
LEMMA StreamsLeft ==
  /\ Streams # <<>> /\ Head(Streams) = GridImport /\ Tail(Streams) = <<GridExport>>
  /\ <<GridExport>> # <<>> /\ Head(<<GridExport>>) = GridExport /\ Tail(<<GridExport>>) = <<>>
  /\ {Streams[n] : n \in DOMAIN Streams} = Channels
  /\ {<<GridExport>>[n] : n \in DOMAIN <<GridExport>>} = {GridExport}
  /\ {<<>>[n] : n \in DOMAIN <<>>} = {}
  /\ Channels = {GridExport, GridImport} /\ GridExport # GridImport
  BY DEF Streams, Channels, GridExport, GridImport

\* A step of an import: one stream gets the sums of the new hours or is
\* cleared, the others stay.
LEMMA StreamKeepsRecorder ==
  ASSUME RecorderInv, JobInv, JobShape', UNCHANGED <<known, clearLost>>,
         job.step \in {"clearing", "import"}, ~job.full, job.left # <<>>,
         job'.full = job.full, job'.hourly = job.hourly,
         NEW c, c = Head(job.left),
         recorder' = [d \in Channels |-> recorder'[d]],
         \A d \in Channels \ {c} : recorder'[d] = recorder[d],
         \/ job'.step = "clearing" /\ job'.left = job.left
         \/ /\ job'.step = "import" /\ job'.left = Tail(job.left)
            /\ recorder'[c] = Cumulative(job.hourly[c]) \/ clearLost
  PROVE  RecorderInv'
<1>1. job.left \in {Streams, <<GridExport>>}
  BY DEF RecorderInv
<1>2. /\ c \in Channels
      /\ c \in LeftStreams
      /\ Tail(job.left) \in {<<GridExport>>, <<>>}
      /\ {Tail(job.left)[n] : n \in DOMAIN Tail(job.left)} = LeftStreams \ {c}
  <2>1. CASE job.left = Streams
    BY <2>1, StreamsLeft DEF LeftStreams
  <2>2. CASE job.left = <<GridExport>>
    BY <2>2, StreamsLeft DEF LeftStreams
  <2> QED
    BY <1>1, <2>1, <2>2
<1>3. ASSUME ~clearLost, NEW d \in Channels
      PROVE  \/ d \notin LeftStreams' /\ recorder'[d] = Cumulative(job'.hourly[d])
             \/ d \in LeftStreams' /\ recorder'[d] = Cumulative(known'.hourly[d])
             \/ job'.step = "clearing" /\ d = Head(job'.left)
  <2>1. \/ d \notin LeftStreams /\ Holds(d, job.hourly)
        \/ d \in LeftStreams /\ Holds(d, known.hourly)
        \/ job.step = "clearing" /\ d = c
    BY <1>3 DEF RecorderInv
  <2>2. CASE job'.step = "clearing" /\ job'.left = job.left
    <3>1. LeftStreams' = LeftStreams
      BY <2>2 DEF LeftStreams
    <3> QED
      BY <2>1, <2>2, <3>1 DEF Holds
  <2>3. CASE /\ job'.step = "import" /\ job'.left = Tail(job.left)
             /\ recorder'[c] = Cumulative(job.hourly[c])
    <3>1. LeftStreams' = LeftStreams \ {c}
      BY <1>2, <2>3 DEF LeftStreams
    <3> QED
      BY <2>1, <2>3, <3>1 DEF Holds
  <2> QED
    BY <1>3, <2>2, <2>3
<1> QED
  BY <1>1, <1>2, <1>3 DEF RecorderInv, RecorderMatches, Holds, Cumulative

\* A confirmed full history clears both streams, a correction begins with what
\* the Recorder holds.
LEMMA ConfirmKeepsRecorder ==
  ASSUME JobInv, RecorderInv, Confirm
  PROVE  RecorderInv'
<1>1. /\ job.step = "confirm" /\ JobShape /\ UNCHANGED <<known, clearLost>>
      /\ job.full \in BOOLEAN
  BY DEF Confirm, JobInv
<1>2. CASE job.full
  <2>1. job'.step = "clearing" /\ job'.full /\ recorder' = NoHours
    BY <1>1, <1>2 DEF Confirm, JobShape
  <2> QED
    BY <2>1 DEF RecorderInv, RecorderMatches, NoHours
<1>3. CASE ~job.full
  <2>1. /\ job'.step = "import" /\ ~job'.full /\ job'.left = Streams /\ UNCHANGED recorder
        /\ job'.hourly = job.hourly
    BY <1>1, <1>3 DEF Confirm, JobShape
  <2>2. ~clearLost => \A c \in Channels : Holds(c, known.hourly)
    BY <1>1, <1>3 DEF JobInv, RecorderInv, RecorderMatches, Imported, Holds
  <2>3. LeftStreams' = Channels
    BY <2>1, StreamsLeft DEF LeftStreams
  <2> QED
    BY <1>1, <2>1, <2>2, <2>3 DEF RecorderInv, RecorderMatches, Holds, Cumulative
<1> QED
  BY <1>1, <1>2, <1>3

\* A stream is written from its earliest change on, or cleared when an hour was
\* removed from it.
LEMMA UpdateStreamKeepsRecorder ==
  ASSUME JobInv, RecorderInv, UpdateStream
  PROVE  RecorderInv'
<1> DEFINE c == Head(job.left)
<1>1. /\ job.step = "import" /\ job.left # <<>> /\ JobShape /\ UNCHANGED <<known, clearLost>>
      /\ job.full \in BOOLEAN
  BY DEF UpdateStream, JobInv
<1>2. ~job.full
  BY <1>1 DEF RecorderInv
<1>3. c \in Channels /\ c \in LeftStreams
  <2>1. job.left \in {Streams, <<GridExport>>}
    BY <1>1, <1>2 DEF RecorderInv
  <2> QED
    BY <2>1, StreamsLeft DEF LeftStreams
<1>4. recorder = [d \in Channels |-> recorder[d]]
  BY DEF RecorderInv
<1>5. CASE Removed(c) # {}
  <2>1. /\ job' = [job EXCEPT !.step = "clearing"]
        /\ recorder' = [recorder EXCEPT ![c] = NoHours[c]]
    BY <1>5 DEF UpdateStream
  <2>2. /\ job'.step = "clearing" /\ job'.left = job.left /\ job'.full = job.full
        /\ job'.hourly = job.hourly /\ JobShape'
    BY <1>1, <2>1 DEF JobShape
  <2> HIDE DEF c
  <2>3. /\ recorder' = [d \in Channels |-> recorder'[d]]
        /\ \A d \in Channels \ {c} : recorder'[d] = recorder[d]
    BY <1>3, <1>4, <2>1
  <2> QED
    BY <1>1, <1>2, <2>2, <2>3, StreamKeepsRecorder DEF c
<1>6. CASE Removed(c) = {}
  <2>1. /\ job' = [job EXCEPT !.left = Tail(@)]
        /\ recorder' = [recorder EXCEPT ![c] = Upserted(c)]
    BY <1>6 DEF UpdateStream
  <2>2. /\ job'.step = "import" /\ job'.left = Tail(job.left) /\ job'.full = job.full
        /\ job'.hourly = job.hourly /\ JobShape'
    BY <1>1, <2>1 DEF JobShape
  <2>3. ~clearLost => Holds(c, known.hourly)
    BY <1>1, <1>2, <1>3 DEF RecorderInv
  <2> HIDE DEF c
  <2>4. /\ recorder' = [d \in Channels |-> recorder'[d]]
        /\ \A d \in Channels \ {c} : recorder'[d] = recorder[d]
        /\ recorder'[c] = Upserted(c)
    BY <1>3, <1>4, <2>1
  <2>5. recorder'[c] = Cumulative(job.hourly[c]) \/ clearLost
    BY <1>3, <1>6, <2>3, <2>4, UpsertedSums
  <2> QED
    BY <1>1, <1>2, <2>2, <2>4, <2>5, StreamKeepsRecorder DEF c
<1> QED
  BY <1>5, <1>6

\* Cleared streams are written anew.
LEMMA StreamsClearedKeepsRecorder ==
  ASSUME JobInv, RecorderInv, StreamsCleared
  PROVE  RecorderInv'
<1>1. /\ job.step = "clearing" /\ JobShape /\ UNCHANGED <<known, clearLost>>
      /\ job.full \in BOOLEAN
  BY DEF StreamsCleared, JobInv
<1>2. /\ job'.step = "import" /\ job'.left = (IF job.full THEN <<>> ELSE Tail(job.left))
      /\ job'.full = job.full /\ job'.hourly = job.hourly /\ JobShape'
  BY <1>1 DEF StreamsCleared, JobShape
<1>3. CASE job.full
  <2>1. recorder' = [c \in Channels |-> Cumulative(job.hourly[c])]
    BY <1>3 DEF StreamsCleared
  <2> QED
    BY <1>1, <1>2, <1>3, <2>1 DEF RecorderInv, RecorderMatches, Holds, Cumulative
<1>4. CASE ~job.full
  <2> DEFINE c == Head(job.left)
  <2>1. job.left # <<>> /\ c \in Channels
    <3>1. job.left \in {Streams, <<GridExport>>}
      BY <1>1, <1>4 DEF RecorderInv
    <3> QED
      BY <3>1, StreamsLeft
  <2>2. recorder' = [d \in Channels |->
                       IF d \in {c} THEN Cumulative(job.hourly[d]) ELSE recorder[d]]
    BY <1>4 DEF StreamsCleared
  <2> HIDE DEF c
  <2>3. /\ recorder' = [d \in Channels |-> recorder'[d]]
        /\ \A d \in Channels \ {c} : recorder'[d] = recorder[d]
        /\ recorder'[c] = Cumulative(job.hourly[c])
    BY <2>1, <2>2
  <2> QED
    BY <1>1, <1>2, <1>4, <2>1, <2>3, StreamKeepsRecorder DEF c
<1> QED
  BY <1>1, <1>3, <1>4

\* What is known from here on is what the Recorder holds.
LEMMA SynchronizedKeepsRecorder ==
  ASSUME JobInv, RecorderInv, Synchronized
  PROVE  RecorderInv'
<1>1. /\ job.step = "import" /\ job.left = <<>>
      /\ known'.hourly = job.hourly
      /\ job'.step = "idle"
      /\ clearLost' = (clearLost /\ ~job.full)
      /\ UNCHANGED recorder
      /\ job.full \in BOOLEAN
  BY DEF Synchronized, JobInv, NoJob
<1>2. ~clearLost' => \A c \in Channels : Holds(c, job.hourly)
  <2>1. CASE job.full
    BY <1>1, <2>1 DEF RecorderInv
  <2>2. CASE ~job.full
    <3>1. LeftStreams = {}
      BY <1>1, StreamsLeft DEF LeftStreams
    <3> QED
      BY <1>1, <2>2, <3>1 DEF RecorderInv
  <2> QED
    BY <1>1, <2>1, <2>2
<1> QED
  BY <1>1, <1>2 DEF RecorderInv, RecorderMatches, Imported, Holds, Cumulative

\* One case per step that touches the task, what is known or the Recorder.
LEMMA NextKeepsRecorder ==
  ASSUME JobInv, RecorderInv, [Next]_vars
  PROVE  RecorderInv'
<1>1. CASE UNCHANGED <<known, job, recorder, clearLost>>
  BY <1>1 DEF RecorderInv, RecorderMatches, Imported, Holds, Cumulative, LeftStreams
<1>2. CASE Begin \/ OlderWindow \/ LastWindow
  <2>1. /\ UNCHANGED <<known, recorder, clearLost>>
        /\ job.step \notin {"clearing", "import"} /\ job'.step \notin {"clearing", "import"}
    <3>1. CASE Begin
      BY <3>1 DEF Begin, NoJob
    <3>2. CASE OlderWindow
      BY <3>2 DEF OlderWindow, JobInv, JobShape
    <3>3. CASE LastWindow
      BY <3>3 DEF LastWindow, JobInv, JobShape
    <3> QED
      BY <1>2, <3>1, <3>2, <3>3
  <2> QED
    BY <2>1, RecorderUntouched
<1>3. CASE Confirm
  BY <1>3, ConfirmKeepsRecorder
<1>4. CASE UpdateStream
  BY <1>4, UpdateStreamKeepsRecorder
<1>5. CASE StreamsCleared
  BY <1>5, StreamsClearedKeepsRecorder
<1>6. CASE Synchronized
  BY <1>6, SynchronizedKeepsRecorder
<1>7. CASE ReadingFails \/ ConfirmFails
  <2>1. /\ UNCHANGED <<known, recorder, clearLost>>
        /\ job.step \notin {"clearing", "import"} /\ job'.step \notin {"clearing", "import"}
    BY <1>7 DEF ReadingFails, ReadingFailed, ConfirmFails, JobFails, NoJob
  <2> QED
    BY <2>1, RecorderUntouched
<1>8. CASE ClearTimesOut \/ Reload
  <2>1. /\ job'.step = "idle" /\ UNCHANGED recorder
        /\ clearLost' = TRUE \/ known'.hourly = None
    BY <1>8 DEF ClearTimesOut, Reload, JobFails, NoJob, Nothing
  <2> QED
    BY <2>1 DEF RecorderInv, RecorderMatches
<1>9. CASE Collect /\ UNCHANGED managerVars
  BY <1>1, <1>9 DEF managerVars
<1>10. CASE Refresh
  BY <1>1, <1>10 DEF Refresh, Schedule, managerVars
<1>11. CASE UNCHANGED managerVars \/ UNCHANGED vars
  BY <1>1, <1>11 DEF managerVars, vars
<1> QED
  BY <1>2, <1>3, <1>4, <1>5, <1>6, <1>7, <1>8, <1>9, <1>10, <1>11 DEF Next, ManagerStep

-----------------------------------------------------------------------------
(* The invariant                                                           *)

\* Before anything was collected.
LEMMA Initially == Init => ImportInv
<1> SUFFICES ASSUME Init PROVE ImportInv
  OBVIOUS
<1> USE DatasetAssumption DEF Init
<1>1. StoreInv
  <2>1. NoValues \in Rows
    BY DEF NoValues, Rows
  <2>2. metadata \in Metas /\ metadata.revision = 0
    BY DEF DatasetInit, NoMetadata, Metas
  <2> QED
    BY <2>1, <2>2 DEF DatasetInit, StoreInv
<1>2. ReadsInv /\ PollInv
  BY FreshReads DEF DatasetInit, ReadsInv, PollInv, Readers
<1>3. CacheInv /\ SnapshotInv
  BY DEF CoordinatorInit, CacheInv, SnapshotInv
<1>4. JobInv /\ KnownInv
  BY DEF JobInv, JobShape, ReadingInv, KnownInv, NoJob, Nothing
<1>5. RecorderInv
  BY DEF RecorderInv, RecorderMatches, NoJob, Nothing, NoHours
<1> QED
  BY <1>1, <1>2, <1>3, <1>4, <1>5 DEF ImportInv, DataInv

\* The invariant of the whole data path.
THEOREM ImportInvHolds == Spec => []ImportInv
<1>1. ImportInv /\ [Next]_vars => ImportInv'
  BY NextKeepsHours, NextKeepsRecorder DEF ImportInv
<1> QED
  BY Initially, <1>1, PTL DEF Spec

\* A read that completed returns exactly the rows of one revision, however
\* commits and attempts fell between its pages.
THEOREM ReadsAreOneRevisionHolds == Spec => []ReadsAreOneRevision
<1>1. ImportInv => ReadsAreOneRevision
  BY DEF ImportInv, DataInv, ReadsInv, ReadInv, Exactly, Published, ReadsAreOneRevision
<1> QED
  BY ImportInvHolds, <1>1, PTL

\* None of the checks of order, counts, ranges and page numbers turns away a
\* read that neither a commit nor an attempt disturbed.
THEOREM UndisturbedReadsSucceedHolds == Spec => []UndisturbedReadsSucceed
<1>1. ImportInv => UndisturbedReadsSucceed
  BY DEF ImportInv, DataInv, ReadsInv, ReadInv, Disturbed, UndisturbedReadsSucceed
<1> QED
  BY ImportInvHolds, <1>1, PTL

\* What listeners see is the status of one revision and all its rows of the
\* day before its data_timestamp, however the dataset changed between the two
\* requests.
THEOREM SnapshotIsOneRevisionHolds == Spec => []SnapshotIsOneRevision
<1>1. ImportInv => SnapshotIsOneRevision
  BY DEF ImportInv, DataInv, SnapshotInv, StatusOK, Committed, Exactly, Day,
         SnapshotIsOneRevision
<1> QED
  BY ImportInvHolds, <1>1, PTL

\* The hours believed imported are those of the revision believed imported,
\* for any number and size of windows, whatever was committed between them.
THEOREM HoursOfRevisionHolds == Spec => []HoursOfRevision
<1>1. ImportInv => HoursOfRevision
  BY DEF ImportInv, KnownInv, HoursOfRevision
<1> QED
  BY ImportInvHolds, <1>1, PTL

\* Between two imports the Recorder holds the cumulative sums of exactly those
\* hours, unless a clear timed out and no full rebuild followed.
THEOREM RecorderMatchesHolds == Spec => []RecorderMatches
<1>1. ImportInv => RecorderMatches
  BY DEF ImportInv, RecorderInv
<1> QED
  BY ImportInvHolds, <1>1, PTL
=============================================================================
