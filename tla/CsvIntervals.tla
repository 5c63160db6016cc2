---------------------------- MODULE CsvIntervals ----------------------------
(***************************************************************************)
(* parse_pnd_csv (cez_csv_parser.py): from the rows of one export to        *)
(* intervals identified by their UTC end, all of them or none.              *)
(*                                                                          *)
(* Instants and local times are numbers of quarter hours.  A day has Normal *)
(* of them; one transition of the source's clock, at Transition, moves it   *)
(* by shift: forward (Shift), back (-Shift) or not at all (0).  Energy is   *)
(* in quarters of a kWh, so that 1 kW over one interval is 1.               *)
(***************************************************************************)
EXTENDS Integers, FiniteSets, Sequences

CONSTANTS
  Normal,        \* intervals of a normal day: 96
  Shift,         \* intervals of an hour: 4
  Transition,    \* the instant of the clock change
  NoValue        \* no energy: a placeholder in a file, a record without a value

ASSUME DayAssumption == Normal \in Nat /\ Shift \in 1..Normal - 1 /\ Transition \in Nat
ASSUME ValueAssumption == NoValue \notin Nat

\* The clock changes within a day, by less than its distance to midnight.
ASSUME TransitionAssumption == Transition % Normal \in Shift + 1 .. Normal - Shift - 1

Channels == {"consumption", "production"}
Shifts == {-Shift, 0, Shift}

-----------------------------------------------------------------------------
(* The clock                                                               *)

Local(shift, instant) == IF instant < Transition THEN instant ELSE instant + shift

\* Each fold of the local time that is one of its readings: none in the hour
\* the clock skips, two in the hour it repeats.
Candidates(shift, local) == {instant \in {local, local - shift} : Local(shift, instant) = local}

Earlier(instants) == CHOOSE i \in instants : \A j \in instants : i <= j

Midnight(shift, day) == Earlier(Candidates(shift, day * Normal))
DayLength(shift, day) == Midnight(shift, day + 1) - Midnight(shift, day)

-----------------------------------------------------------------------------
(* The rows of a file                                                      *)

\* A row names its day and the end of its interval in it; 24:00 is Normal.
ValidTime(row) == row.slot \in 0..Normal
LocalEnd(row) == row.day * Normal + row.slot

Quality(row) ==
  IF row.status = "invalid" THEN "invalid"
  ELSE IF row.status = "missing" \/ row.value = NoValue THEN "missing"
  ELSE "valid"

Energy(row) ==
  IF Quality(row) # "valid" THEN NoValue
  ELSE IF row.unit = "kWh" THEN 4 * row.value ELSE row.value

RowAccepted(row) ==
  /\ ValidTime(row)
  /\ row.status \in {"valid", "missing", "invalid"}
  /\ Quality(row) = "valid" => row.value \in Nat /\ row.unit \in {"kWh", "kW"}

Measured(row) == [value |-> Energy(row), quality |-> Quality(row)]

Interval(end, row) ==
  [interval_end |-> end, value |-> Energy(row), quality |-> Quality(row), source_day |-> row.day]

\* Rows are grouped by their local time; a group is the places of its rows.
LocalEnds(rows) == {LocalEnd(rows[i]) : i \in DOMAIN rows}
Occurrences(rows, local) == {n \in DOMAIN rows : LocalEnd(rows[n]) = local}

-----------------------------------------------------------------------------
(* Normalization                                                           *)

\* One local time of a file: skipped hours have no reading; a time of the
\* repeated hour must occur exactly twice; any other may be repeated, but
\* always with the same measurement.
Unambiguous(shift, local, rows) ==
  LET candidates == Candidates(shift, local)
      occurrences == Occurrences(rows, local)
  IN  /\ candidates # {}
      /\ IF Cardinality(candidates) = 2
         THEN Cardinality(occurrences) = 2
         ELSE \A m, n \in occurrences : Measured(rows[m]) = Measured(rows[n])

Normalizable(shift, rows) ==
  \A local \in LocalEnds(rows) : Unambiguous(shift, local, rows)

IntervalEnds(shift, rows) == UNION {Candidates(shift, local) : local \in LocalEnds(rows)}

\* Mutated: both readings of a repeated local time take its first row.
FirstRowOf(shift, rows, instant) == rows[Earlier(Occurrences(rows, Local(shift, instant)))]

\* The two rows of a repeated local time belong to its readings in the order
\* of the file.
RowOf(shift, rows, instant) ==
  LET local == Local(shift, instant)
      first == Earlier(Occurrences(rows, local))
  IN  rows[IF instant = Earlier(Candidates(shift, local)) THEN first
           ELSE Earlier(Occurrences(rows, local) \ {first})]

Intervals(shift, rows) ==
  {Interval(instant, RowOf(shift, rows, instant)) : instant \in IntervalEnds(shift, rows)}

\* Every day that occurs has as many intervals as it has quarter hours.
DaysAreWhole(shift, intervals) ==
  \A day \in {interval.source_day : interval \in intervals} :
    /\ DayLength(shift, day) \in {Normal - Shift, Normal, Normal + Shift}
    /\ Cardinality({interval \in intervals : interval.source_day = day}) = DayLength(shift, day)

\* The file as a whole: its size, encoding, table and header, and the profile
\* of the channel, then its rows.
Accepted(shift, file, channel) ==
  /\ file.readable
  /\ file.profile = channel
  /\ file.rows # <<>>
  /\ \A i \in DOMAIN file.rows : RowAccepted(file.rows[i])
  /\ Normalizable(shift, file.rows)
  /\ DaysAreWhole(shift, Intervals(shift, file.rows))

=============================================================================
