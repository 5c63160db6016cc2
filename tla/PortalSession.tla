--------------------------- MODULE PortalSession ---------------------------
(***************************************************************************)
(* One synchronization cycle of the Collector against the CEZ portal:       *)
(* run_sync_cycle (sync_worker.py), run_data_probe and CezDataProbe.collect *)
(* (cez_data_probe.py) inside CezHttpAuthClient.authenticate                *)
(* (cez_http_auth.py), over a RequestsSessionTransport.                     *)
(*                                                                          *)
(* A request and the handling of its answer, up to the next request, is one *)
(* action.  session.state is the AuthState of the request that comes next,  *)
(* or a step that asks nothing.  The portal answers anything: it redirects  *)
(* anywhere, shows any page, refuses, stays silent until the deadline; its  *)
(* lists of meters are incomplete but true, and of the files it exports one *)
(* may have a wrong row or two rows in the other order.                     *)
(***************************************************************************)
EXTENDS CsvIntervals

CONSTANTS
  Eans, Meters,        \* the account's measuring points and their meters
  OurEan, OurMeter,    \* the point that is meant, and its meter
  Unknown,             \* an identifier that is not configured, or not listed
  MAX_REDIRECTS,
  FirstDay, LastDay,   \* the days a cycle asks for
  MaxRuns              \* bound on cycles

ASSUME BoundAssumption == MAX_REDIRECTS \in Nat /\ MaxRuns \in Nat

VARIABLES
  config,    \* the configured EAN and ELM
  clock,     \* how the clock of the source moves at Transition
  session,   \* the step, its host and redirects, and what was learned
  posts,     \* the requests that carried the credentials
  dataset,   \* what the last commit wrote
  outcome,   \* what the cycle reported
  runs,
  damaged    \* an export differed from the true one

vars == <<config, clock, session, posts, dataset, outcome, runs, damaged>>

-----------------------------------------------------------------------------
(* Destinations                                                            *)

LoginHosts == {"mepas", "dip"}
Hosts == LoginHosts \cup {"pnd", "elsewhere"}

DestinationContract ==
  [PREAUTH |-> LoginHosts \cup {"pnd"}, CREDENTIAL_FORM |-> LoginHosts,
   CREDENTIAL_SUBMISSION |-> LoginHosts, AUTH_REDIRECTS |-> LoginHosts \cup {"pnd"},
   DATA_PROBE_METADATA |-> {"pnd"}, DATA_PROBE_METERS |-> {"pnd"}, DATA_PROBE_EXPORT |-> {"pnd"}]

AuthStates == DOMAIN DestinationContract
MayAsk == session.state \in AuthStates /\ session.host \in DestinationContract[session.state]

-----------------------------------------------------------------------------
(* Meters: Owner tells which meter measures which point                    *)

CONSTANT Owner          \* [Meters -> Eans]
ASSUME RangeAssumption == FirstDay \in Nat /\ LastDay \in Nat /\ FirstDay <= LastDay
ASSUME OwnerAssumption == Owner \in [Meters -> Eans] /\ OurMeter \in Meters /\ OurEan = Owner[OurMeter]
ASSUME UnknownAssumption == Unknown \notin Eans \cup Meters

\* What the options may hold: one of the identifiers, or both, of which the
\* meter may be another's.
Configurations ==
  {[ean |-> OurEan, elm |-> Unknown]} \cup
  [ean : {OurEan, Unknown}, elm : Meters]

\* A true entry of a list: a meter and its point, or one of the two.
Entries ==
  {entry \in [ean : Eans \cup {Unknown}, elm : Meters \cup {Unknown}] :
     /\ entry.ean # Unknown \/ entry.elm # Unknown
     /\ entry.ean # Unknown /\ entry.elm # Unknown => Owner[entry.elm] = entry.ean}
Lists == UNION {[1..n -> Entries] : n \in 0..2}

Naming(entries, ean, elm) ==
  {i \in DOMAIN entries : entries[i].ean = ean /\ entries[i].elm = elm}
WithEan(entries) == {i \in DOMAIN entries : entries[i].ean = config.ean}
WithElm(entries) == {i \in DOMAIN entries : entries[i].elm = config.elm}

\* Mutated: a configured meter that is listed is taken, whatever its point.
SelectByMeter(entries) ==
  IF config.elm # Unknown
  THEN IF Cardinality(WithElm(entries)) = 1 THEN config.elm ELSE Unknown
  ELSE IF Cardinality(WithEan(entries)) = 1 THEN entries[CHOOSE i \in WithEan(entries) : TRUE].elm ELSE Unknown

\* The one meter a list identifies, if it does.
SelectMeter(entries) ==
  IF config.ean # Unknown /\ config.elm # Unknown
  THEN IF Cardinality(Naming(entries, config.ean, config.elm)) = 1 THEN config.elm ELSE Unknown
  ELSE IF config.ean # Unknown
  THEN IF Cardinality(WithEan(entries)) = 1 THEN entries[CHOOSE i \in WithEan(entries) : TRUE].elm ELSE Unknown
  ELSE IF Cardinality(WithElm(entries)) = 1 THEN config.elm ELSE Unknown

-----------------------------------------------------------------------------
(* Exports                                                                 *)

\* What a meter measured until an instant, in kWh.
Reading(meter, channel, instant) ==
  (instant % 2) + (IF channel = "production" THEN 2 ELSE 0) + (IF meter = OurMeter THEN 4 ELSE 0)

Instants == Midnight(clock, FirstDay) + 1..Midnight(clock, LastDay + 1)

\* The day whose interval ends at an instant.
DayOf(i) == (Local(clock, i - 1)) \div Normal

Rows(meter, channel) ==
  LET first == Midnight(clock, FirstDay) IN
    [n \in 1..Cardinality(Instants) |->
       LET i == first + n
           day == DayOf(i)
       IN  [day |-> day, slot |-> Local(clock, i) - day * Normal,
            value |-> Reading(meter, channel, i), unit |-> "kWh", status |-> "valid"]]

Without(rows, n) == SubSeq(rows, 1, n - 1) \o SubSeq(rows, n + 1, Len(rows))
With(rows, n, row) == [rows EXCEPT ![n] = row]
Relabelled(row, day, slot) == [row EXCEPT !.day = day, !.slot = slot]
Exchanged(rows, m, n) == [rows EXCEPT ![m] = rows[n], ![n] = rows[m]]

\* A row without a value, with one that cannot be read or in another unit, or
\* at any other time of any day, the midnights at both ends of a day included.
Misread(row) ==
  {[row EXCEPT !.value = NoValue],
   [row EXCEPT !.status = "unrecognized"],
   [row EXCEPT !.value = 4 * @, !.unit = "kW"],
   [row EXCEPT !.unit = "MWh"]}
  \cup {Relabelled(row, day, slot) : day \in 0..LastDay + 1, slot \in 0..Normal + 1}

\* The files that differ from the true one in one row - lost, repeated, stated
\* twice differently, misread or misplaced - or in the order of two.
Damaged(rows) ==
  UNION {
    {Without(rows, n), Append(rows, rows[n]), Append(rows, [rows[n] EXCEPT !.value = @ + 1])}
    \cup {With(rows, n, row) : row \in Misread(rows[n])}
    \cup {Exchanged(rows, m, n) : m \in DOMAIN rows}
    : n \in DOMAIN rows}

TrueFile(meter, channel) ==
  [readable |-> TRUE, profile |-> channel, rows |-> Rows(meter, channel)]

DamagedFiles(meter, channel) ==
  {[TrueFile(meter, channel) EXCEPT !.rows = rows] : rows \in Damaged(Rows(meter, channel))}
  \cup {[TrueFile(meter, channel) EXCEPT !.readable = FALSE]}
  \cup {[TrueFile(meter, channel) EXCEPT !.profile = other] : other \in Channels \ {channel}}

-----------------------------------------------------------------------------
(* The cycle                                                               *)

NoFile == [readable |-> FALSE, profile |-> "none", rows |-> <<>>]
NoFiles == [channel \in Channels |-> NoFile]
NoMeter == [elm |-> Unknown, mode |-> "none"]
NoSession ==
  [state |-> "IDLE", host |-> "pnd", hops |-> 0, meter |-> NoMeter,
   files |-> NoFiles, open |-> FALSE, evidence |-> FALSE, ok |-> FALSE]
NoDataset == [run |-> 0, meter |-> NoMeter, readings |-> [channel \in Channels |-> {}]]

To(state, host, hops) == [session EXCEPT !.state = state, !.host = host, !.hops = hops]
Ask(state) == [session EXCEPT !.state = state]
Failed == [session EXCEPT !.state = "CLEANUP", !.ok = FALSE]

Rest == <<config, clock, posts, dataset, outcome, runs, damaged>>

\* A transport is made and the attempt recorded.
Begin ==
  /\ session.state = "IDLE"
  /\ runs < MaxRuns
  /\ session' = [NoSession EXCEPT !.state = "PREAUTH", !.open = TRUE]
  /\ posts' = <<>>
  /\ outcome' = "none"
  /\ runs' = runs + 1
  /\ UNCHANGED <<config, clock, dataset, damaged>>

\* The attempt cannot be recorded: the cycle fails before it asks anything,
\* and leaves its transport open.
AttemptNotRecorded ==
  /\ session.state = "IDLE"
  /\ runs < MaxRuns
  /\ session' = [NoSession EXCEPT !.open = TRUE]
  /\ posts' = <<>>
  /\ outcome' = "failed"
  /\ runs' = runs + 1
  /\ UNCHANGED <<config, clock, dataset, damaged>>

Ends(states) == session.state \in states /\ session' = Failed /\ UNCHANGED Rest

\* What ends the session, but for the list of meters, which may be missing:
\* a destination that is not reviewed,
RequestRefused == ~MayAsk /\ Ends(AuthStates \ {"DATA_PROBE_METERS"})

\* no answer in time, or one beyond the limits of size and cookies,
RequestFails == MayAsk /\ Ends(AuthStates \ {"DATA_PROBE_METERS"})

\* a page without the one form that is expected, a dashboard that cannot be
\* used, or an answer that is not a file.
PageRejected == MayAsk /\ Ends({"PREAUTH", "CREDENTIAL_FORM"})
MetadataRejected == MayAsk /\ Ends({"DATA_PROBE_METADATA"})
ExportRejected == MayAsk /\ Ends({"DATA_PROBE_EXPORT"})

\* Mutated: redirects before the form are not counted.
StartRedirectedFreely(host) ==
  /\ session.state \in {"PREAUTH", "CREDENTIAL_FORM"}
  /\ MayAsk
  /\ session' = To(IF host \in LoginHosts THEN "CREDENTIAL_FORM" ELSE session.state,
                   host, session.hops)
  /\ UNCHANGED Rest

\* The start page leads on; once at a login host, the way back to the
\* application is closed.
StartRedirected(host) ==
  /\ session.state \in {"PREAUTH", "CREDENTIAL_FORM"}
  /\ MayAsk
  /\ session.hops < MAX_REDIRECTS
  /\ session' = To(IF host \in LoginHosts THEN "CREDENTIAL_FORM" ELSE session.state,
                   host, session.hops + 1)
  /\ UNCHANGED Rest

\* The page of a login host shows one form for credentials, and its action is
\* on the same host.
LoginForm(action) ==
  /\ session.state \in {"PREAUTH", "CREDENTIAL_FORM"}
  /\ MayAsk
  /\ session.host \in LoginHosts
  /\ action \in DestinationContract["CREDENTIAL_SUBMISSION"]
  /\ action = session.host
  /\ session' = To("CREDENTIAL_SUBMISSION", action, 0)
  /\ UNCHANGED Rest

\* An answer of the authentication: a redirect to follow, or the application.
Continues(host) ==
  /\ session.hops < MAX_REDIRECTS
  /\ session' = To("AUTH_REDIRECTS", host, session.hops + 1)

ApplicationReached ==
  /\ session.host = "pnd"
  /\ session' = To("DATA_PROBE_METADATA", "pnd", 0)

Answered == ApplicationReached \/ (\E host \in Hosts : Continues(host)) \/ session' = Failed

\* The credentials are sent, once.
Submit ==
  /\ session.state = "CREDENTIAL_SUBMISSION"
  /\ MayAsk
  /\ posts' = Append(posts, session.host)
  /\ Answered
  /\ UNCHANGED <<config, clock, dataset, outcome, runs, damaged>>

\* Mutated: a redirect is followed with the request that was redirected.
FollowWithCredentials ==
  /\ session.state = "AUTH_REDIRECTS"
  /\ MayAsk
  /\ posts' = Append(posts, session.host)
  /\ Answered
  /\ UNCHANGED <<config, clock, dataset, outcome, runs, damaged>>

FollowAuthRedirect ==
  /\ session.state = "AUTH_REDIRECTS"
  /\ MayAsk
  /\ Answered
  /\ UNCHANGED Rest

Verified(elm, mode) ==
  [Ask("DATA_PROBE_EXPORT") EXCEPT !.meter = [elm |-> elm, mode |-> mode]]

\* The dashboard names our meter, or the list of meters must be asked for.
MetadataReceived(entries) ==
  /\ session.state = "DATA_PROBE_METADATA"
  /\ MayAsk
  /\ session' = IF SelectMeter(entries) # Unknown
                THEN Verified(SelectMeter(entries), "metadata")
                ELSE Ask("DATA_PROBE_METERS")
  /\ UNCHANGED Rest

MetersReceived(entries) ==
  /\ session.state = "DATA_PROBE_METERS"
  /\ MayAsk
  /\ entries # <<>>
  /\ session' = IF SelectMeter(entries) # Unknown
                THEN Verified(SelectMeter(entries), "meter_api")
                ELSE Failed
  /\ UNCHANGED Rest

MetersUnavailable ==
  /\ session.state = "DATA_PROBE_METERS"
  /\ session' = IF config.elm # Unknown
                THEN Verified(config.elm, "configured_elm_fallback")
                ELSE Failed
  /\ UNCHANGED Rest

\* The exports are asked for one after the other, and read when both are here.
Exported == {channel \in Channels : session.files[channel] # NoFile}
NextExport == IF Exported = {} THEN "consumption" ELSE "production"

ExportReceived(file) ==
  /\ session.state = "DATA_PROBE_EXPORT"
  /\ MayAsk
  /\ session' = [session EXCEPT !.files[NextExport] = file,
                                !.state = IF NextExport = "production" THEN "COMMIT" ELSE @]
  /\ UNCHANGED <<config, clock, posts, dataset, outcome, runs>>

\* The portal exports the true file, or once a damaged one.
TrueExport ==
  /\ ExportReceived(TrueFile(session.meter.elm, NextExport))
  /\ UNCHANGED damaged

DamagedExport ==
  /\ session.state = "DATA_PROBE_EXPORT"
  /\ ~damaged
  /\ \E file \in DamagedFiles(session.meter.elm, NextExport) : ExportReceived(file)
  /\ damaged' = TRUE

Parsed == \A channel \in Channels : Accepted(clock, session.files[channel], channel)

\* Both files are read, then both are committed in one transaction.
CommitFiles ==
  /\ session.state = "COMMIT"
  /\ Parsed
  /\ dataset' = [run |-> runs, meter |-> session.meter,
                 readings |-> [channel \in Channels |-> Intervals(clock, session.files[channel].rows)]]
  /\ session' = [session EXCEPT !.state = "COMMITTED", !.files = NoFiles]
  /\ UNCHANGED <<config, clock, posts, outcome, runs, damaged>>

CommitFails ==
  /\ session.state = "COMMIT"
  /\ session' = [Failed EXCEPT !.files = NoFiles]
  /\ UNCHANGED Rest

\* The commit is announced, its evidence kept, and the current day compared;
\* a failed comparison is only reported.
CollectCompletes ==
  /\ session.state = "COMMITTED"
  /\ session' = [session EXCEPT !.state = "CLEANUP", !.evidence = TRUE, !.ok = TRUE]
  /\ UNCHANGED Rest

\* Announcing or completing fails, before or after the evidence was kept.
CollectFails(kept) ==
  /\ session.state = "COMMITTED"
  /\ session' = [Failed EXCEPT !.evidence = kept]
  /\ UNCHANGED Rest

\* Mutated: a session that cannot be closed is forgotten.
CleanupIgnored(closes) ==
  /\ session.state = "CLEANUP"
  /\ outcome' = IF session.ok /\ session.evidence THEN "success" ELSE "failed"
  /\ session' = [NoSession EXCEPT !.open = ~closes]
  /\ UNCHANGED <<config, clock, posts, dataset, runs, damaged>>

\* The session's state is destroyed and the cycle reports; a session that
\* cannot be closed has failed.
Cleanup(closes) ==
  /\ session.state = "CLEANUP"
  /\ outcome' = IF closes /\ session.ok /\ session.evidence THEN "success" ELSE "failed"
  /\ session' = [NoSession EXCEPT !.open = ~closes]
  /\ UNCHANGED <<config, clock, posts, dataset, runs, damaged>>

SessionInit ==
  /\ config \in Configurations
  /\ clock \in Shifts
  /\ session = NoSession
  /\ posts = <<>>
  /\ dataset = NoDataset
  /\ outcome = "none"
  /\ runs = 0
  /\ damaged = FALSE

Step ==
  \/ RequestRefused \/ RequestFails
  \/ PageRejected \/ MetadataRejected \/ ExportRejected
  \/ \E host \in Hosts : StartRedirected(host) \/ LoginForm(host)
  \/ Submit
  \/ FollowAuthRedirect
  \/ \E entries \in Lists : MetadataReceived(entries) \/ MetersReceived(entries)
  \/ MetersUnavailable
  \/ TrueExport
  \/ DamagedExport
  \/ CommitFiles
  \/ CommitFails
  \/ CollectCompletes
  \/ \E kept \in BOOLEAN : CollectFails(kept)
  \/ \E closes \in BOOLEAN : Cleanup(closes)

SessionNext == Begin \/ AttemptNotRecorded \/ Step

SessionSpec == SessionInit /\ [][SessionNext]_vars

\* Every request has a timeout, so the worker's thread always gets on.
FairSessionSpec == SessionSpec /\ WF_vars(Step)

-----------------------------------------------------------------------------
(* Properties                                                              *)

Steps == AuthStates \cup {"IDLE", "COMMIT", "COMMITTED", "CLEANUP"}

\* Every variable has its type; the steps after the export know their meter.
SessionTypeOK ==
  /\ config \in Configurations
  /\ clock \in Shifts
  /\ session.state \in Steps
  /\ session.host \in Hosts
  /\ session.hops \in 0..MAX_REDIRECTS
  /\ posts \in Seq(Hosts)
  /\ dataset.run \in 0..MaxRuns
  /\ outcome \in {"none", "success", "failed"}
  /\ runs \in 0..MaxRuns
  /\ damaged \in BOOLEAN

\* The credentials of a cycle leave in one request at most, to a login host:
\* wherever the portal redirects before or after, it is not sent again.
CredentialsGoOnce == Len(posts) <= 1 /\ \A n \in DOMAIN posts : posts[n] \in LoginHosts

\* The days asked for, or all but an interval of the first: its row, labelled
\* 00:00 of its own day, was taken for the last interval of the day before.
WholeButForMidnight(ends) ==
  \/ ends = Instants
  \/ \E hole \in Instants :
       /\ DayOf(hole) = FirstDay
       /\ ends = (Instants \ {hole}) \cup {Midnight(clock, FirstDay)}

Tells(reading, channel, instant) ==
  reading.quality = "valid" =>
    reading.value = 4 * Reading(dataset.meter.elm, channel, instant)

\* What one damaged row, or two rows in the other order, can do to a commit is
\* confined to two things: a row labelled 00:00 of the first day leaves a hole
\* in that day, and the two instants of a repeated local time may have each
\* other's measurement.  Any other damage, in any row, at a change of the clock
\* too, is refused or harmless: both channels of one meter are committed with
\* every interval of the days asked for, each with the measurement of its own
\* instant.
DamageIsConfined ==
  dataset.run # 0 =>
    \A channel \in Channels :
      LET readings == dataset.readings[channel] IN
        /\ WholeButForMidnight({reading.interval_end : reading \in readings})
        /\ \A reading \in readings :
             reading.interval_end \in Instants =>
               \E twin \in readings :
                 /\ Local(clock, twin.interval_end) = Local(clock, reading.interval_end)
                 /\ Tells(reading, channel, twin.interval_end)
                 /\ Tells(twin, channel, reading.interval_end)

\* What is committed is of the configured meter; and of the configured point,
\* unless the list of meters could not be had and the configured meter was
\* taken as it is.  Incomplete lists never make another meter ours.
MeterIsConfigured ==
  dataset.run # 0 =>
    /\ config.elm # Unknown => dataset.meter.elm = config.elm
    /\ config.ean # Unknown /\ dataset.meter.mode # "configured_elm_fallback" =>
         Owner[dataset.meter.elm] = config.ean

\* A cycle that reports success committed; one that left its transport open
\* reports a failure.
OutcomeIsTrue ==
  session.state = "IDLE" =>
    /\ outcome = "success" => dataset.run = runs
    /\ session.open => outcome = "failed"

\* Every cycle ends, wherever the portal redirects.
CycleEnds == session.state # "IDLE" ~> session.state = "IDLE"

=============================================================================
