------------------------ MODULE PortalSession_proof ------------------------
(***************************************************************************)
(* Proofs about PortalSession: where the credentials go, whose meter is     *)
(* committed, what damage an export can do, and what a cycle reports,       *)
(* for every portal, every list of meters and every number of redirects;    *)
(* and about the parser, CsvIntervals, for every length of the days and     *)
(* whenever the clock changes within one.                                   *)
(***************************************************************************)
EXTENDS PortalSession, FiniteSetTheorems, NaturalsInduction, WellFoundedInduction, TLAPS

\* A meter that may be exported: the configured one, of the configured point
\* unless it was taken without a list.
Chosen(meter) ==
  /\ config.elm # Unknown => meter.elm = config.elm
  /\ config.ean # Unknown /\ meter.mode # "configured_elm_fallback" =>
       Owner[meter.elm] = config.ean

\* The fields of a session; what its meter and its files hold is left open.
SessionShape ==
  session = [state |-> session.state, host |-> session.host, hops |-> session.hops,
             meter |-> session.meter, files |-> session.files, open |-> session.open,
             evidence |-> session.evidence, ok |-> session.ok]

\* Until the submission nothing was sent.
SubmittedOnce ==
  /\ posts \in Seq(LoginHosts)
  /\ Len(posts) <= 1
  /\ session.state \in {"PREAUTH", "CREDENTIAL_FORM", "CREDENTIAL_SUBMISSION"} => posts = <<>>

MeterChosen ==
  /\ session.state \in {"DATA_PROBE_EXPORT", "COMMIT"} => Chosen(session.meter)
  /\ dataset.run # 0 => Chosen(dataset.meter)

\* A session that went well is one whose commit is the last.
CommitOfThisRun ==
  session.state = "COMMITTED" \/ (session.state = "CLEANUP" /\ session.ok) => dataset.run = runs

SessionInv ==
  /\ SessionTypeOK
  /\ SessionShape
  /\ SubmittedOnce
  /\ MeterChosen
  /\ CommitOfThisRun
  /\ OutcomeIsTrue

-----------------------------------------------------------------------------
(* The choice of a meter                                                   *)

\* A set of one element has one.
LEMMA OneIsSome ==
  ASSUME NEW S, Cardinality(S) = 1
  PROVE  S # {}
  BY FS_EmptySet

\* An entry that names both a point and a meter names the meter of the point.
LEMMA EntriesTrue ==
  ASSUME NEW entries \in Lists, NEW i \in DOMAIN entries,
         entries[i].ean # Unknown, entries[i].elm # Unknown
  PROVE  Owner[entries[i].elm] = entries[i].ean
<1>1. PICK n \in 0..2 : entries \in [1..n -> Entries]
  BY DEF Lists
<1>2. entries[i] \in Entries
  BY <1>1
<1> QED
  BY <1>2 DEF Entries

\* Whatever a list leaves out, the meter it identifies is the configured one
\* and measures the configured point.
THEOREM SelectedIsChosen ==
  ASSUME NEW entries \in Lists, config \in Configurations, SelectMeter(entries) # Unknown,
         NEW mode
  PROVE  Chosen([elm |-> SelectMeter(entries), mode |-> mode])
<1> DEFINE elm == SelectMeter(entries)
<1>1. CASE config.ean # Unknown /\ config.elm # Unknown
  <2>1. elm = config.elm /\ Cardinality(Naming(entries, config.ean, config.elm)) = 1
    BY <1>1 DEF SelectMeter
  <2>2. PICK i \in DOMAIN entries : entries[i].ean = config.ean /\ entries[i].elm = config.elm
    BY <2>1, OneIsSome DEF Naming
  <2>3. Owner[config.elm] = config.ean
    BY <1>1, <2>2, EntriesTrue
  <2> QED
    BY <2>1, <2>3 DEF Chosen
<1>2. CASE config.ean # Unknown /\ config.elm = Unknown
  <2> DEFINE i == CHOOSE i \in WithEan(entries) : TRUE
  <2>1. elm = entries[i].elm /\ Cardinality(WithEan(entries)) = 1
    BY <1>2 DEF SelectMeter
  <2>2. i \in WithEan(entries)
    BY <2>1, OneIsSome
  <2>3. i \in DOMAIN entries /\ entries[i].ean = config.ean
    BY <2>2 DEF WithEan
  <2> HIDE DEF i
  <2>4. Owner[elm] = config.ean
    BY <1>2, <2>1, <2>3, EntriesTrue
  <2> QED
    BY <1>2, <2>4 DEF Chosen
<1>3. CASE config.ean = Unknown
  BY <1>3 DEF SelectMeter, Chosen
<1> QED
  BY <1>1, <1>2, <1>3

-----------------------------------------------------------------------------
(* The invariant                                                           *)

\* The states in which a request is made.
LEMMA AuthStatesAre ==
  AuthStates = {"PREAUTH", "CREDENTIAL_FORM", "CREDENTIAL_SUBMISSION", "AUTH_REDIRECTS",
                "DATA_PROBE_METADATA", "DATA_PROBE_METERS", "DATA_PROBE_EXPORT"}
  BY DEF AuthStates, DestinationContract

\* The credentials may go to the login hosts only.
LEMMA ContractOfSubmission ==
  DestinationContract["CREDENTIAL_SUBMISSION"] = LoginHosts /\ LoginHosts \subseteq Hosts
  BY DEF DestinationContract, Hosts

\* The empty sequence of requests.
LEMMA NothingSent == \A S : <<>> \in Seq(S) /\ Len(<<>>) = 0
  OBVIOUS

\* Before the first cycle.
THEOREM SessionInitially == SessionInit => SessionInv
<1> SUFFICES ASSUME SessionInit PROVE SessionInv
  OBVIOUS
<1> USE BoundAssumption DEF SessionInit, NoSession, NoDataset
<1>1. SessionTypeOK
  <2>1. posts \in Seq(Hosts)
    BY NothingSent
  <2>2. session.state \in Steps /\ session.host \in Hosts /\ session.hops \in 0..MAX_REDIRECTS
    BY DEF Steps, Hosts
  <2>3. dataset.run \in 0..MaxRuns /\ runs \in 0..MaxRuns
    OBVIOUS
  <2>4. damaged \in BOOLEAN /\ outcome \in {"none", "success", "failed"}
    OBVIOUS
  <2> QED
    BY <2>1, <2>2, <2>3, <2>4 DEF SessionTypeOK
<1>2. SubmittedOnce
  BY NothingSent DEF SubmittedOnce
<1>3. MeterChosen /\ CommitOfThisRun /\ SessionShape
  BY DEF MeterChosen, CommitOfThisRun, SessionShape
<1>4. OutcomeIsTrue
  BY DEF OutcomeIsTrue
<1> QED
  BY <1>1, <1>2, <1>3, <1>4 DEF SessionInv

\* A session that fails keeps what it sent and what was committed.
LEMMA FailingKeepsInv ==
  ASSUME SessionInv, session' = Failed, session.state # "IDLE", UNCHANGED Rest
  PROVE  SessionInv'
  BY DEF Failed, Rest, SessionInv, Steps,
      SessionTypeOK, SessionShape, SubmittedOnce, MeterChosen, Chosen, CommitOfThisRun,
      OutcomeIsTrue

\* Where an answer of the authentication leads.
LEMMA AnswerLeads ==
  ASSUME SessionInv, Answered
  PROVE  /\ session'.state \in {"AUTH_REDIRECTS", "DATA_PROBE_METADATA", "CLEANUP"}
         /\ session'.host \in Hosts
         /\ session'.hops \in 0..MAX_REDIRECTS
         /\ session'.state = "CLEANUP" => session'.ok = FALSE
         /\ SessionShape'
<1> USE BoundAssumption DEF SessionInv, SessionTypeOK, SessionShape
<1>1. CASE ApplicationReached
  <2>1. session' = [session EXCEPT !.state = "DATA_PROBE_METADATA", !.host = "pnd", !.hops = 0]
    BY <1>1 DEF ApplicationReached, To
  <2>2. /\ session'.state = "DATA_PROBE_METADATA" /\ session'.host = "pnd" /\ session'.hops = 0
        /\ SessionShape'
    BY <2>1
  <2> QED
    BY <2>2 DEF Hosts
<1>2. CASE \E host \in Hosts : Continues(host)
  <2>1. PICK host \in Hosts :
          /\ session.hops < MAX_REDIRECTS
          /\ session' = [session EXCEPT !.state = "AUTH_REDIRECTS", !.host = host,
                                        !.hops = session.hops + 1]
    BY <1>2 DEF Continues, To
  <2>2. /\ session'.state = "AUTH_REDIRECTS" /\ session'.host = host
        /\ session'.hops = session.hops + 1
        /\ SessionShape'
    BY <2>1
  <2>3. session.hops + 1 \in 0..MAX_REDIRECTS
    BY <2>1
  <2> QED
    BY <2>2, <2>3
<1>3. CASE session' = Failed
  BY <1>3 DEF Failed
<1> QED
  BY <1>1, <1>2, <1>3 DEF Answered

\* One case per action of the cycle.
LEMMA StepKeepsSessionInv ==
  ASSUME SessionInv, [SessionNext]_vars
  PROVE  SessionInv'
<1> USE BoundAssumption, AuthStatesAre, ContractOfSubmission DEF SessionInv
<1>1. CASE Begin
  <2>1. session'.state # "COMMITTED" /\ session'.state # "CLEANUP" /\ SessionShape'
    BY <1>1 DEF Begin, NoSession, SessionShape
  <2>2. posts' \in Seq(Hosts) /\ SubmittedOnce'
    BY <1>1, NothingSent DEF Begin, SubmittedOnce
  <2>3. SessionTypeOK'
    BY <1>1, <2>2 DEF Begin, NoSession, Hosts, Steps, SessionTypeOK
  <2>4. MeterChosen'
    BY <1>1 DEF Begin, NoSession, MeterChosen, Chosen
  <2>5. OutcomeIsTrue'
    BY <1>1 DEF Begin, NoSession, OutcomeIsTrue
  <2> QED
    BY <2>1, <2>2, <2>3, <2>4, <2>5 DEF CommitOfThisRun
<1>2. CASE AttemptNotRecorded
  <2>1. session'.state # "COMMITTED" /\ session'.state # "CLEANUP" /\ SessionShape'
    BY <1>2 DEF AttemptNotRecorded, NoSession, SessionShape
  <2>2. posts' \in Seq(Hosts) /\ SubmittedOnce'
    BY <1>2, NothingSent DEF AttemptNotRecorded, SubmittedOnce
  <2>3. SessionTypeOK'
    BY <1>2, <2>2 DEF AttemptNotRecorded, NoSession, Hosts, Steps, SessionTypeOK
  <2>4. MeterChosen'
    BY <1>2 DEF AttemptNotRecorded, NoSession, MeterChosen, Chosen
  <2>5. OutcomeIsTrue'
    BY <1>2 DEF AttemptNotRecorded, NoSession, OutcomeIsTrue
  <2> QED
    BY <2>1, <2>2, <2>3, <2>4, <2>5 DEF CommitOfThisRun
<1>3. CASE RequestRefused \/ RequestFails \/ PageRejected \/ MetadataRejected \/ ExportRejected
  <2>1. session' = Failed /\ UNCHANGED Rest /\ session.state # "IDLE"
    BY <1>3 DEF RequestRefused, RequestFails, PageRejected, MetadataRejected, ExportRejected, Ends
  <2> QED
    BY <2>1, FailingKeepsInv
<1>4. CASE \E host \in Hosts : StartRedirected(host)
  <2>1. SessionTypeOK'
    BY <1>4 DEF StartRedirected, To, Rest, Steps, SessionTypeOK
  <2>2. SessionShape'
    BY <1>4 DEF StartRedirected, To, Rest, Steps, SessionShape, SessionTypeOK
  <2>3. SubmittedOnce'
    BY <1>4 DEF StartRedirected, To, Rest, Steps, SessionShape, SessionTypeOK, SubmittedOnce
  <2>4. MeterChosen'
    BY <1>4 DEF StartRedirected, To, Rest, Steps, SessionShape, MeterChosen, Chosen
  <2>5. (CommitOfThisRun /\ OutcomeIsTrue)'
    BY <1>4 DEF StartRedirected, To, Rest, Steps, SessionShape, CommitOfThisRun, OutcomeIsTrue
  <2> QED
    BY <2>1, <2>2, <2>3, <2>4, <2>5
<1>5. CASE \E host \in Hosts : LoginForm(host)
  <2>1. SessionTypeOK'
    BY <1>5 DEF LoginForm, To, Rest, Steps, SessionTypeOK
  <2>2. SessionShape'
    BY <1>5 DEF LoginForm, To, Rest, Steps, SessionShape, SessionTypeOK
  <2>3. SubmittedOnce'
    BY <1>5 DEF LoginForm, To, Rest, Steps, SessionShape, SessionTypeOK, SubmittedOnce
  <2>4. MeterChosen'
    BY <1>5 DEF LoginForm, To, Rest, Steps, SessionShape, MeterChosen, Chosen
  <2>5. (CommitOfThisRun /\ OutcomeIsTrue)'
    BY <1>5 DEF LoginForm, To, Rest, Steps, SessionShape, CommitOfThisRun, OutcomeIsTrue
  <2> QED
    BY <2>1, <2>2, <2>3, <2>4, <2>5
<1>6. CASE Submit
  <2> USE DEF Submit
  <2>1. /\ session'.state \in {"AUTH_REDIRECTS", "DATA_PROBE_METADATA", "CLEANUP"}
        /\ session'.host \in Hosts
        /\ session'.hops \in 0..MAX_REDIRECTS
        /\ session'.state = "CLEANUP" => session'.ok = FALSE
        /\ SessionShape'
    BY <1>6, AnswerLeads
  <2>2. session.host \in LoginHosts /\ posts = <<>>
    BY <1>6 DEF MayAsk, SubmittedOnce
  <2>3. posts' \in Seq(LoginHosts) /\ posts' \in Seq(Hosts) /\ Len(posts') <= 1
    BY <1>6, <2>2
  <2>4. SessionTypeOK'
    BY <1>6, <2>1, <2>3 DEF Rest, Steps, SessionTypeOK
  <2>5. SubmittedOnce'
    BY <2>1, <2>3 DEF SubmittedOnce
  <2>6. MeterChosen'
    BY <1>6, <2>1 DEF Rest, MeterChosen, Chosen
  <2>7. CommitOfThisRun' /\ OutcomeIsTrue'
    BY <2>1 DEF CommitOfThisRun, OutcomeIsTrue
  <2> QED
    BY <2>1, <2>4, <2>5, <2>6, <2>7
<1>7. CASE FollowAuthRedirect
  <2> USE DEF FollowAuthRedirect
  <2>1. /\ session'.state \in {"AUTH_REDIRECTS", "DATA_PROBE_METADATA", "CLEANUP"}
        /\ session'.host \in Hosts
        /\ session'.hops \in 0..MAX_REDIRECTS
        /\ session'.state = "CLEANUP" => session'.ok = FALSE
        /\ SessionShape'
    BY <1>7, AnswerLeads
  <2>3. posts' \in Seq(LoginHosts) /\ posts' \in Seq(Hosts) /\ Len(posts') <= 1
    BY <1>7 DEF Rest, SubmittedOnce, SessionTypeOK
  <2>4. SessionTypeOK'
    BY <1>7, <2>1, <2>3 DEF Rest, Steps, SessionTypeOK
  <2>5. SubmittedOnce'
    BY <2>1, <2>3 DEF SubmittedOnce
  <2>6. MeterChosen'
    BY <1>7, <2>1 DEF Rest, MeterChosen, Chosen
  <2>7. CommitOfThisRun' /\ OutcomeIsTrue'
    BY <2>1 DEF CommitOfThisRun, OutcomeIsTrue
  <2> QED
    BY <2>1, <2>4, <2>5, <2>6, <2>7
<1>8. CASE \E entries \in Lists : MetadataReceived(entries)
  <2>1. PICK entries \in Lists : MetadataReceived(entries)
    BY <1>8
  <2>2. CASE SelectMeter(entries) # Unknown
    <3> DEFINE elm == SelectMeter(entries)
    <3>1. Chosen([elm |-> elm, mode |-> "metadata"])
      BY <2>2, SelectedIsChosen DEF SessionTypeOK
    <3>2. session' = [session EXCEPT !.state = "DATA_PROBE_EXPORT",
                                     !.meter = [elm |-> elm, mode |-> "metadata"]]
      BY <2>1, <2>2 DEF MetadataReceived, Verified, Ask, SessionShape
    <3> HIDE DEF elm
    <3>3. /\ UNCHANGED Rest
          /\ session.state \in {"DATA_PROBE_METADATA", "DATA_PROBE_METERS"}
      BY <2>1 DEF MetadataReceived
    <3> QED
      BY <3>1, <3>2, <3>3
      DEF Rest, Steps, SessionTypeOK, SessionShape, SubmittedOnce, MeterChosen, Chosen, CommitOfThisRun,
          OutcomeIsTrue
  <2>3. CASE SelectMeter(entries) = Unknown
    BY <2>1, <2>3
    DEF MetadataReceived, Ask, Failed, Rest, Steps, SessionTypeOK, SessionShape, SubmittedOnce, MeterChosen, Chosen, CommitOfThisRun,
        OutcomeIsTrue
  <2> QED
    BY <2>2, <2>3
<1>9. CASE \E entries \in Lists : MetersReceived(entries)
  <2>1. PICK entries \in Lists : MetersReceived(entries)
    BY <1>9
  <2>2. CASE SelectMeter(entries) # Unknown
    <3> DEFINE elm == SelectMeter(entries)
    <3>1. Chosen([elm |-> elm, mode |-> "meter_api"])
      BY <2>2, SelectedIsChosen DEF SessionTypeOK
    <3>2. session' = [session EXCEPT !.state = "DATA_PROBE_EXPORT",
                                     !.meter = [elm |-> elm, mode |-> "meter_api"]]
      BY <2>1, <2>2 DEF MetersReceived, Verified, Ask, SessionShape
    <3> HIDE DEF elm
    <3>3. /\ UNCHANGED Rest
          /\ session.state \in {"DATA_PROBE_METADATA", "DATA_PROBE_METERS"}
      BY <2>1 DEF MetersReceived
    <3> QED
      BY <3>1, <3>2, <3>3
      DEF Rest, Steps, SessionTypeOK, SessionShape, SubmittedOnce, MeterChosen, Chosen, CommitOfThisRun,
          OutcomeIsTrue
  <2>3. CASE SelectMeter(entries) = Unknown
    BY <2>1, <2>3
    DEF MetersReceived, Ask, Failed, Rest, Steps, SessionTypeOK, SessionShape, SubmittedOnce, MeterChosen, Chosen, CommitOfThisRun,
        OutcomeIsTrue
  <2> QED
    BY <2>2, <2>3
<1>10. CASE MetersUnavailable
  BY <1>10
  DEF MetersUnavailable, Verified, Ask, Failed, Rest, Steps,
      SessionTypeOK, SessionShape, SubmittedOnce, MeterChosen, Chosen, CommitOfThisRun,
      OutcomeIsTrue
<1>11. CASE TrueExport
  BY <1>11
  DEF TrueExport, ExportReceived, Steps,
      SessionTypeOK, SessionShape, SubmittedOnce, MeterChosen, Chosen, CommitOfThisRun,
      OutcomeIsTrue
<1>12. CASE DamagedExport
  BY <1>12
  DEF DamagedExport, ExportReceived, Steps,
      SessionTypeOK, SessionShape, SubmittedOnce, MeterChosen, Chosen, CommitOfThisRun,
      OutcomeIsTrue
<1>13. CASE CommitFiles
  BY <1>13
  DEF CommitFiles, Steps,
      SessionTypeOK, SessionShape, SubmittedOnce, MeterChosen, Chosen, CommitOfThisRun,
      OutcomeIsTrue
<1>14. CASE CommitFails
  BY <1>14
  DEF CommitFails, Failed, Rest, Steps,
      SessionTypeOK, SessionShape, SubmittedOnce, MeterChosen, Chosen, CommitOfThisRun,
      OutcomeIsTrue
<1>15. CASE CollectCompletes
  BY <1>15
  DEF CollectCompletes, Rest, Steps,
      SessionTypeOK, SessionShape, SubmittedOnce, MeterChosen, Chosen, CommitOfThisRun,
      OutcomeIsTrue
<1>16. CASE \E kept \in BOOLEAN : CollectFails(kept)
  BY <1>16
  DEF CollectFails, Failed, Rest, Steps,
      SessionTypeOK, SessionShape, SubmittedOnce, MeterChosen, Chosen, CommitOfThisRun,
      OutcomeIsTrue
<1>17. CASE \E closes \in BOOLEAN : Cleanup(closes)
  <2>1. SessionTypeOK'
    BY <1>17 DEF Cleanup, NoSession, Steps, Hosts, LoginHosts, SessionTypeOK
  <2>2. SessionShape'
    BY <1>17 DEF Cleanup, NoSession, Steps, Hosts, LoginHosts, SessionShape, SessionTypeOK
  <2>3. SubmittedOnce'
    BY <1>17 DEF Cleanup, NoSession, Steps, Hosts, LoginHosts, SessionShape, SessionTypeOK, SubmittedOnce
  <2>4. MeterChosen'
    BY <1>17 DEF Cleanup, NoSession, Steps, Hosts, LoginHosts, SessionShape, MeterChosen, Chosen
  <2>5. (CommitOfThisRun /\ OutcomeIsTrue)'
    BY <1>17 DEF Cleanup, NoSession, Steps, Hosts, LoginHosts, SessionShape, CommitOfThisRun, OutcomeIsTrue
  <2> QED
    BY <2>1, <2>2, <2>3, <2>4, <2>5
<1>18. CASE UNCHANGED vars
  BY <1>18
  DEF vars,
      SessionTypeOK, SessionShape, SubmittedOnce, MeterChosen, Chosen, CommitOfThisRun,
      OutcomeIsTrue
<1> QED
  BY <1>1, <1>2, <1>3, <1>4, <1>5, <1>6, <1>7, <1>8, <1>9,
     <1>10, <1>11, <1>12, <1>13, <1>14, <1>15, <1>16, <1>17, <1>18
  DEF SessionNext, Step

\* The invariant, whatever the portal answers.
THEOREM SessionInvHolds == SessionSpec => []SessionInv
<1>1. SessionInv /\ [SessionNext]_vars => SessionInv'
  BY StepKeepsSessionInv
<1> QED
  BY SessionInitially, <1>1, PTL DEF SessionSpec

\* Every variable keeps its type.
THEOREM SessionTypeCorrect == SessionSpec => []SessionTypeOK
<1>1. SessionInv => SessionTypeOK
  BY DEF SessionInv
<1> QED
  BY SessionInvHolds, <1>1, PTL

\* The credentials of a cycle leave in one request at most, to a login host,
\* wherever and however often the portal redirects.
THEOREM CredentialsGoOnceHolds == SessionSpec => []CredentialsGoOnce
<1>1. SessionInv => CredentialsGoOnce
  BY DEF SessionInv, SubmittedOnce, CredentialsGoOnce
<1> QED
  BY SessionInvHolds, <1>1, PTL

\* What is committed is of the configured meter, and of the configured point
\* unless the meter was taken without a list.
THEOREM MeterIsConfiguredHolds == SessionSpec => []MeterIsConfigured
<1>1. SessionInv => MeterIsConfigured
  BY DEF SessionInv, MeterChosen, Chosen, MeterIsConfigured
<1> QED
  BY SessionInvHolds, <1>1, PTL

\* A cycle that reports success committed, and one that left its transport
\* open reports a failure.
THEOREM OutcomeIsTrueHolds == SessionSpec => []OutcomeIsTrue
<1>1. SessionInv => OutcomeIsTrue
  BY DEF SessionInv
<1> QED
  BY SessionInvHolds, <1>1, PTL

-----------------------------------------------------------------------------
(* The clock                                                               *)

\* Midnights are in the order of their days, a day apart.
LEMMA DaysApart ==
  ASSUME NEW a \in Nat, NEW b \in Nat
  PROVE  /\ a * Normal \in Nat
         /\ (a + 1) * Normal = a * Normal + Normal
         /\ a < b => (a + 1) * Normal <= b * Normal
<1>1. Normal \in Nat /\ a * Normal \in Nat /\ (a + 1) * Normal = a * Normal + Normal
  BY DayAssumption
<1>2. ASSUME a < b PROVE (a + 1) * Normal <= b * Normal
  <2>1. PICK c \in Nat : b = a + 1 + c
    <3>1. b - (a + 1) \in Nat /\ b = a + 1 + (b - (a + 1))
      BY <1>2
    <3> QED
      BY <3>1
  <2>2. b * Normal = (a + 1) * Normal + c * Normal /\ c * Normal \in Nat
    BY <1>1, <2>1
  <2> QED
    BY <1>1, <2>2
<1> QED
  BY <1>1, <1>2

\* No midnight is near the change of the clock.
LEMMA MidnightIsApart ==
  ASSUME NEW day \in Nat
  PROVE  \/ day * Normal < Transition - Shift
         \/ day * Normal > Transition + Shift
<1> DEFINE q == Transition \div Normal
           r == Transition % Normal
<1>1. q \in Nat /\ r \in Nat /\ Transition = q * Normal + r
  BY DayAssumption
<1>2. r >= Shift + 1 /\ r <= Normal - Shift - 1
  BY TransitionAssumption, DayAssumption
<1> HIDE DEF q, r
<1>3. CASE day <= q
  <2>1. day * Normal <= q * Normal
    BY <1>1, <1>3, DaysApart, DayAssumption
  <2> QED
    BY <1>1, <1>2, <2>1, DaysApart, DayAssumption
<1>4. CASE q < day
  <2>1. q * Normal + Normal <= day * Normal
    BY <1>1, <1>4, DaysApart
  <2> QED
    BY <1>1, <1>2, <2>1, DaysApart, DayAssumption
<1> QED
  BY <1>1, <1>3, <1>4

\* The numbers of the clock.
LEMMA ClockIs ==
  /\ Normal \in Nat /\ Shift \in Nat /\ Transition \in Nat
  /\ 1 <= Shift /\ 2 * Shift + 2 <= Normal
  /\ \A shift \in Shifts : shift \in Int /\ shift \in {-Shift, 0, Shift}
<1>1. \A m \in Shift + 1 .. Normal - Shift - 1 : 2 * Shift + 2 <= Normal
  BY DayAssumption
<1> QED
  BY <1>1, DayAssumption, TransitionAssumption DEF Shifts

\* The readings of a local time; an instant is one of the readings of its own.
LEMMA ReadingsAre ==
  ASSUME NEW shift \in Shifts, NEW i \in Int
  PROVE  /\ Local(shift, i) \in Int
         /\ \A local \in Int : i \in Candidates(shift, local) <=> Local(shift, i) = local
         /\ i \in Candidates(shift, Local(shift, i))
         /\ Candidates(shift, i) \subseteq Int
  BY ClockIs DEF Local, Candidates

\* The least of some instants.
LEMMA EarlierIs ==
  ASSUME NEW S, NEW a \in S, \A b \in S : b \in Int /\ a <= b
  PROVE  Earlier(S) = a
<1>1. \A i \in S : (\A j \in S : i <= j) => i = a
  BY Z3
<1> QED
  BY <1>1 DEF Earlier

\* There is no choice of one.
LEMMA EarlierOfOne ==
  ASSUME NEW a \in Int
  PROVE  Earlier({a}) = a
<1>1. a \in {a} /\ \A b \in {a} : b \in Int /\ a <= b
  OBVIOUS
<1> QED
  BY <1>1, EarlierIs

\* A midnight has one reading.
LEMMA MidnightIs ==
  ASSUME NEW shift \in Shifts, NEW day \in Nat
  PROVE  LET midnight == IF day * Normal < Transition THEN day * Normal ELSE day * Normal - shift IN
         /\ Midnight(shift, day) = midnight
         /\ Candidates(shift, day * Normal) = {midnight}
         /\ midnight \in Nat
         /\ Local(shift, midnight) = day * Normal
<1> DEFINE midnight == IF day * Normal < Transition THEN day * Normal ELSE day * Normal - shift
<1>1. day * Normal \in Nat
  BY DaysApart
<1>2. day * Normal < Transition - Shift \/ day * Normal > Transition + Shift
  BY MidnightIsApart
<1>3. Candidates(shift, day * Normal) = {midnight}
  BY <1>1, <1>2, ClockIs DEF Candidates, Local
<1>4. midnight \in Nat /\ Local(shift, midnight) = day * Normal
  BY <1>1, <1>2, ClockIs DEF Local
<1>5. Midnight(shift, day) = midnight
  <2> HIDE DEF midnight
  <2>1. Earlier({midnight}) = midnight
    BY <1>4, EarlierOfOne
  <2> QED
    BY <1>3, <2>1 DEF Midnight
<1> QED
  BY <1>3, <1>4, <1>5

-----------------------------------------------------------------------------
(* Days                                                                    *)

\* The quarter hours of a day, by their ends.
Day(shift, day) == Midnight(shift, day) + 1..Midnight(shift, day + 1)

\* A day is as long as the clock leaves it, and never shorter than three
\* intervals.
LEMMA DayIs ==
  ASSUME NEW shift \in Shifts, NEW day \in Nat
  PROVE  /\ Midnight(shift, day) \in Nat /\ Midnight(shift, day + 1) \in Nat
         /\ Midnight(shift, day) + 3 <= Midnight(shift, day + 1)
         /\ Day(shift, day) \subseteq Nat /\ IsFiniteSet(Day(shift, day))
         /\ Cardinality(Day(shift, day)) = DayLength(shift, day)
         /\ DayLength(shift, day) \in Nat
<1>1. day + 1 \in Nat /\ day * Normal \in Nat /\ (day + 1) * Normal = day * Normal + Normal
  BY DaysApart
<1>2. /\ Midnight(shift, day) = IF day * Normal < Transition THEN day * Normal ELSE day * Normal - shift
      /\ Midnight(shift, day) \in Nat
  BY MidnightIs
<1>3. /\ Midnight(shift, day + 1) =
           IF (day + 1) * Normal < Transition THEN (day + 1) * Normal ELSE (day + 1) * Normal - shift
      /\ Midnight(shift, day + 1) \in Nat
  BY <1>1, MidnightIs
<1>4. Midnight(shift, day) + 3 <= Midnight(shift, day + 1)
  BY <1>1, <1>2, <1>3, ClockIs
<1> DEFINE a == Midnight(shift, day)
           b == Midnight(shift, day + 1)
<1>5. a \in Nat /\ b \in Nat /\ a + 3 <= b
  BY <1>2, <1>3, <1>4
<1> HIDE DEF a, b
<1>6. IsFiniteSet(a + 1..b) /\ Cardinality(a + 1..b) = b - a /\ a + 1..b \subseteq Nat
  BY <1>5, FS_Interval
<1> QED
  BY <1>5, <1>6 DEF a, b, Day, DayLength

\* Midnights ascend.
LEMMA MidnightsAscend ==
  ASSUME NEW shift \in Shifts, NEW a \in Nat, NEW b \in Nat, a <= b
  PROVE  Midnight(shift, a) <= Midnight(shift, b)
<1>1. a * Normal \in Nat /\ b * Normal \in Nat /\ (a = b \/ (a * Normal + Normal <= b * Normal))
  BY DaysApart
<1>2. /\ Midnight(shift, a) = IF a * Normal < Transition THEN a * Normal ELSE a * Normal - shift
      /\ Midnight(shift, b) = IF b * Normal < Transition THEN b * Normal ELSE b * Normal - shift
      /\ Midnight(shift, a) \in Nat
  BY MidnightIs
<1> QED
  BY <1>1, <1>2, ClockIs

\* The quotient by Normal.
LEMMA DayOfTime ==
  ASSUME NEW t \in Nat, NEW day \in Nat
  PROVE  /\ t \div Normal \in Nat
         /\ t \div Normal = day <=> day * Normal <= t /\ t < (day + 1) * Normal
<1> DEFINE q == t \div Normal
           r == t % Normal
<1>1. q \in Nat /\ r \in 0..Normal - 1 /\ t = q * Normal + r
  BY ClockIs
<1> HIDE DEF q, r
<1>2. q * Normal \in Nat /\ (q + 1) * Normal = q * Normal + Normal
  BY <1>1, DaysApart
<1>3. day * Normal \in Nat /\ (day + 1) * Normal = day * Normal + Normal
  BY DaysApart
<1>4. q < day => (q + 1) * Normal <= day * Normal
  BY <1>1, DaysApart
<1>5. day < q => (day + 1) * Normal <= q * Normal
  BY <1>1, DaysApart
<1>6. q = day <=> day * Normal <= t /\ t < (day + 1) * Normal
  BY <1>1, <1>2, <1>3, <1>4, <1>5, ClockIs
<1> QED
  BY <1>1, <1>6 DEF q

\* The local times after a midnight and up to the next are those of the ends
\* of the day between them.
LEMMA TimesOfDay ==
  ASSUME NEW shift \in Shifts, NEW day \in Nat, NEW i \in Int
  PROVE  i \in Day(shift, day) <=> day * Normal < Local(shift, i) /\ Local(shift, i) <= (day + 1) * Normal
<1>1. day + 1 \in Nat /\ day * Normal \in Nat /\ (day + 1) * Normal = day * Normal + Normal
  BY DaysApart
<1>2. /\ Midnight(shift, day) = IF day * Normal < Transition THEN day * Normal ELSE day * Normal - shift
      /\ Midnight(shift, day) \in Nat
  BY MidnightIs
<1>3. /\ Midnight(shift, day + 1) =
           IF (day + 1) * Normal < Transition THEN (day + 1) * Normal ELSE (day + 1) * Normal - shift
      /\ Midnight(shift, day + 1) \in Nat
  BY <1>1, MidnightIs
<1>4. day * Normal < Transition - Shift \/ day * Normal > Transition + Shift
  BY MidnightIsApart
<1>5. (day + 1) * Normal < Transition - Shift \/ (day + 1) * Normal > Transition + Shift
  BY <1>1, MidnightIsApart
<1>6. i \in Day(shift, day) <=> Midnight(shift, day) < i /\ i <= Midnight(shift, day + 1)
  BY <1>2, <1>3 DEF Day
<1>7. Midnight(shift, day) < i <=> day * Normal < Local(shift, i)
  BY <1>1, <1>2, <1>4, ClockIs DEF Local
<1>8. i <= Midnight(shift, day + 1) <=> Local(shift, i) <= (day + 1) * Normal
  BY <1>1, <1>3, <1>5, ClockIs DEF Local
<1> QED
  BY <1>6, <1>7, <1>8

\* The day of an interval is the one its end falls into.
LEMMA DayOfIs ==
  ASSUME clock \in Shifts, NEW day \in Nat, NEW i \in Day(clock, day)
  PROVE  DayOf(i) = day
<1>1. day + 1 \in Nat /\ day * Normal \in Nat /\ (day + 1) * Normal = day * Normal + Normal
  BY DaysApart
<1>2. /\ Midnight(clock, day) = IF day * Normal < Transition THEN day * Normal ELSE day * Normal - clock
      /\ Midnight(clock, day) \in Nat
  BY MidnightIs
<1>3. /\ Midnight(clock, day + 1) =
           IF (day + 1) * Normal < Transition THEN (day + 1) * Normal ELSE (day + 1) * Normal - clock
      /\ Midnight(clock, day + 1) \in Nat
  BY <1>1, MidnightIs
<1>4. day * Normal < Transition - Shift \/ day * Normal > Transition + Shift
  BY MidnightIsApart
<1>5. (day + 1) * Normal < Transition - Shift \/ (day + 1) * Normal > Transition + Shift
  BY <1>1, MidnightIsApart
<1>6. i \in Nat /\ Midnight(clock, day) <= i - 1 /\ i - 1 < Midnight(clock, day + 1)
  BY <1>2, <1>3 DEF Day
<1>7. day * Normal <= Local(clock, i - 1) /\ Local(clock, i - 1) < (day + 1) * Normal
  BY <1>1, <1>2, <1>3, <1>4, <1>5, <1>6, ClockIs DEF Local
<1>8. Local(clock, i - 1) \in Nat
  BY <1>1, <1>6, <1>7, ReadingsAre
<1> QED
  BY <1>7, <1>8, DayOfTime DEF DayOf

\* Another reading of the local time of an interval is in the same day.
LEMMA ReadingsShareDay ==
  ASSUME NEW shift \in Shifts, NEW day \in Nat, NEW i \in Day(shift, day),
         NEW j \in Candidates(shift, Local(shift, i))
  PROVE  j \in Day(shift, day) /\ Local(shift, j) = Local(shift, i)
<1>1. i \in Int
  BY DayIs
<1>2. j \in Int /\ Local(shift, j) = Local(shift, i)
  BY <1>1, ReadingsAre DEF Candidates
<1> QED
  BY <1>1, <1>2, TimesOfDay

\* One reading or two.
LEMMA OneOrTwoReadings ==
  ASSUME NEW shift \in Shifts, NEW i \in Int, NEW j \in Int, i < j, Local(shift, i) = Local(shift, j)
  PROVE  /\ Candidates(shift, Local(shift, i)) = {i, j}
         /\ Cardinality(Candidates(shift, Local(shift, i))) = 2
         /\ Earlier(Candidates(shift, Local(shift, i))) = i
<1>1. Candidates(shift, Local(shift, i)) = {i, j}
  BY ClockIs DEF Local, Candidates
<1>2. IsFiniteSet({i}) /\ Cardinality({i}) = 1
  BY FS_Singleton
<1>3. j \notin {i}
  OBVIOUS
<1>4. Cardinality({i} \cup {j}) = 1 + 1
  BY <1>2, <1>3, FS_AddElement
<1>5. {i} \cup {j} = {i, j}
  OBVIOUS
<1>6. i \in {i, j} /\ \A b \in {i, j} : b \in Int /\ i <= b
  OBVIOUS
<1>7. Earlier({i, j}) = i
  BY <1>6, EarlierIs
<1> QED
  BY <1>1, <1>4, <1>5, <1>7

\* The intervals of the days asked for.
LEMMA InstantsAre ==
  ASSUME clock \in Shifts
  PROVE  /\ Instants \subseteq Nat
         /\ Cardinality(Instants) \in Nat
         /\ Cardinality(Instants) = Midnight(clock, LastDay + 1) - Midnight(clock, FirstDay)
         /\ Midnight(clock, FirstDay) \in Nat
         /\ \A day \in FirstDay..LastDay : Day(clock, day) \subseteq Instants
         /\ \A i \in Instants : DayOf(i) \in FirstDay..LastDay /\ i \in Day(clock, DayOf(i))
<1>1. FirstDay \in Nat /\ LastDay \in Nat /\ FirstDay <= LastDay
      /\ LastDay + 1 \in Nat /\ FirstDay <= LastDay + 1
  BY RangeAssumption
<1> DEFINE a == Midnight(clock, FirstDay)
           b == Midnight(clock, LastDay + 1)
<1>2. a \in Nat /\ b \in Nat /\ a <= b
  <2>1. a \in Nat /\ b \in Nat
    BY <1>1, DayIs
  <2> QED
    BY <1>1, <2>1, MidnightsAscend
<1>3. Instants = a + 1..b
  BY DEF Instants
<1>4. Cardinality(Instants) = b - a /\ Instants \subseteq Nat
  <2> HIDE DEF a, b
  <2>1. a + 1 \in Int /\ b \in Int
    BY <1>2
  <2>2. Cardinality(a + 1..b) = IF a + 1 > b THEN 0 ELSE b - (a + 1) + 1
    BY <2>1, FS_Interval
  <2>3. a + 1..b \subseteq Nat
    BY <1>2
  <2> QED
    BY <1>2, <1>3, <2>2, <2>3
<1>5. ASSUME NEW day \in FirstDay..LastDay PROVE Day(clock, day) \subseteq Instants
  <2>1. day \in Nat /\ day + 1 \in Nat /\ FirstDay <= day /\ day + 1 <= LastDay + 1
    BY <1>1
  <2>2. a <= Midnight(clock, day) /\ Midnight(clock, day + 1) <= b
    BY <1>1, <2>1, MidnightsAscend
  <2>3. Midnight(clock, day) \in Nat /\ Midnight(clock, day + 1) \in Nat
    BY <2>1, DayIs
  <2> HIDE DEF a, b
  <2> QED
    BY <1>2, <1>3, <2>2, <2>3 DEF Day
<1>6. ASSUME NEW i \in Instants PROVE DayOf(i) \in FirstDay..LastDay /\ i \in Day(clock, DayOf(i))
  <2> DEFINE t == Local(clock, i)
             day == (t - 1) \div Normal
  <2>1. i \in Int /\ i - 1 \in Nat /\ a < i /\ i <= b
    BY <1>2, <1>3
  <2>2. t \in Int /\ FirstDay * Normal < t /\ t <= (LastDay + 1) * Normal
    <3>1. Local(clock, a) = FirstDay * Normal /\ Local(clock, b) = (LastDay + 1) * Normal
      BY <1>1, MidnightIs
    <3>2. FirstDay * Normal < Transition - Shift \/ FirstDay * Normal > Transition + Shift
      BY <1>1, MidnightIsApart
    <3>3. (LastDay + 1) * Normal < Transition - Shift \/ (LastDay + 1) * Normal > Transition + Shift
      BY <1>1, MidnightIsApart
    <3>4. FirstDay * Normal \in Nat /\ (LastDay + 1) * Normal \in Nat
      BY <1>1, DaysApart
    <3> HIDE DEF a, b
    <3> QED
      BY <1>2, <2>1, <3>1, <3>2, <3>3, <3>4, ClockIs DEF Local
  <2>3. t - 1 \in Nat /\ FirstDay * Normal <= t - 1 /\ t - 1 < (LastDay + 1) * Normal
        /\ FirstDay * Normal \in Nat /\ (LastDay + 1) * Normal \in Nat
    BY <1>1, <2>2, DaysApart
  <2>4. day \in Nat /\ day * Normal <= t - 1 /\ t - 1 < (day + 1) * Normal
    <3> HIDE DEF t
    <3>1. (t - 1) \div Normal \in Nat
      BY <2>3, DayOfTime
    <3> QED
      BY <2>3, <3>1, DayOfTime
  <2>5. day * Normal < t /\ t <= (day + 1) * Normal /\ day * Normal \in Nat /\ (day + 1) * Normal \in Nat
    BY <2>2, <2>4, DaysApart
  <2>6. i \in Day(clock, day)
    BY <2>1, <2>4, <2>5, TimesOfDay
  <2>7. DayOf(i) = day
    BY <2>4, <2>6, DayOfIs
  <2>8. FirstDay <= day /\ day <= LastDay
    <3> HIDE DEF day, t
    <3>1. day < FirstDay => (day + 1) * Normal <= FirstDay * Normal
      BY <1>1, <2>4, DaysApart
    <3>2. LastDay < day => (LastDay + 1) * Normal <= day * Normal
      BY <1>1, <2>4, DaysApart
    <3> QED
      BY <1>1, <2>3, <2>4, <2>5, <3>1, <3>2
  <2> HIDE DEF day, t
  <2> QED
    BY <1>1, <2>4, <2>6, <2>7, <2>8
<1> QED
  BY <1>2, <1>4, <1>5, <1>6

-----------------------------------------------------------------------------
(* What the parser makes of the rows of a file                             *)

\* A file whose rows are labelled within their day: not by the midnight
\* before it, and by none but the one after it.
Labelled(rows) ==
  /\ DOMAIN rows \subseteq Nat
  /\ \A n \in DOMAIN rows : rows[n].day \in Nat /\ rows[n].slot \in 1..Normal

\* A set of naturals has a first element.
LEMMA FirstIs ==
  ASSUME NEW S \in SUBSET Nat, S # {}
  PROVE  Earlier(S) \in S /\ \A n \in S : Earlier(S) <= n
<1>1. PICK x \in S : \A y \in S : ~(<<y, x>> \in OpToRel(<, Nat))
  BY NatLessThanWellFounded, WFMin
<1>2. \A y \in S : ~(y < x)
  BY <1>1 DEF OpToRel
<1>3. \A y \in S : y \in Int /\ x <= y
  BY <1>2
<1>4. Earlier(S) = x
  BY <1>3, EarlierIs
<1> QED
  BY <1>3, <1>4

\* Two elements are left with one when one is taken.
LEMMA TwoAreMore ==
  ASSUME NEW S, Cardinality(S) = 2, NEW x
  PROVE  S \ {x} # {}
<1> SUFFICES ASSUME S \ {x} = {} PROVE FALSE
  OBVIOUS
<1>1. S = {} \/ S = {x}
  OBVIOUS
<1>2. Cardinality({}) = 0 /\ Cardinality({x}) = 1
  BY FS_EmptySet, FS_Singleton
<1> QED
  BY <1>1, <1>2

\* An interval comes of a row of its local time.
LEMMA RowOfIsRow ==
  ASSUME NEW shift \in Shifts, NEW rows, DOMAIN rows \subseteq Nat,
         \A n \in DOMAIN rows : LocalEnd(rows[n]) \in Int,
         Normalizable(shift, rows), NEW i \in IntervalEnds(shift, rows)
  PROVE  /\ i \in Int
         /\ \E n \in Occurrences(rows, Local(shift, i)) : RowOf(shift, rows, i) = rows[n]
         /\ Unambiguous(shift, Local(shift, i), rows)
<1> DEFINE local == Local(shift, i)
           places == Occurrences(rows, local)
           first == Earlier(places)
<1>1. PICK k \in DOMAIN rows : i \in Candidates(shift, LocalEnd(rows[k]))
  BY DEF IntervalEnds, LocalEnds
<1>2. LocalEnd(rows[k]) \in Int
  BY <1>1
<1>3. i \in Int /\ local = LocalEnd(rows[k])
  BY <1>1, <1>2, ReadingsAre DEF Candidates
<1>4. k \in places /\ places \in SUBSET Nat
  BY <1>1, <1>3 DEF Occurrences
<1>5. first \in places
  BY <1>4, FirstIs
<1>6. Unambiguous(shift, local, rows)
  BY <1>1, <1>3 DEF Normalizable, LocalEnds
<1>7. CASE i = Earlier(Candidates(shift, local))
  BY <1>3, <1>5, <1>6, <1>7 DEF RowOf
<1>8. CASE i # Earlier(Candidates(shift, local))
  <2>1. PICK j \in Candidates(shift, local) : j # i
    <3>1. i \in Candidates(shift, local)
      BY <1>3, ReadingsAre
    <3>2. Earlier({i}) = i
      BY <1>3, EarlierOfOne
    <3> QED
      BY <1>8, <3>1, <3>2
  <2>2. local \in Int
    BY <1>2, <1>3
  <2>3. j \in Int /\ Local(shift, j) = Local(shift, i)
    <3> HIDE DEF local
    <3>1. j \in Int
      BY <2>1, <2>2, ReadingsAre
    <3>2. Local(shift, j) = local
      BY <2>1 DEF Candidates
    <3> QED
      BY <3>1, <3>2 DEF local
  <2>4. Cardinality(Candidates(shift, local)) = 2
    <3>1. CASE i < j
      BY <1>3, <2>3, <3>1, OneOrTwoReadings
    <3>2. CASE j < i
      BY <1>3, <2>3, <3>2, OneOrTwoReadings
    <3> QED
      BY <1>3, <2>1, <2>3, <3>1, <3>2
  <2>5. Cardinality(places) = 2
    BY <1>6, <2>4 DEF Unambiguous
  <2>6. places \ {first} # {} /\ places \ {first} \in SUBSET Nat
    BY <1>4, <2>5, TwoAreMore
  <2>7. Earlier(places \ {first}) \in places
    BY <2>6, FirstIs
  <2> QED
    BY <1>3, <1>6, <1>8, <2>7 DEF RowOf
<1> QED
  BY <1>7, <1>8

\* The two readings of a repeated local time take two rows of the file.
LEMMA TwoRows ==
  ASSUME NEW shift \in Shifts, NEW rows, DOMAIN rows \subseteq Nat,
         \A n \in DOMAIN rows : LocalEnd(rows[n]) \in Int,
         Normalizable(shift, rows), NEW i \in IntervalEnds(shift, rows), NEW j \in Int,
         i < j, Local(shift, i) = Local(shift, j)
  PROVE  \E p, q \in Occurrences(rows, Local(shift, i)) :
           p # q /\ RowOf(shift, rows, i) = rows[p] /\ RowOf(shift, rows, j) = rows[q]
<1> DEFINE local == Local(shift, i)
           places == Occurrences(rows, local)
           first == Earlier(places)
           second == Earlier(places \ {first})
<1>1. i \in Int /\ Unambiguous(shift, local, rows) /\ places # {}
  <2>1. i \in Int /\ Unambiguous(shift, local, rows)
    BY RowOfIsRow
  <2>2. \E n \in places : RowOf(shift, rows, i) = rows[n]
    BY RowOfIsRow
  <2> QED
    BY <2>1, <2>2
<1>2. /\ Candidates(shift, local) = {i, j} /\ Cardinality(Candidates(shift, local)) = 2
      /\ Earlier(Candidates(shift, local)) = i
  BY <1>1, OneOrTwoReadings
<1>3. Cardinality(places) = 2
  BY <1>1, <1>2 DEF Unambiguous
<1>4. places \in SUBSET Nat
  BY DEF Occurrences
<1>5. first \in places
  BY <1>1, <1>4, FirstIs
<1>6. second \in places \ {first}
  <2>1. places \ {first} # {} /\ places \ {first} \in SUBSET Nat
    BY <1>3, <1>4, TwoAreMore
  <2> QED
    BY <2>1, FirstIs
<1>7. RowOf(shift, rows, i) = rows[first] /\ RowOf(shift, rows, j) = rows[second]
  BY <1>1, <1>2 DEF RowOf
<1> QED
  BY <1>5, <1>6, <1>7

\* If the rows of a local time come of different readings of it, its readings
\* have the row that comes of them, or have each other's.
LEMMA ReadingsArePaired ==
  ASSUME NEW shift \in Shifts, NEW rows, DOMAIN rows \subseteq Nat,
         \A n \in DOMAIN rows : LocalEnd(rows[n]) \in Int,
         Normalizable(shift, rows), NEW i \in IntervalEnds(shift, rows), NEW origin,
         \A k \in Occurrences(rows, Local(shift, i)) :
           /\ origin[k] \in Int
           /\ Local(shift, origin[k]) = Local(shift, i)
           /\ \A l \in Occurrences(rows, Local(shift, i)) : origin[k] = origin[l] => k = l
  PROVE  \E j \in IntervalEnds(shift, rows) :
           /\ Local(shift, j) = Local(shift, i)
           /\ \E p, q \in Occurrences(rows, Local(shift, i)) :
                /\ RowOf(shift, rows, i) = rows[p] /\ origin[p] = j
                /\ RowOf(shift, rows, j) = rows[q] /\ origin[q] = i
<1> DEFINE local == Local(shift, i)
           places == Occurrences(rows, local)
<1>1. i \in Int
  BY RowOfIsRow
<1>2. PICK p \in places : RowOf(shift, rows, i) = rows[p]
  BY RowOfIsRow
<1>3. CASE origin[p] = i
  BY <1>2, <1>3
<1>4. CASE origin[p] # i
  <2> DEFINE j == origin[p]
  <2>1. j \in Int /\ j # i /\ Local(shift, j) = local
    BY <1>2, <1>4
  <2>2. Candidates(shift, local) = {i, j}
    <3>1. CASE i < j
      BY <1>1, <2>1, <3>1, OneOrTwoReadings
    <3>2. CASE j < i
      BY <1>1, <2>1, <3>2, OneOrTwoReadings
    <3> QED
      BY <1>1, <2>1, <3>1, <3>2
  <2>3. j \in IntervalEnds(shift, rows)
    <3>1. p \in DOMAIN rows /\ LocalEnd(rows[p]) = local
      BY <1>2 DEF Occurrences
    <3> QED
      BY <2>2, <3>1 DEF IntervalEnds, LocalEnds
  <2>4. PICK a, b \in places :
          a # b /\ RowOf(shift, rows, i) = rows[a] /\ RowOf(shift, rows, j) = rows[b]
    <3> HIDE DEF j
    <3>1. CASE i < j
      BY <2>1, <3>1, TwoRows
    <3>2. CASE j < i
      BY <1>1, <2>1, <2>3, <3>2, TwoRows
    <3> QED
      BY <1>1, <2>1, <3>1, <3>2
  <2>5. \A k \in places : origin[k] \in {i, j}
    <3> SUFFICES ASSUME NEW k \in places PROVE origin[k] \in {i, j}
      OBVIOUS
    <3>1. origin[k] \in Int /\ Local(shift, origin[k]) = local
      OBVIOUS
    <3>2. origin[k] \in Candidates(shift, Local(shift, origin[k]))
      BY <3>1, ReadingsAre
    <3> QED
      BY <2>2, <3>1, <3>2
  <2>6. \A k, l \in places : origin[k] = origin[l] => k = l
    OBVIOUS
  <2>7. (origin[a] = i /\ origin[b] = j) \/ (origin[a] = j /\ origin[b] = i)
    BY <2>1, <2>4, <2>5, <2>6
  <2> QED
    BY <1>2, <2>1, <2>3, <2>4, <2>7
<1> QED
  BY <1>3, <1>4

\* A day with a hole is refused: with some of its intervals, all at its times,
\* and none at the time of the hole.
LEMMA HoleRefused ==
  ASSUME NEW shift \in Shifts, NEW rows, NEW day \in Nat, NEW hole \in Day(shift, day),
         \A i \in IntervalEnds(shift, rows) :
           RowOf(shift, rows, i).day = day => i \in Day(shift, day) \ {hole},
         NEW e \in IntervalEnds(shift, rows), RowOf(shift, rows, e).day = day
  PROVE  ~DaysAreWhole(shift, Intervals(shift, rows))
<1> DEFINE all == Intervals(shift, rows)
           ofDay == {interval \in all : interval.source_day = day}
           rest == Day(shift, day) \ {hole}
           f == [interval \in ofDay |-> interval.interval_end]
<1>1. \A interval \in all :
         \E i \in IntervalEnds(shift, rows) :
           /\ interval = Interval(i, RowOf(shift, rows, i))
           /\ interval.interval_end = i
           /\ interval.source_day = RowOf(shift, rows, i).day
  BY DEF Intervals, Interval
<1>2. IsFiniteSet(rest) /\ Cardinality(rest) = DayLength(shift, day) - 1 /\ DayLength(shift, day) \in Nat
  BY DayIs, FS_RemoveElement
<1>3. f \in Injection(ofDay, rest)
  <2>1. f \in [ofDay -> rest]
    BY <1>1
  <2>2. \A x, y \in ofDay : f[x] = f[y] => x = y
    BY <1>1
  <2> QED
    BY <2>1, <2>2 DEF Injection, IsInjective
<1>4. Cardinality(ofDay) <= Cardinality(rest) /\ IsFiniteSet(ofDay)
  <2> HIDE DEF f, ofDay, rest
  <2> QED
    BY <1>2, <1>3, FS_Injection
<1>5. Interval(e, RowOf(shift, rows, e)) \in ofDay
  BY DEF Intervals, Interval
<1>6. DaysAreWhole(shift, all) => Cardinality(ofDay) = DayLength(shift, day)
  BY <1>5 DEF DaysAreWhole
<1>7. Cardinality(ofDay) \in Nat
  BY <1>4, FS_CardinalityType
<1> HIDE DEF ofDay, rest, all
<1>8. ~DaysAreWhole(shift, all)
  BY <1>2, <1>4, <1>6, <1>7
<1> QED
  BY <1>8 DEF all

\* An interval is of one day.
LEMMA OneDay ==
  ASSUME NEW shift \in Shifts, NEW a \in Nat, NEW b \in Nat, NEW i \in Day(shift, a), i \in Day(shift, b)
  PROVE  a = b
<1>1. /\ Midnight(shift, a) \in Nat /\ Midnight(shift, a + 1) \in Nat
      /\ Midnight(shift, b) \in Nat /\ Midnight(shift, b + 1) \in Nat
      /\ i \in Nat
  BY DayIs
<1>2. /\ Midnight(shift, a) < i /\ i <= Midnight(shift, a + 1)
      /\ Midnight(shift, b) < i /\ i <= Midnight(shift, b + 1)
  BY <1>1 DEF Day
<1>3. ASSUME NEW c \in Nat, NEW d \in Nat, c < d PROVE Midnight(shift, c + 1) <= Midnight(shift, d)
  <2>1. c + 1 \in Nat /\ c + 1 <= d
    BY <1>3
  <2> QED
    BY <2>1, MidnightsAscend
<1> QED
  BY <1>1, <1>2, <1>3

\* The readings of a label are in the day it names.
LEMMA LabelIsInDay ==
  ASSUME NEW shift \in Shifts, NEW row, row.day \in Nat, row.slot \in 1..Normal,
         NEW i \in Int, Local(shift, i) = LocalEnd(row)
  PROVE  i \in Day(shift, row.day)
<1>1. row.day * Normal \in Nat /\ (row.day + 1) * Normal = row.day * Normal + Normal
  BY DaysApart
<1>2. row.day * Normal < LocalEnd(row) /\ LocalEnd(row) <= (row.day + 1) * Normal
  BY <1>1, ClockIs DEF LocalEnd
<1> QED
  BY <1>2, TimesOfDay

\* Labels are local times.
LEMMA LabelsAreTimes ==
  ASSUME NEW row, row.day \in Nat, row.slot \in 0..Normal
  PROVE  LocalEnd(row) \in Nat
<1>1. row.day * Normal \in Nat
  BY DaysApart
<1> QED
  BY <1>1, ClockIs DEF LocalEnd

\* Whatever rows a file has, in whatever order, and however often a time is
\* repeated or told differently: if every row is labelled within its day, an
\* accepted file has every interval of every day that occurs in it.
THEOREM AcceptedDaysAreWhole ==
  ASSUME NEW shift \in Shifts, NEW rows, Labelled(rows), Normalizable(shift, rows),
         DaysAreWhole(shift, Intervals(shift, rows)), NEW n \in DOMAIN rows
  PROVE  Day(shift, rows[n].day) \subseteq IntervalEnds(shift, rows)
<1> DEFINE day == rows[n].day
<1> SUFFICES ASSUME NEW hole \in Day(shift, day), hole \notin IntervalEnds(shift, rows) PROVE FALSE
  OBVIOUS
<1>1. /\ DOMAIN rows \subseteq Nat
      /\ \A k \in DOMAIN rows : /\ rows[k].day \in Nat /\ rows[k].slot \in 1..Normal
                                /\ LocalEnd(rows[k]) \in Int
  <2>1. ASSUME NEW k \in DOMAIN rows
        PROVE  rows[k].day \in Nat /\ rows[k].slot \in 1..Normal /\ LocalEnd(rows[k]) \in Int
    <3>1. rows[k].day \in Nat /\ rows[k].slot \in 1..Normal /\ rows[k].slot \in 0..Normal
      BY ClockIs DEF Labelled
    <3> QED
      BY <3>1, LabelsAreTimes
  <2> QED
    BY <2>1 DEF Labelled
<1>2. ASSUME NEW i \in IntervalEnds(shift, rows)
      PROVE  \E k \in DOMAIN rows :
               /\ RowOf(shift, rows, i) = rows[k]
               /\ LocalEnd(rows[k]) = Local(shift, i)
               /\ i \in Day(shift, rows[k].day)
  <2>1. PICK k \in Occurrences(rows, Local(shift, i)) : RowOf(shift, rows, i) = rows[k]
    BY <1>1, RowOfIsRow
  <2>2. k \in DOMAIN rows /\ LocalEnd(rows[k]) = Local(shift, i)
    BY <2>1 DEF Occurrences
  <2>3. i \in Int
    BY <1>1, RowOfIsRow
  <2>4. i \in Day(shift, rows[k].day)
    BY <1>1, <2>2, <2>3, LabelIsInDay
  <2> QED
    BY <2>1, <2>2, <2>4
<1>3. PICK e \in Candidates(shift, LocalEnd(rows[n])) : TRUE
  BY DEF Normalizable, LocalEnds, Unambiguous
<1>4. e \in IntervalEnds(shift, rows) /\ e \in Int /\ Local(shift, e) = LocalEnd(rows[n])
  <2>1. e \in Int
    BY <1>1, ReadingsAre
  <2> QED
    BY <2>1 DEF IntervalEnds, LocalEnds, Candidates
<1>5. e \in Day(shift, day)
  BY <1>1, <1>4, LabelIsInDay
<1>6. RowOf(shift, rows, e).day = day
  BY <1>1, <1>2, <1>4, <1>5, OneDay
<1>7. \A i \in IntervalEnds(shift, rows) :
        RowOf(shift, rows, i).day = day => i \in Day(shift, day) \ {hole}
  BY <1>2
<1>8. day \in Nat
  BY <1>1
<1> HIDE DEF day
<1> QED
  BY <1>4, <1>6, <1>7, <1>8, HoleRefused

-----------------------------------------------------------------------------
(* The true file                                                           *)

First == Midnight(clock, FirstDay)
Count == Cardinality(Instants)

\* One row for every interval asked for, in their order, labelled within its
\* day.
LEMMA TrueRows ==
  ASSUME clock \in Shifts, NEW meter, NEW channel
  PROVE  /\ Count \in Nat /\ First \in Nat
         /\ DOMAIN Rows(meter, channel) = 1..Count
         /\ \A i \in Instants : i \in Nat /\ i - First \in 1..Count
         /\ \A n \in 1..Count :
              /\ First + n \in Instants
              /\ Rows(meter, channel)[n].day \in FirstDay..LastDay /\ Rows(meter, channel)[n].day \in Nat
              /\ Rows(meter, channel)[n].slot \in 1..Normal
              /\ First + n \in Day(clock, Rows(meter, channel)[n].day)
              /\ LocalEnd(Rows(meter, channel)[n]) = Local(clock, First + n)
              /\ Rows(meter, channel)[n].value = Reading(meter, channel, First + n)
              /\ Rows(meter, channel)[n].unit = "kWh"
              /\ Rows(meter, channel)[n].status = "valid"
<1> DEFINE rows == Rows(meter, channel)
<1>1. /\ Instants \subseteq Nat /\ Count \in Nat /\ First \in Nat
      /\ Count = Midnight(clock, LastDay + 1) - First
      /\ \A i \in Instants : DayOf(i) \in FirstDay..LastDay /\ i \in Day(clock, DayOf(i))
  BY InstantsAre DEF First, Count
<1>2. Instants = First + 1..First + Count
  <2>1. LastDay + 1 \in Nat
    BY RangeAssumption
  <2>2. Midnight(clock, LastDay + 1) \in Nat
    BY <2>1, DayIs
  <2>3. Instants = First + 1..Midnight(clock, LastDay + 1)
    BY DEF Instants, First
  <2>4. Midnight(clock, LastDay + 1) = First + Count
    BY <1>1, <2>2
  <2> QED
    BY <2>3, <2>4
<1>3. rows = [n \in 1..Count |->
                [day |-> DayOf(First + n), slot |-> Local(clock, First + n) - DayOf(First + n) * Normal,
                 value |-> Reading(meter, channel, First + n), unit |-> "kWh", status |-> "valid"]]
  BY DEF Rows, First, Count
<1>4. ASSUME NEW n \in 1..Count
      PROVE  /\ First + n \in Instants
             /\ rows[n].day \in FirstDay..LastDay /\ rows[n].day \in Nat
             /\ rows[n].slot \in 1..Normal
             /\ First + n \in Day(clock, rows[n].day)
             /\ LocalEnd(rows[n]) = Local(clock, First + n)
             /\ rows[n].value = Reading(meter, channel, First + n)
             /\ rows[n].unit = "kWh" /\ rows[n].status = "valid"
  <2> DEFINE i == First + n
             day == DayOf(i)
  <2>1. i \in Instants
    BY <1>1, <1>2
  <2>2. day \in FirstDay..LastDay /\ day \in Nat /\ i \in Day(clock, day) /\ i \in Int
    BY <1>1, <2>1, RangeAssumption
  <2>3. rows[n] = [day |-> day, slot |-> Local(clock, i) - day * Normal,
                   value |-> Reading(meter, channel, i), unit |-> "kWh", status |-> "valid"]
    <3> HIDE DEF rows
    <3> QED
      BY <1>3
  <2> HIDE DEF rows, day, i
  <2>4. day * Normal \in Nat /\ (day + 1) * Normal = day * Normal + Normal
    BY <2>2, DaysApart
  <2>5. Local(clock, i) \in Int /\ day * Normal < Local(clock, i) /\ Local(clock, i) <= day * Normal + Normal
    BY <2>2, <2>4, TimesOfDay, ReadingsAre
  <2>6. rows[n].slot \in 1..Normal
    BY <2>3, <2>4, <2>5, ClockIs
  <2>7. LocalEnd(rows[n]) = Local(clock, i)
    BY <2>3, <2>4, <2>5 DEF LocalEnd
  <2> QED
    BY <2>1, <2>2, <2>3, <2>6, <2>7 DEF i
<1>5. \A i \in Instants : i \in Nat /\ i - First \in 1..Count
  BY <1>1, <1>2
<1>6. DOMAIN rows = 1..Count
  <2> HIDE DEF rows
  <2> QED
    BY <1>3
<1> HIDE DEF rows
<1>7. /\ Count \in Nat /\ First \in Nat
      /\ DOMAIN rows = 1..Count
      /\ \A i \in Instants : i \in Nat /\ i - First \in 1..Count
      /\ \A n \in 1..Count :
           /\ First + n \in Instants
           /\ rows[n].day \in FirstDay..LastDay /\ rows[n].day \in Nat
           /\ rows[n].slot \in 1..Normal
           /\ First + n \in Day(clock, rows[n].day)
           /\ LocalEnd(rows[n]) = Local(clock, First + n)
           /\ rows[n].value = Reading(meter, channel, First + n)
           /\ rows[n].unit = "kWh" /\ rows[n].status = "valid"
  BY <1>1, <1>4, <1>5, <1>6
<1> QED
  BY <1>7 DEF rows

\* A day asked for has a row besides any other.
LEMMA AnotherOfDay ==
  ASSUME clock \in Shifts, NEW day \in FirstDay..LastDay, NEW a, NEW b
  PROVE  \E m \in 1..Count : First + m \in Day(clock, day) /\ First + m # a /\ First + m # b
<1>1. day \in Nat
  BY RangeAssumption
<1>2. /\ Midnight(clock, day) \in Nat /\ Midnight(clock, day + 1) \in Nat
      /\ Midnight(clock, day) + 3 <= Midnight(clock, day + 1)
  BY <1>1, DayIs
<1>3. PICK i \in Day(clock, day) : i # a /\ i # b
  <2> DEFINE m == Midnight(clock, day)
  <2>1. m + 1 \in Day(clock, day) /\ m + 2 \in Day(clock, day) /\ m + 3 \in Day(clock, day)
    BY <1>2 DEF Day
  <2>2. m + 1 # m + 2 /\ m + 2 # m + 3 /\ m + 1 # m + 3
    BY <1>2
  <2> HIDE DEF m
  <2> QED
    BY <2>1, <2>2
<1>4. i \in Instants
  BY InstantsAre
<1>5. i \in Nat /\ i - First \in 1..Count /\ First \in Nat
  BY <1>4, TrueRows
<1>6. First + (i - First) = i
  BY <1>5
<1> QED
  BY <1>3, <1>5, <1>6

\* A time that lost its row has no interval: the row that would share it is
\* not two.
LEMMA LostTime ==
  ASSUME clock \in Shifts, NEW meter, NEW channel, NEW n \in 1..Count,
         NEW rows, DOMAIN rows \subseteq Nat, \A k \in DOMAIN rows : LocalEnd(rows[k]) \in Int,
         Normalizable(clock, rows), NEW origin,
         \A k \in Occurrences(rows, Local(clock, First + n)) :
           /\ origin[k] \in 1..Count \ {n}
           /\ Local(clock, First + origin[k]) = Local(clock, First + n)
           /\ \A l \in Occurrences(rows, Local(clock, First + n)) : origin[k] = origin[l] => k = l
  PROVE  First + n \notin IntervalEnds(clock, rows)
<1> DEFINE i == First + n
           places == Occurrences(rows, Local(clock, i))
<1> SUFFICES ASSUME i \in IntervalEnds(clock, rows) PROVE FALSE
  OBVIOUS
<1>1. First \in Nat /\ Count \in Nat /\ i \in Int
  BY TrueRows
<1>2. PICK k \in places : TRUE
  BY RowOfIsRow
<1>3. Unambiguous(clock, Local(clock, i), rows)
  BY RowOfIsRow
<1> DEFINE j == First + origin[k]
<1>4. j \in Int /\ j # i /\ Local(clock, j) = Local(clock, i)
  BY <1>1, <1>2
<1>5. /\ Candidates(clock, Local(clock, i)) = {i, j}
      /\ Cardinality(Candidates(clock, Local(clock, i))) = 2
  <2>1. CASE i < j
    BY <1>1, <1>4, <2>1, OneOrTwoReadings
  <2>2. CASE j < i
    BY <1>1, <1>4, <2>2, OneOrTwoReadings
  <2> QED
    BY <1>1, <1>4, <2>1, <2>2
<1>6. Cardinality(places) = 2
  BY <1>3, <1>5 DEF Unambiguous
<1>7. PICK l \in places : l # k
  BY <1>6, TwoAreMore
<1> DEFINE m == First + origin[l]
<1>8. m \in Int /\ m # i /\ Local(clock, m) = Local(clock, i) /\ m # j
  BY <1>1, <1>2, <1>7
<1>9. m \in Candidates(clock, Local(clock, i))
  <2>1. m \in Candidates(clock, Local(clock, m))
    BY <1>8, ReadingsAre
  <2> QED
    BY <1>8, <2>1
<1> QED
  BY <1>5, <1>8, <1>9

\* A file with the times of the true one, and perhaps one of them again at its
\* end.
KeepsTimes(rows, original, n, extra) ==
  /\ DOMAIN rows = 1..Count + extra
  /\ \A k \in 1..Count : rows[k].day = original[k].day /\ rows[k].slot = original[k].slot
  /\ extra = 1 => /\ rows[Count + 1].day = original[n].day
                  /\ rows[Count + 1].slot = original[n].slot

\* It is read interval by interval.
LEMMA TimesKept ==
  ASSUME clock \in Shifts, NEW meter, NEW channel, NEW n \in 1..Count,
         NEW rows, NEW extra \in {0, 1}, KeepsTimes(rows, Rows(meter, channel), n, extra),
         Normalizable(clock, rows)
  PROVE  /\ IntervalEnds(clock, rows) = Instants
         /\ \A i \in Instants : /\ i - First \in 1..Count
                                /\ RowOf(clock, rows, i) = rows[i - First]
<1> DEFINE original == Rows(meter, channel)
           last == Count + 1
<1>1. /\ Count \in Nat /\ First \in Nat
      /\ \A i \in Instants : i \in Nat /\ i - First \in 1..Count
      /\ \A k \in 1..Count : /\ First + k \in Instants /\ original[k].day \in FirstDay..LastDay
                             /\ original[k].day \in Nat
                             /\ First + k \in Day(clock, original[k].day)
                             /\ LocalEnd(original[k]) = Local(clock, First + k)
  <2>1. Count \in Nat /\ First \in Nat
    BY TrueRows
  <2>2. \A i \in Instants : i \in Nat /\ i - First \in 1..Count
    BY TrueRows
  <2>3. ASSUME NEW k \in 1..Count
        PROVE  /\ First + k \in Instants /\ original[k].day \in FirstDay..LastDay
               /\ original[k].day \in Nat
               /\ First + k \in Day(clock, original[k].day)
               /\ LocalEnd(original[k]) = Local(clock, First + k)
    BY TrueRows
  <2> QED
    BY <2>1, <2>2, <2>3
<1> HIDE DEF original
<1>10. KeepsTimes(rows, original, n, extra)
  BY DEF original
<1>2. \A k \in 1..Count : LocalEnd(rows[k]) = Local(clock, First + k)
  <2>1. \A k \in 1..Count : rows[k].day = original[k].day /\ rows[k].slot = original[k].slot
    BY <1>10 DEF KeepsTimes
  <2>2. \A k \in 1..Count : LocalEnd(rows[k]) = LocalEnd(original[k])
    BY <2>1 DEF LocalEnd
  <2> QED
    BY <1>1, <2>2
<1>3. extra = 1 => LocalEnd(rows[last]) = Local(clock, First + n)
  <2>1. extra = 1 => rows[last].day = original[n].day /\ rows[last].slot = original[n].slot
    BY <1>10 DEF KeepsTimes
  <2>2. extra = 1 => LocalEnd(rows[last]) = LocalEnd(original[n])
    BY <2>1 DEF LocalEnd
  <2> QED
    BY <1>1, <2>2
<1>4. \A k \in DOMAIN rows : k \in 1..Count \/ (extra = 1 /\ k = last)
  <2>1. DOMAIN rows = 1..Count + extra
    BY <1>10 DEF KeepsTimes
  <2>2. CASE extra = 0
    BY <1>1, <2>1, <2>2
  <2>3. CASE extra = 1
    BY <1>1, <2>1, <2>3
  <2> QED
    BY <2>2, <2>3
<1>5. 1..Count \subseteq DOMAIN rows /\ (extra = 1 => last \in DOMAIN rows) /\ DOMAIN rows \subseteq Nat
  <2>1. DOMAIN rows = 1..Count + extra
    BY <1>10 DEF KeepsTimes
  <2>2. CASE extra = 0
    BY <1>1, <2>1, <2>2
  <2>3. CASE extra = 1
    BY <1>1, <2>1, <2>3
  <2> QED
    BY <2>2, <2>3
<1>6. \A k \in DOMAIN rows : \E m \in 1..Count : LocalEnd(rows[k]) = Local(clock, First + m)
  BY <1>2, <1>3, <1>4
<1>7. IntervalEnds(clock, rows) \subseteq Instants
  <2> SUFFICES ASSUME NEW i \in IntervalEnds(clock, rows) PROVE i \in Instants
    OBVIOUS
  <2>1. PICK k \in DOMAIN rows : i \in Candidates(clock, LocalEnd(rows[k]))
    BY DEF IntervalEnds, LocalEnds
  <2>2. PICK m \in 1..Count : LocalEnd(rows[k]) = Local(clock, First + m)
    BY <1>6, <2>1
  <2>3. i \in Day(clock, original[m].day)
    BY <1>1, <2>1, <2>2, ReadingsShareDay
  <2> QED
    BY <1>1, <2>3, InstantsAre
<1>8. ASSUME NEW i \in Instants PROVE i - First \in 1..Count /\ i \in IntervalEnds(clock, rows)
  <2>1. i \in Int /\ i - First \in 1..Count /\ First + (i - First) = i
    BY <1>1
  <2>2. i \in Candidates(clock, LocalEnd(rows[i - First])) /\ i - First \in DOMAIN rows
    BY <1>2, <1>5, <2>1, ReadingsAre
  <2> QED
    BY <2>1, <2>2 DEF IntervalEnds, LocalEnds
<1>9. ASSUME NEW i \in Instants PROVE RowOf(clock, rows, i) = rows[i - First]
  <2> DEFINE p == i - First
             local == Local(clock, i)
             places == Occurrences(rows, local)
  <2>1. i \in Int /\ p \in 1..Count /\ First + p = i /\ i \in IntervalEnds(clock, rows)
    BY <1>1, <1>8
  <2> SUFFICES RowOf(clock, rows, i) = rows[p]
    OBVIOUS
  <2> HIDE DEF p
  <2>2. Unambiguous(clock, local, rows)
    <3>1. LocalEnd(rows[p]) = local /\ p \in DOMAIN rows
      BY <1>2, <1>5, <2>1
    <3> QED
      BY <3>1 DEF Normalizable, LocalEnds
  <2>3. places \subseteq DOMAIN rows /\ p \in places
    BY <1>2, <1>5, <2>1 DEF Occurrences
  <2>4. \A k \in 1..Count : k \in places <=> Local(clock, First + k) = local
    BY <1>2, <1>5 DEF Occurrences
  <2>5. CASE \E j \in Int : j # i /\ Local(clock, j) = local
    <3>1. PICK j \in Int : j # i /\ Local(clock, j) = local
      BY <2>5
    <3> DEFINE q == j - First
    <3>2. j \in Instants
      <4>1. j \in Candidates(clock, local)
        BY <3>1, ReadingsAre
      <4>2. j \in Day(clock, original[p].day)
        BY <1>1, <2>1, <4>1, ReadingsShareDay
      <4> QED
        BY <1>1, <2>1, <4>2, InstantsAre
    <3>3. q \in 1..Count /\ First + q = j /\ q \in places /\ q # p
      BY <1>1, <2>1, <2>4, <3>1, <3>2
    <3>4. Cardinality(Candidates(clock, local)) = 2
          /\ Earlier(Candidates(clock, local)) = IF i < j THEN i ELSE j
      <4>1. CASE i < j
        BY <2>1, <3>1, <4>1, OneOrTwoReadings
      <4>2. CASE j < i
        BY <2>1, <3>1, <4>2, OneOrTwoReadings
      <4> QED
        BY <2>1, <3>1, <4>1, <4>2
    <3>5. Cardinality(places) = 2
      BY <2>2, <3>4 DEF Unambiguous
    <3>6. places = {p, q}
      <4>1. {p, q} \subseteq places /\ Cardinality({p, q}) = 2 /\ IsFiniteSet({p, q})
        <5>1. IsFiniteSet({p}) /\ Cardinality({p}) = 1 /\ q \notin {p}
          BY <3>3, FS_Singleton
        <5>2. IsFiniteSet({p} \cup {q}) /\ Cardinality({p} \cup {q}) = 1 + 1
          BY <5>1, FS_AddElement
        <5>3. {p} \cup {q} = {p, q}
          OBVIOUS
        <5> QED
          BY <2>3, <3>3, <5>2, <5>3
      <4>2. IsFiniteSet(places)
        <5>1. IsFiniteSet(1..Count + extra)
          BY <1>1, FS_Interval
        <5>2. DOMAIN rows = 1..Count + extra
          BY <1>10 DEF KeepsTimes
        <5> QED
          BY <2>3, <5>1, <5>2, FS_Subset
      <4> HIDE DEF places
      <4> QED
        BY <3>5, <4>1, <4>2, FS_Subset
    <3>7. CASE i < j
      <4>1. p \in {p, q} /\ \A b \in {p, q} : b \in Int /\ p <= b
        BY <1>1, <2>1, <3>3, <3>7
      <4>2. Earlier(places) = p
        BY <3>6, <4>1, EarlierIs
      <4> QED
        BY <3>4, <3>7, <4>2 DEF RowOf
    <3>8. CASE j < i
      <4>1. q \in {p, q} /\ \A b \in {p, q} : b \in Int /\ q <= b
        BY <1>1, <2>1, <3>3, <3>8
      <4>2. Earlier(places) = q
        BY <3>6, <4>1, EarlierIs
      <4>3. places \ {Earlier(places)} = {p}
        BY <3>3, <3>6, <4>2
      <4>4. Earlier(places \ {Earlier(places)}) = p
        BY <2>1, <4>3, EarlierOfOne
      <4>5. i # Earlier(Candidates(clock, local))
        BY <2>1, <3>4, <3>8
      <4> QED
        BY <4>4, <4>5 DEF RowOf
    <3> QED
      BY <2>1, <3>1, <3>7, <3>8
  <2>6. CASE ~(\E j \in Int : j # i /\ Local(clock, j) = local)
    <3>1. Earlier({i}) = i
      BY <2>1, EarlierOfOne
    <3>2. Candidates(clock, local) = {i}
      <4>1. local \in Int
        BY <2>1, ReadingsAre
      <4> HIDE DEF local
      <4>2. Candidates(clock, local) \subseteq Int
        BY <4>1, ReadingsAre
      <4>3. \A j \in Candidates(clock, local) : j = i
        BY <2>6, <4>2 DEF Candidates, local
      <4>4. i \in Candidates(clock, local)
        BY <2>1, ReadingsAre DEF local
      <4> QED
        BY <4>3, <4>4
    <3>3. Earlier(Candidates(clock, local)) = i
      BY <3>1, <3>2
    <3>4. \A k \in places : k \in Int /\ p <= k
      <4>1. \A k \in 1..Count : k \in places => k = p
        BY <1>1, <2>1, <2>4, <2>6
      <4> QED
        BY <1>1, <1>4, <2>1, <2>3, <4>1
    <3>5. Earlier(places) = p
      BY <2>3, <3>4, EarlierIs
    <3> QED
      BY <3>3, <3>5 DEF RowOf
  <2> QED
    BY <2>5, <2>6
<1> QED
  BY <1>7, <1>8, <1>9

-----------------------------------------------------------------------------
(* Damage of one row                                                       *)

\* The fields of a true row.
LEMMA TrueRowIs ==
  ASSUME clock \in Shifts, NEW meter, NEW channel, NEW n \in 1..Count
  PROVE  \E day, slot :
           Rows(meter, channel)[n] =
             [day |-> day, slot |-> slot, value |-> Reading(meter, channel, First + n),
              unit |-> "kWh", status |-> "valid"]
<1>1. Rows(meter, channel) =
        [k \in 1..Count |->
           [day |-> DayOf(First + k), slot |-> Local(clock, First + k) - DayOf(First + k) * Normal,
            value |-> Reading(meter, channel, First + k), unit |-> "kWh", status |-> "valid"]]
  BY DEF Rows, First, Count
<1> QED
  BY <1>1

\* The rows of a file are a sequence.
LEMMA RowsAreSequence ==
  ASSUME clock \in Shifts, NEW meter, NEW channel
  PROVE  \E S : Rows(meter, channel) \in [1..Count -> S]
<1>1. Rows(meter, channel) =
        [k \in 1..Count |->
           [day |-> DayOf(First + k), slot |-> Local(clock, First + k) - DayOf(First + k) * Normal,
            value |-> Reading(meter, channel, First + k), unit |-> "kWh", status |-> "valid"]]
  BY DEF Rows, First, Count
<1> DEFINE S == {Rows(meter, channel)[k] : k \in 1..Count}
<1>2. Rows(meter, channel) \in [1..Count -> S]
  BY <1>1
<1> QED
  BY <1>2

\* A row at the end.
LEMMA AppendIs ==
  ASSUME NEW count \in Nat, NEW S, NEW rows \in [1..count -> S], NEW row
  PROVE  /\ DOMAIN Append(rows, row) = 1..count + 1
         /\ \A k \in 1..count : Append(rows, row)[k] = rows[k]
         /\ Append(rows, row)[count + 1] = row
<1>1. rows \in Seq(S \cup {row}) /\ Len(rows) = count
  OBVIOUS
<1> QED
  BY <1>1

\* A file without a row.
LEMMA WithoutIs ==
  ASSUME NEW count \in Nat, NEW S, NEW rows \in [1..count -> S], NEW n \in 1..count
  PROVE  /\ DOMAIN Without(rows, n) = 1..count - 1
         /\ \A k \in 1..count - 1 : Without(rows, n)[k] = IF k < n THEN rows[k] ELSE rows[k + 1]
<1>1. rows \in Seq(S) /\ Len(rows) = count
  OBVIOUS
<1> DEFINE a == SubSeq(rows, 1, n - 1)
           b == SubSeq(rows, n + 1, count)
<1>2. a \in Seq(S) /\ Len(a) = n - 1 /\ \A k \in 1..n - 1 : a[k] = rows[k]
  BY <1>1
<1>3. b \in Seq(S) /\ Len(b) = count - n /\ \A k \in 1..count - n : b[k] = rows[k + n]
  BY <1>1
<1> HIDE DEF a, b
<1>4. DOMAIN (a \o b) = 1..count - 1
  BY <1>2, <1>3
<1>5. ASSUME NEW k \in 1..count - 1 PROVE  (a \o b)[k] = IF k < n THEN rows[k] ELSE rows[k + 1]
  <2>1. CASE k < n
    BY <1>2, <1>3, <2>1
  <2>2. CASE ~(k < n)
    <3>1. (a \o b)[k] = b[k - (n - 1)]
      BY <1>2, <1>3, <2>2
    <3>2. k - (n - 1) \in 1..count - n /\ k - (n - 1) + n = k + 1 /\ ~(k < n)
      BY <2>2
    <3>3. b[k - (n - 1)] = rows[k - (n - 1) + n]
      BY <1>3, <3>2, SMTT(30)
    <3> QED
      BY <3>1, <3>2, <3>3
  <2> QED
    BY <2>1, <2>2
<1>6. Len(rows) = count
  BY <1>1
<1> QED
  BY <1>4, <1>5, <1>6 DEF Without, a, b

\* Readings are measurements.
LEMMA ReadingIsNat ==
  ASSUME NEW meter, NEW channel, NEW i \in Nat
  PROVE  Reading(meter, channel, i) \in Nat /\ Reading(meter, channel, i) # NoValue
<1>1. i % 2 \in Nat
  OBVIOUS
<1> QED
  BY <1>1, ValueAssumption DEF Reading

\* A true row is accepted with what was measured.
LEMMA TrueRowIsExact ==
  ASSUME clock \in Shifts, NEW meter, NEW channel, NEW n \in 1..Count
  PROVE  Energy(Rows(meter, channel)[n]) = 4 * Reading(meter, channel, First + n)
<1>1. First + n \in Nat
  BY TrueRows
<1>2. Reading(meter, channel, First + n) # NoValue
  BY <1>1, ReadingIsNat
<1>3. /\ Rows(meter, channel)[n].value = Reading(meter, channel, First + n)
      /\ Rows(meter, channel)[n].unit = "kWh" /\ Rows(meter, channel)[n].status = "valid"
  BY TrueRows
<1> QED
  BY <1>2, <1>3 DEF Energy, Quality

\* What one row may be: lost, repeated at the end, told differently in its
\* place, moved to another time, or in the place of another.
DamagedAt(meter, channel, rows, n, row) ==
  LET original == Rows(meter, channel) IN
  \/ rows = Without(original, n)
  \/ /\ rows = Append(original, row)
     /\ row.day = original[n].day /\ row.slot = original[n].slot
  \/ /\ rows = With(original, n, row)
     /\ row.day = original[n].day /\ row.slot = original[n].slot
     /\ RowAccepted(row) /\ Quality(row) = "valid" =>
          Energy(row) = 4 * Reading(meter, channel, First + n)
  \/ /\ rows = With(original, n, row)
     /\ row.day \in Nat /\ row.slot \in Nat
     /\ row.day # original[n].day \/ row.slot # original[n].slot
  \/ \E m \in 1..Count : rows = Exchanged(original, m, n)

\* One by one, how a row may be misread.
LEMMA MisreadIs ==
  ASSUME NEW row, NEW other \in Misread(row)
  PROVE  \/ other = [row EXCEPT !.value = NoValue]
         \/ other = [row EXCEPT !.status = "unrecognized"]
         \/ other = [row EXCEPT !.value = 4 * @, !.unit = "kW"]
         \/ other = [row EXCEPT !.unit = "MWh"]
         \/ \E day \in 0..LastDay + 1, slot \in 0..Normal + 1 :
              other = Relabelled(row, day, slot)
  BY DEF Misread

\* A damaged export is damaged at one row, or at two that changed places.
LEMMA DamageIs ==
  ASSUME clock \in Shifts, NEW meter, NEW channel, NEW rows \in Damaged(Rows(meter, channel))
  PROVE  \E n \in 1..Count : \E row : DamagedAt(meter, channel, rows, n, row)
<1> DEFINE original == Rows(meter, channel)
<1>1. DOMAIN original = 1..Count
  BY TrueRows
<1>2. PICK n \in 1..Count :
        rows \in
          {Without(original, n), Append(original, original[n]),
           Append(original, [original[n] EXCEPT !.value = @ + 1])}
          \cup {With(original, n, row) : row \in Misread(original[n])}
          \cup {Exchanged(original, m, n) : m \in 1..Count}
  <2> HIDE DEF original
  <2>1. rows \in Damaged(original)
    BY DEF original
  <2> QED
    BY <1>1, <2>1, Zenon DEF Damaged
<1> DEFINE reading == Reading(meter, channel, First + n)
<1>3. PICK d, s :
        original[n] = [day |-> d, slot |-> s, value |-> reading, unit |-> "kWh", status |-> "valid"]
  BY TrueRowIs
<1>4. First + n \in Nat
  BY TrueRows
<1>5. reading \in Nat /\ reading # NoValue
  BY <1>4, ReadingIsNat
<1> HIDE DEF original, reading
<1>6. original[n].day = d /\ original[n].slot = s
  BY <1>3, Z3
<1> DEFINE Kept(row) == row.day = original[n].day /\ row.slot = original[n].slot
           Exact(row) == RowAccepted(row) /\ Quality(row) = "valid" => Energy(row) = 4 * reading
<1> SUFFICES \E row :
           \/ rows = Without(original, n)
           \/ rows = Append(original, row) /\ Kept(row)
           \/ rows = With(original, n, row) /\ Kept(row) /\ Exact(row)
           \/ rows = With(original, n, row) /\ row.day \in Nat /\ row.slot \in Nat /\ ~Kept(row)
           \/ \E m \in 1..Count : rows = Exchanged(original, m, n)
  BY DEF original, reading, DamagedAt
<1>7. CASE rows = Without(original, n)
  BY <1>7
<1>8. CASE rows = Append(original, original[n])
  BY <1>8
<1>9. CASE rows = Append(original, [original[n] EXCEPT !.value = @ + 1])
  <2> DEFINE row == [original[n] EXCEPT !.value = @ + 1]
  <2>1. Kept(row)
    BY <1>3
  <2> QED
    BY <1>9, <2>1
<1>10. CASE rows = With(original, n, [original[n] EXCEPT !.value = NoValue])
  <2> DEFINE row == [original[n] EXCEPT !.value = NoValue]
  <2>1. row = [day |-> d, slot |-> s, value |-> NoValue, unit |-> "kWh", status |-> "valid"]
    BY <1>3
  <2> HIDE DEF row
  <2>2. row.day = d /\ row.slot = s /\ row.value = NoValue /\ row.status = "valid"
    BY <2>1
  <2>3. Kept(row) /\ Quality(row) = "missing"
    BY <1>6, <2>2 DEF Quality
  <2> QED
    BY <1>10, <2>3 DEF row
<1>11. CASE rows = With(original, n, [original[n] EXCEPT !.status = "unrecognized"])
  <2> DEFINE row == [original[n] EXCEPT !.status = "unrecognized"]
  <2>1. Kept(row) /\ ~RowAccepted(row)
    BY <1>3 DEF RowAccepted
  <2> QED
    BY <1>11, <2>1
<1>12. CASE rows = With(original, n, [original[n] EXCEPT !.value = 4 * @, !.unit = "kW"])
  <2> DEFINE row == [original[n] EXCEPT !.value = 4 * @, !.unit = "kW"]
  <2>1. original[n].value = reading
    BY <1>3, Z3
  <2>4. row.value = 4 * reading /\ row.unit = "kW" /\ row.status = "valid"
    BY <1>3, <2>1
  <2>5. Kept(row)
    BY <1>3
  <2> HIDE DEF row
  <2>2. 4 * reading # NoValue
    BY <1>5, ValueAssumption
  <2>3. Energy(row) = 4 * reading
    BY <2>2, <2>4 DEF Energy, Quality
  <2> QED
    BY <1>12, <2>3, <2>5 DEF row
<1>13. CASE rows = With(original, n, [original[n] EXCEPT !.unit = "MWh"])
  <2> DEFINE row == [original[n] EXCEPT !.unit = "MWh"]
  <2>1. Kept(row) /\ row.unit = "MWh"
    BY <1>3
  <2>2. RowAccepted(row) => Quality(row) # "valid"
    BY <2>1 DEF RowAccepted
  <2> QED
    BY <1>13, <2>1, <2>2
<1>14. CASE \E day \in 0..LastDay + 1, slot \in 0..Normal + 1 :
              rows = With(original, n, Relabelled(original[n], day, slot))
  <2>1. PICK day \in 0..LastDay + 1, slot \in 0..Normal + 1 :
               rows = With(original, n, Relabelled(original[n], day, slot))
    BY <1>14
  <2> DEFINE row == Relabelled(original[n], day, slot)
  <2>2. row.day = day /\ row.slot = slot
    BY <1>3 DEF Relabelled
  <2>3. row.value = reading /\ row.unit = "kWh" /\ row.status = "valid"
    BY <1>3 DEF Relabelled
  <2>4. day \in Nat /\ slot \in Nat
    BY RangeAssumption, ClockIs
  <2> HIDE DEF row
  <2>5. rows = With(original, n, row)
    BY <2>1 DEF row
  <2>6. CASE day = d /\ slot = s
    <3>1. Kept(row)
      BY <1>6, <2>2, <2>6
    <3>2. Energy(row) = 4 * reading
      BY <1>5, <2>3 DEF Energy, Quality
    <3> QED
      BY <2>5, <3>1, <3>2
  <2>7. CASE ~(day = d /\ slot = s)
    BY <1>6, <2>2, <2>4, <2>5, <2>7
  <2> QED
    BY <2>6, <2>7
<1>15. CASE \E m \in 1..Count : rows = Exchanged(original, m, n)
  BY <1>15
<1>17. CASE rows \in {With(original, n, row) : row \in Misread(original[n])}
  <2>1. PICK row \in Misread(original[n]) : rows = With(original, n, row)
    BY <1>17
  <2>2. \/ row = [original[n] EXCEPT !.value = NoValue]
        \/ row = [original[n] EXCEPT !.status = "unrecognized"]
        \/ row = [original[n] EXCEPT !.value = 4 * @, !.unit = "kW"]
        \/ row = [original[n] EXCEPT !.unit = "MWh"]
        \/ \E day \in 0..LastDay + 1, slot \in 0..Normal + 1 :
             row = Relabelled(original[n], day, slot)
    BY MisreadIs
  <2> QED
    BY <1>10, <1>11, <1>12, <1>13, <1>14, <2>1, <2>2, Zenon
<1> QED
  BY <1>2, <1>7, <1>8, <1>9, <1>15, <1>17, Zenon

\* A file that lost a row is refused.
LEMMA LostRowRefused ==
  ASSUME clock \in Shifts, NEW meter, NEW channel, NEW n \in 1..Count,
         NEW rows, rows = Without(Rows(meter, channel), n),
         Normalizable(clock, rows), DaysAreWhole(clock, Intervals(clock, rows))
  PROVE  FALSE
<1> DEFINE original == Rows(meter, channel)
           day == original[n].day
           origin == [k \in 1..Count - 1 |-> IF k < n THEN k ELSE k + 1]
<1>1. Count \in Nat /\ First \in Nat
  BY TrueRows
<1>2. \A k \in 1..Count : /\ original[k].day \in Nat /\ original[k].day \in FirstDay..LastDay
                          /\ original[k].slot \in 1..Normal
                          /\ First + k \in Day(clock, original[k].day)
                          /\ LocalEnd(original[k]) = Local(clock, First + k)
  BY TrueRows
<1>3. /\ DOMAIN rows = 1..Count - 1
      /\ \A k \in 1..Count - 1 : rows[k] = IF k < n THEN original[k] ELSE original[k + 1]
  <2>1. PICK S : original \in [1..Count -> S]
    BY RowsAreSequence
  <2> HIDE DEF original
  <2> QED
    BY <1>1, <2>1, WithoutIs DEF original
<1> HIDE DEF original
<1>4. ASSUME NEW k \in 1..Count - 1
      PROVE  /\ origin[k] \in 1..Count /\ origin[k] # n
             /\ rows[k] = original[origin[k]]
             /\ \A l \in 1..Count - 1 : origin[k] = origin[l] => k = l
  <2>1. n \in Int /\ \A l \in 1..Count - 1 : origin[l] = IF l < n THEN l ELSE l + 1
    BY <1>1
  <2> HIDE DEF origin
  <2>2. origin[k] \in 1..Count /\ origin[k] # n
    BY <1>1, <2>1
  <2>3. rows[k] = original[origin[k]]
    BY <1>3, <2>1
  <2>4. \A l \in 1..Count - 1 : origin[k] = origin[l] => k = l
    BY <1>1, <2>1
  <2> QED
    BY <2>2, <2>3, <2>4
<1> HIDE DEF origin
<1>5. \A k \in DOMAIN rows : /\ LocalEnd(rows[k]) = Local(clock, First + origin[k])
                             /\ rows[k].day \in Nat /\ rows[k].slot \in 1..Normal
  BY <1>2, <1>3, <1>4
<1>6. \A k \in DOMAIN rows : LocalEnd(rows[k]) \in Int
  <2>1. \A k \in 1..Count : Local(clock, First + k) \in Int
    BY <1>1, ReadingsAre
  <2> QED
    BY <1>3, <1>4, <1>5, <2>1
<1>7. DOMAIN rows \subseteq Nat
  BY <1>3
<1>8. First + n \notin IntervalEnds(clock, rows)
  <2>1. \A k \in Occurrences(rows, Local(clock, First + n)) :
          /\ origin[k] \in 1..Count \ {n}
          /\ Local(clock, First + origin[k]) = Local(clock, First + n)
          /\ \A l \in Occurrences(rows, Local(clock, First + n)) : origin[k] = origin[l] => k = l
    BY <1>3, <1>4, <1>5 DEF Occurrences
  <2> QED
    BY <1>6, <1>7, <2>1, LostTime
<1>9. PICK k \in DOMAIN rows : rows[k].day = day
  <2>1. PICK m \in 1..Count : First + m \in Day(clock, day) /\ First + m # First + n
    BY <1>2, AnotherOfDay
  <2>2. original[m].day = day
    BY <1>2, <2>1, OneDay
  <2>3. m # n
    BY <2>1
  <2>4. CASE m < n
    BY <1>1, <1>3, <2>2, <2>4
  <2>5. CASE m > n
    <3>1. m - 1 \in 1..Count - 1 /\ ~(m - 1 < n) /\ m - 1 + 1 = m
      BY <1>1, <2>5
    <3>2. rows[m - 1] = original[m]
      BY <1>3, <3>1
    <3> QED
      BY <1>3, <2>2, <3>1, <3>2
  <2> QED
    BY <2>3, <2>4, <2>5
<1>10. Labelled(rows)
  BY <1>5, <1>7 DEF Labelled
<1>11. Day(clock, day) \subseteq IntervalEnds(clock, rows)
  BY <1>9, <1>10, AcceptedDaysAreWhole
<1> QED
  BY <1>2, <1>8, <1>11

\* A file that has another row in a place.
LEMMA WithIs ==
  ASSUME clock \in Shifts, NEW meter, NEW channel, NEW n \in 1..Count,
         NEW row, NEW rows, rows = With(Rows(meter, channel), n, row)
  PROVE  /\ DOMAIN rows = 1..Count
         /\ rows[n] = row
         /\ \A k \in 1..Count \ {n} : rows[k] = Rows(meter, channel)[k]
<1>1. DOMAIN Rows(meter, channel) = 1..Count
  BY TrueRows
<1> QED
  BY <1>1 DEF With

\* The time of a row that is labelled otherwise is lost.
LEMMA MovedRowIsLost ==
  ASSUME clock \in Shifts, NEW meter, NEW channel, NEW n \in 1..Count,
         NEW row, row.day \in Nat, row.slot \in 0..Normal,
         LocalEnd(row) # Local(clock, First + n),
         NEW rows, rows = With(Rows(meter, channel), n, row), Normalizable(clock, rows)
  PROVE  First + n \notin IntervalEnds(clock, rows)
<1> DEFINE original == Rows(meter, channel)
           origin == [k \in 1..Count |-> k]
<1>1. /\ Count \in Nat /\ First \in Nat
      /\ \A k \in 1..Count : LocalEnd(original[k]) = Local(clock, First + k)
  BY TrueRows
<1>2. DOMAIN rows = 1..Count /\ rows[n] = row /\ \A k \in 1..Count \ {n} : rows[k] = original[k]
  BY WithIs
<1> HIDE DEF original
<1>3. \A k \in DOMAIN rows : LocalEnd(rows[k]) \in Int
  <2>1. LocalEnd(row) \in Int
    BY LabelsAreTimes
  <2>2. \A k \in 1..Count : Local(clock, First + k) \in Int
    BY <1>1, ReadingsAre
  <2> QED
    BY <1>1, <1>2, <2>1, <2>2
<1>4. DOMAIN rows \subseteq Nat
  BY <1>2
<1>5. \A k \in Occurrences(rows, Local(clock, First + n)) :
        /\ origin[k] \in 1..Count \ {n}
        /\ Local(clock, First + origin[k]) = Local(clock, First + n)
        /\ \A l \in Occurrences(rows, Local(clock, First + n)) : origin[k] = origin[l] => k = l
  BY <1>1, <1>2 DEF Occurrences
<1> HIDE DEF origin
<1> QED
  BY <1>3, <1>4, <1>5, LostTime

\* A row that is labelled with another time leaves a hole, and the file is
\* refused, but for one label: the midnight that begins the first day.
LEMMA MovedRowLeavesHole ==
  ASSUME clock \in Shifts, NEW meter, NEW channel, NEW n \in 1..Count,
         NEW row, row.day \in Nat, row.slot \in 0..Normal,
         \/ row.day # Rows(meter, channel)[n].day
         \/ row.slot # Rows(meter, channel)[n].slot,
         NEW rows, rows = With(Rows(meter, channel), n, row),
         Normalizable(clock, rows), DaysAreWhole(clock, Intervals(clock, rows))
  PROVE  /\ First + n \notin IntervalEnds(clock, rows)
         /\ row.day = FirstDay /\ row.slot = 0
         /\ Rows(meter, channel)[n].day = FirstDay
<1> DEFINE original == Rows(meter, channel)
           day == original[n].day
           hole == First + n
           start == Midnight(clock, day)
<1>1. /\ Count \in Nat /\ First \in Nat
      /\ \A i \in Instants : i \in Nat /\ i - First \in 1..Count
      /\ \A k \in 1..Count : /\ original[k].day \in Nat /\ original[k].day \in FirstDay..LastDay
                             /\ original[k].slot \in 1..Normal
                             /\ First + k \in Day(clock, original[k].day)
                             /\ LocalEnd(original[k]) = Local(clock, First + k)
  <2>1. Count \in Nat /\ First \in Nat
    BY TrueRows
  <2>2. \A i \in Instants : i \in Nat /\ i - First \in 1..Count
    BY TrueRows
  <2>3. \A k \in 1..Count : /\ original[k].day \in Nat /\ original[k].day \in FirstDay..LastDay
                            /\ original[k].slot \in 1..Normal
                            /\ First + k \in Day(clock, original[k].day)
                            /\ LocalEnd(original[k]) = Local(clock, First + k)
    BY TrueRows
  <2> QED
    BY <2>1, <2>2, <2>3
<1>2. DOMAIN rows = 1..Count /\ rows[n] = row /\ \A k \in 1..Count \ {n} : rows[k] = original[k]
  BY WithIs
<1>3. row.day # day \/ row.slot # original[n].slot
  OBVIOUS
<1>4. LocalEnd(row) # Local(clock, hole) => hole \notin IntervalEnds(clock, rows)
  BY MovedRowIsLost
<1>20. (hole \notin IntervalEnds(clock, rows) /\ row.day = FirstDay /\ row.slot = 0 /\ day = FirstDay)
       => (First + n \notin IntervalEnds(clock, rows) /\ row.day = FirstDay /\ row.slot = 0
           /\ Rows(meter, channel)[n].day = FirstDay)
  OBVIOUS
<1> SUFFICES hole \notin IntervalEnds(clock, rows) /\ row.day = FirstDay /\ row.slot = 0 /\ day = FirstDay
  BY <1>20
<1> HIDE DEF original
<1>5. day \in Nat /\ day \in FirstDay..LastDay /\ hole \in Day(clock, day) /\ hole \in Int
      /\ original[n].slot \in 1..Normal
  BY <1>1
<1>6. \A k \in DOMAIN rows : LocalEnd(rows[k]) \in Int
  <2>1. LocalEnd(row) \in Int
    BY LabelsAreTimes
  <2>2. \A k \in 1..Count : Local(clock, First + k) \in Int
    BY <1>1, ReadingsAre
  <2> QED
    BY <1>1, <1>2, <2>1, <2>2
<1>7. DOMAIN rows \subseteq Nat
  BY <1>2
<1>8. ASSUME NEW i \in IntervalEnds(clock, rows)
      PROVE  \E k \in 1..Count : /\ RowOf(clock, rows, i) = rows[k]
                                 /\ LocalEnd(rows[k]) = Local(clock, i) /\ i \in Int
                                 /\ k # n => rows[k] = original[k] /\ i \in Day(clock, original[k].day)
                                 /\ k = n => rows[k] = row
  <2>1. PICK k \in Occurrences(rows, Local(clock, i)) : RowOf(clock, rows, i) = rows[k]
    BY <1>6, <1>7, RowOfIsRow
  <2>2. k \in 1..Count /\ LocalEnd(rows[k]) = Local(clock, i) /\ i \in Int
    BY <1>2, <1>6, <1>7, <2>1, RowOfIsRow DEF Occurrences
  <2>3. k # n => rows[k] = original[k] /\ i \in Day(clock, original[k].day)
    BY <1>1, <1>2, <2>2, LabelIsInDay
  <2> QED
    BY <1>2, <2>1, <2>2, <2>3
\* A row of midnight is of no interval but the one that ends there.
<1>9. ASSUME row.slot = 0
      PROVE  /\ LocalEnd(row) = row.day * Normal
             /\ Candidates(clock, LocalEnd(row)) = {Midnight(clock, row.day)}
  <2>1. row.day * Normal \in Nat
    BY DaysApart
  <2>2. LocalEnd(row) = row.day * Normal
    BY <1>9, <2>1 DEF LocalEnd
  <2> QED
    BY <2>2, MidnightIs
\* The interval that ends at the hole is not of its day.
<1>10. ASSUME hole \in IntervalEnds(clock, rows), RowOf(clock, rows, hole).day = day PROVE FALSE
  <2>1. LocalEnd(row) = Local(clock, hole)
    BY <1>4, <1>10
  <2>2. row.slot = 0
    <3>1. SUFFICES ASSUME row.slot # 0 PROVE FALSE
      OBVIOUS
    <3>2. row.slot \in 1..Normal
      BY <3>1, ClockIs
    <3>3. row.day = day
      BY <1>5, <2>1, <3>2, LabelIsInDay, OneDay
    <3>4. LocalEnd(row) = LocalEnd(original[n])
      BY <1>1, <2>1
    <3>5. day * Normal \in Nat
      BY <1>5, DaysApart
    <3> HIDE DEF hole, start
    <3>6. row.slot = original[n].slot
      BY <1>5, <3>2, <3>3, <3>4, <3>5 DEF LocalEnd
    <3> QED
      BY <1>3, <3>3, <3>6
  <2>3. row.day # day
    <3>1. day * Normal < Local(clock, hole)
      BY <1>5, TimesOfDay
    <3>2. Local(clock, hole) = row.day * Normal /\ day * Normal \in Nat
      BY <1>5, <1>9, <2>1, <2>2, DaysApart
    <3> HIDE DEF hole, day
    <3> QED
      BY <3>1, <3>2
  <2>4. PICK k \in 1..Count : /\ RowOf(clock, rows, hole) = rows[k]
                              /\ LocalEnd(rows[k]) = Local(clock, hole)
                              /\ k # n => rows[k] = original[k]
                              /\ k = n => rows[k] = row
    BY <1>8, <1>10
  <2>5. k # n
    BY <1>10, <2>3, <2>4
  <2>6. Local(clock, First + k) = Local(clock, hole) /\ First + k \in Int
    BY <1>1, <2>4, <2>5
  <2>7. First + k \in Candidates(clock, LocalEnd(row)) /\ hole \in Candidates(clock, LocalEnd(row))
    BY <1>5, <2>1, <2>6, ReadingsAre
  <2>8. First + k = First + n
    BY <1>9, <2>2, <2>7
  <2> QED
    BY <1>1, <2>5, <2>8
\* Its day has another interval.
<1>11. PICK m \in 1..Count :
         First + m \in Day(clock, day) /\ First + m # hole /\ First + m # Midnight(clock, day + 1)
  BY <1>5, AnotherOfDay
<1> DEFINE e == First + m
<1>12. e \in Int /\ m # n /\ rows[m] = original[m] /\ e \in IntervalEnds(clock, rows)
  <2>1. e \in Int /\ m # n /\ rows[m] = original[m]
    BY <1>1, <1>2, <1>11
  <2>2. e \in Candidates(clock, LocalEnd(rows[m]))
    BY <1>1, <2>1, ReadingsAre
  <2> QED
    BY <1>2, <2>1, <2>2 DEF IntervalEnds, LocalEnds
<1>13. RowOf(clock, rows, e).day = day
  <2>1. PICK k \in 1..Count : /\ RowOf(clock, rows, e) = rows[k]
                              /\ LocalEnd(rows[k]) = Local(clock, e)
                              /\ k # n => rows[k] = original[k] /\ e \in Day(clock, original[k].day)
                              /\ k = n => rows[k] = row
    BY <1>8, <1>12
  <2>2. CASE k # n
    BY <1>1, <1>5, <1>11, <2>1, <2>2, OneDay
  <2>3. CASE k = n /\ row.slot # 0
    <3>1. row.slot \in 1..Normal
      BY <2>3, ClockIs
    <3>2. e \in Day(clock, row.day)
      BY <1>12, <2>1, <2>3, <3>1, LabelIsInDay
    <3> QED
      BY <1>5, <1>11, <2>1, <2>3, <3>2, OneDay
  <2>4. CASE k = n /\ row.slot = 0
    <3>1. Local(clock, e) = row.day * Normal /\ e \in Candidates(clock, LocalEnd(row))
      BY <1>9, <1>12, <2>1, <2>4, ReadingsAre
    <3>2. e = Midnight(clock, row.day)
      BY <1>9, <2>4, <3>1
    <3>3. day * Normal < row.day * Normal /\ row.day * Normal <= (day + 1) * Normal
      BY <1>5, <1>11, <1>12, <3>1, TimesOfDay
    <3>4. day + 1 \in Nat /\ day * Normal \in Nat /\ (day + 1) * Normal \in Nat
          /\ row.day * Normal \in Nat /\ (row.day + 1) * Normal = row.day * Normal + Normal
          /\ (day + 1) * Normal = day * Normal + Normal
      BY <1>5, DaysApart
    <3>5. row.day < day => row.day * Normal + Normal <= day * Normal
      BY <1>5, <3>4, DaysApart
    <3>6. day + 1 < row.day => (day + 1) * Normal + Normal <= row.day * Normal
      <4>1. (day + 1 + 1) * Normal = (day + 1) * Normal + Normal
        BY <3>4, DaysApart
      <4> QED
        BY <3>4, <4>1, DaysApart
    <3> HIDE DEF e, hole, start
    <3>7. row.day # day
      BY <3>3, <3>4
    <3>8. row.day = day + 1
      <4> HIDE DEF day
      <4> QED
        BY <1>5, <3>3, <3>4, <3>5, <3>6, <3>7, ClockIs
    <3> QED
      BY <1>11, <3>2, <3>8 DEF e
  <2> QED
    BY <2>2, <2>3, <2>4
\* So its day has an interval that does not end in it: at the midnight before.
<1>14. PICK i \in IntervalEnds(clock, rows) :
         RowOf(clock, rows, i).day = day /\ i \notin Day(clock, day) \ {hole}
  <2> HIDE DEF day, hole, e
  <2> QED
    BY <1>5, <1>12, <1>13, HoleRefused
<1>15. i \notin Day(clock, day)
  BY <1>10, <1>14
<1>16. /\ RowOf(clock, rows, i) = row /\ LocalEnd(row) = Local(clock, i) /\ i \in Int
       /\ row.day = day /\ row.slot = 0
  <2>1. PICK k \in 1..Count : /\ RowOf(clock, rows, i) = rows[k]
                              /\ LocalEnd(rows[k]) = Local(clock, i) /\ i \in Int
                              /\ k # n => rows[k] = original[k] /\ i \in Day(clock, original[k].day)
                              /\ k = n => rows[k] = row
    BY <1>8
  <2>2. k = n
    BY <1>14, <1>15, <2>1
  <2>3. row.day = day
    BY <1>14, <2>1, <2>2
  <2>4. row.slot # 0 => i \in Day(clock, row.day)
    <3>1. row.slot # 0 => row.slot \in 1..Normal
      BY ClockIs
    <3> QED
      BY <2>1, <2>2, <3>1, LabelIsInDay
  <2> QED
    BY <1>15, <2>1, <2>2, <2>3, <2>4
<1>17. LocalEnd(row) # Local(clock, hole)
  <2>1. day * Normal < Local(clock, hole) /\ day * Normal \in Nat
    BY <1>5, TimesOfDay, DaysApart
  <2>2. LocalEnd(row) = day * Normal
    BY <1>9, <1>16
  <2> HIDE DEF day, hole
  <2> QED
    BY <2>1, <2>2
\* After the first day, that midnight has its own row, before the moved one.
<1>18. ASSUME day # FirstDay PROVE FALSE
  <2>1. i = start /\ start \in Nat /\ Local(clock, start) = day * Normal
    <3>1. i \in Candidates(clock, LocalEnd(row))
      BY <1>16, ReadingsAre
    <3> QED
      BY <1>5, <1>9, <1>16, <3>1, MidnightIs
  <2>2. start \in Instants /\ start < hole
    <3>1. FirstDay \in Nat /\ LastDay + 1 \in Nat /\ FirstDay + 1 \in Nat /\ FirstDay + 1 <= day /\ day <= LastDay + 1
      BY <1>5, <1>18, RangeAssumption
    <3>2. Midnight(clock, FirstDay + 1) <= start /\ start <= Midnight(clock, LastDay + 1)
      BY <1>5, <3>1, MidnightsAscend
    <3>3. Midnight(clock, FirstDay) + 3 <= Midnight(clock, FirstDay + 1)
          /\ Midnight(clock, FirstDay) \in Nat /\ Midnight(clock, FirstDay + 1) \in Nat
      BY <3>1, DayIs
    <3>4. Midnight(clock, LastDay + 1) \in Nat
      BY <3>1, DayIs
    <3>5. start < hole
      <4>1. Midnight(clock, day) \in Nat /\ Midnight(clock, day + 1) \in Nat
        BY <1>5, DayIs
      <4> HIDE DEF day, hole
      <4> QED
        BY <1>5, <4>1 DEF Day
    <3> HIDE DEF start, hole
    <3> QED
      BY <2>1, <3>2, <3>3, <3>4, <3>5 DEF Instants
  <2> DEFINE p == start - First
             places == Occurrences(rows, Local(clock, i))
             first == Earlier(places)
  <2>3. p \in 1..Count /\ First + p = start /\ p < n
    BY <1>1, <2>1, <2>2
  <2>4. LocalEnd(rows[p]) = Local(clock, i)
    <3> HIDE DEF p, start
    <3> QED
      BY <1>1, <1>2, <2>1, <2>3
  <2>5. p \in places /\ places \in SUBSET Nat
    <3> HIDE DEF p
    <3> QED
      BY <1>2, <1>7, <2>3, <2>4 DEF Occurrences
  <2>6. first \in places /\ first <= p
    <3> HIDE DEF places, p
    <3> QED
      BY <2>5, FirstIs
  <2>7. first \in 1..Count /\ first # n /\ LocalEnd(rows[first]) = Local(clock, i)
    <3>1. first \in 1..Count /\ LocalEnd(rows[first]) = Local(clock, i)
      <4> HIDE DEF first
      <4> QED
        BY <1>2, <2>6 DEF Occurrences
    <3>2. first # n
      <4> HIDE DEF first, p, places
      <4> QED
        BY <2>3, <2>6, <3>1
    <3> QED
      BY <3>1, <3>2
  <2>8. RowOf(clock, rows, i) = rows[first]
    <3>1. Candidates(clock, Local(clock, i)) = {i}
      BY <1>9, <1>16, <2>1
    <3>2. Earlier({i}) = i
      BY <1>16, EarlierOfOne
    <3> QED
      BY <3>1, <3>2 DEF RowOf
  <2> HIDE DEF first
  <2>9. i \in Day(clock, original[first].day)
    BY <1>1, <1>2, <1>16, <2>7, LabelIsInDay
  <2>10. original[first].day = day
    BY <1>2, <1>14, <2>7, <2>8
  <2> QED
    BY <1>15, <2>9, <2>10
<1> QED
  BY <1>4, <1>16, <1>17, <1>18

\* A reading of a file tells the energy of an instant, if it tells any.
RowTells(meter, channel, row, i) ==
  Quality(row) = "valid" => Energy(row) = 4 * Reading(meter, channel, i)

\* What is read of a file that has damage: the days asked for, or all but an
\* interval of the first, and at every time the energy of its own instants.
Confined(meter, channel, rows) ==
  /\ WholeButForMidnight(IntervalEnds(clock, rows))
  /\ \A i \in IntervalEnds(clock, rows) :
       i \in Instants =>
         \E j \in IntervalEnds(clock, rows) :
           /\ Local(clock, j) = Local(clock, i)
           /\ RowTells(meter, channel, RowOf(clock, rows, i), j)
           /\ RowTells(meter, channel, RowOf(clock, rows, j), i)

\* A row at midnight of the first day is taken for the interval before, and
\* leaves a hole.
LEMMA MovedRowIsConfined ==
  ASSUME clock \in Shifts, NEW meter, NEW channel, NEW n \in 1..Count,
         NEW row, row.day \in Nat, row.slot \in 0..Normal,
         \/ row.day # Rows(meter, channel)[n].day
         \/ row.slot # Rows(meter, channel)[n].slot,
         NEW rows, rows = With(Rows(meter, channel), n, row),
         Normalizable(clock, rows), DaysAreWhole(clock, Intervals(clock, rows))
  PROVE  Confined(meter, channel, rows)
<1> DEFINE original == Rows(meter, channel)
           hole == First + n
           origin == [k \in 1..Count |-> First + k]
<1>1. /\ Count \in Nat /\ First \in Nat
      /\ \A i \in Instants : i \in Nat /\ i - First \in 1..Count
      /\ \A k \in 1..Count : /\ First + k \in Instants
                             /\ original[k].day \in Nat /\ original[k].day \in FirstDay..LastDay
                             /\ First + k \in Day(clock, original[k].day)
                             /\ LocalEnd(original[k]) = Local(clock, First + k)
  <2>1. Count \in Nat /\ First \in Nat
    BY TrueRows
  <2>2. \A i \in Instants : i \in Nat /\ i - First \in 1..Count
    BY TrueRows
  <2>3. \A k \in 1..Count : /\ First + k \in Instants
                            /\ original[k].day \in Nat /\ original[k].day \in FirstDay..LastDay
                            /\ First + k \in Day(clock, original[k].day)
                            /\ LocalEnd(original[k]) = Local(clock, First + k)
    BY TrueRows
  <2> QED
    BY <2>1, <2>2, <2>3
<1>2. DOMAIN rows = 1..Count /\ rows[n] = row /\ \A k \in 1..Count \ {n} : rows[k] = original[k]
  BY WithIs
<1>3. /\ hole \notin IntervalEnds(clock, rows)
      /\ row.day = FirstDay /\ row.slot = 0 /\ original[n].day = FirstDay
  BY MovedRowLeavesHole
<1>4. \A k \in 1..Count : RowTells(meter, channel, original[k], First + k)
  BY TrueRowIsExact DEF RowTells
<1> HIDE DEF original
<1>5. /\ LocalEnd(row) = FirstDay * Normal /\ LocalEnd(row) \in Int
      /\ Candidates(clock, LocalEnd(row)) = {First}
  <2>1. FirstDay \in Nat /\ FirstDay * Normal \in Nat
    BY RangeAssumption, DaysApart
  <2>2. LocalEnd(row) = FirstDay * Normal
    BY <1>3, <2>1 DEF LocalEnd
  <2> QED
    BY <2>1, <2>2, MidnightIs DEF First
<1>6. \A k \in DOMAIN rows : LocalEnd(rows[k]) \in Int
  <2>1. \A k \in 1..Count : Local(clock, First + k) \in Int
    BY <1>1, ReadingsAre
  <2> QED
    BY <1>1, <1>2, <1>5, <2>1
<1>7. DOMAIN rows \subseteq Nat
  BY <1>2
<1>8. First \notin Instants
  BY <1>1
<1>9. ASSUME NEW i \in Instants, i # hole PROVE i \in IntervalEnds(clock, rows)
  <2>1. i - First \in 1..Count /\ First + (i - First) = i /\ i - First # n /\ i \in Int
    BY <1>1, <1>9
  <2>2. i \in Candidates(clock, LocalEnd(rows[i - First]))
    BY <1>1, <1>2, <2>1, ReadingsAre
  <2> QED
    BY <1>2, <2>1, <2>2 DEF IntervalEnds, LocalEnds
<1>10. First \in IntervalEnds(clock, rows)
  BY <1>2, <1>5 DEF IntervalEnds, LocalEnds
<1>11. ASSUME NEW i \in IntervalEnds(clock, rows), i # First PROVE i \in Instants
  <2>1. PICK k \in 1..Count : i \in Candidates(clock, LocalEnd(rows[k]))
    BY <1>2 DEF IntervalEnds, LocalEnds
  <2>2. k # n
    BY <1>2, <1>5, <1>11, <2>1
  <2>3. i \in Day(clock, original[k].day)
    BY <1>1, <1>2, <2>1, <2>2, ReadingsShareDay
  <2> QED
    BY <1>1, <2>3, InstantsAre
<1>12. WholeButForMidnight(IntervalEnds(clock, rows))
  <2>1. IntervalEnds(clock, rows) = (Instants \ {hole}) \cup {First}
    BY <1>3, <1>8, <1>9, <1>10, <1>11
  <2>2. hole \in Instants
    BY <1>1
  <2>3. DayOf(hole) = FirstDay
    BY <1>1, <1>3, DayOfIs
  <2> QED
    BY <2>1, <2>2, <2>3 DEF WholeButForMidnight, First
<1>13. ASSUME NEW i \in IntervalEnds(clock, rows), i \in Instants
       PROVE  \E j \in IntervalEnds(clock, rows) :
                /\ Local(clock, j) = Local(clock, i)
                /\ RowTells(meter, channel, RowOf(clock, rows, i), j)
                /\ RowTells(meter, channel, RowOf(clock, rows, j), i)
  <2> DEFINE places == Occurrences(rows, Local(clock, i))
  <2>1. i \in Int /\ i # First
    BY <1>1, <1>8, <1>13
  <2>2. \A k \in places : k \in 1..Count \ {n} /\ LocalEnd(rows[k]) = Local(clock, i)
    <3>1. \A k \in places : k \in 1..Count /\ LocalEnd(rows[k]) = Local(clock, i)
      BY <1>2 DEF Occurrences
    <3>2. n \notin places
      <4>1. i \in Candidates(clock, Local(clock, i))
        BY <2>1, ReadingsAre
      <4> QED
        BY <1>2, <1>5, <2>1, <3>1, <4>1
    <3> QED
      BY <3>1, <3>2
  <2> HIDE DEF places
  <2>3. \A k \in 1..Count : origin[k] = First + k
    OBVIOUS
  <2> HIDE DEF origin
  <2>4. \A k \in places : /\ origin[k] \in Int /\ Local(clock, origin[k]) = Local(clock, i)
                          /\ \A l \in places : origin[k] = origin[l] => k = l
    <3> SUFFICES ASSUME NEW k \in places
                 PROVE  /\ origin[k] \in Int /\ Local(clock, origin[k]) = Local(clock, i)
                        /\ \A l \in places : origin[k] = origin[l] => k = l
      OBVIOUS
    <3>5. k \in 1..Count \ {n} /\ LocalEnd(rows[k]) = Local(clock, i)
      BY <2>2
    <3>6. rows[k] = original[k] /\ origin[k] = First + k
      BY <1>2, <2>3, <3>5
    <3>7. Count \in Nat /\ First \in Nat
      BY <1>1
    <3>1. k \in 1..Count /\ k \in Int /\ First + k \in Int /\ origin[k] = First + k
          /\ LocalEnd(original[k]) = Local(clock, i)
      BY <3>5, <3>6, <3>7
    <3>2. \A l \in places : l \in Int /\ origin[l] = First + l
      BY <2>2, <2>3, <3>7
    <3>3. Local(clock, First + k) = Local(clock, i)
      BY <1>1, <3>1
    <3>4. \A l \in places : origin[k] = origin[l] => k = l
      BY <3>1, <3>2, <3>7
    <3> QED
      BY <3>1, <3>3, <3>4
  <2>5. PICK j \in IntervalEnds(clock, rows) :
          /\ Local(clock, j) = Local(clock, i)
          /\ \E p, q \in places : /\ RowOf(clock, rows, i) = rows[p] /\ origin[p] = j
                                  /\ RowOf(clock, rows, j) = rows[q] /\ origin[q] = i
    BY <1>6, <1>7, <2>4, ReadingsArePaired DEF places
  <2> QED
    BY <1>2, <1>4, <2>2, <2>3, <2>5
<1> QED
  BY <1>12, <1>13 DEF Confined

\* Rows in another order are of the same times, and of their own instants but
\* for the readings of a repeated time.
LEMMA ExchangedRowsAreConfined ==
  ASSUME clock \in Shifts, NEW meter, NEW channel, NEW m \in 1..Count, NEW n \in 1..Count,
         NEW rows, rows = Exchanged(Rows(meter, channel), m, n), Normalizable(clock, rows)
  PROVE  Confined(meter, channel, rows)
<1> DEFINE original == Rows(meter, channel)
           place == [k \in 1..Count |-> IF k = m THEN n ELSE IF k = n THEN m ELSE k]
           origin == [k \in 1..Count |-> First + place[k]]
<1>1. /\ Count \in Nat /\ First \in Nat /\ DOMAIN original = 1..Count
      /\ \A i \in Instants : i \in Nat /\ i - First \in 1..Count
      /\ \A k \in 1..Count : /\ First + k \in Instants
                             /\ original[k].day \in Nat /\ original[k].day \in FirstDay..LastDay
                             /\ First + k \in Day(clock, original[k].day)
                             /\ LocalEnd(original[k]) = Local(clock, First + k)
  <2>1. Count \in Nat /\ First \in Nat /\ DOMAIN original = 1..Count
    BY TrueRows
  <2>2. \A i \in Instants : i \in Nat /\ i - First \in 1..Count
    BY TrueRows
  <2>3. \A k \in 1..Count : /\ First + k \in Instants
                            /\ original[k].day \in Nat /\ original[k].day \in FirstDay..LastDay
                            /\ First + k \in Day(clock, original[k].day)
                            /\ LocalEnd(original[k]) = Local(clock, First + k)
    BY TrueRows
  <2> QED
    BY <2>1, <2>2, <2>3
<1>2. \A k \in 1..Count : RowTells(meter, channel, original[k], First + k)
  BY TrueRowIsExact DEF RowTells
<1>13. rows = [original EXCEPT ![m] = original[n], ![n] = original[m]]
  BY DEF Exchanged
<1> HIDE DEF original
<1>3. /\ DOMAIN rows = 1..Count
      /\ \A k \in 1..Count : place[k] \in 1..Count /\ rows[k] = original[place[k]]
      /\ \A k \in 1..Count : place[place[k]] = k
  BY <1>1, <1>13
<1>4. \A k, l \in 1..Count : place[k] = place[l] => k = l
  BY <1>3
<1> HIDE DEF place
<1>5. \A k \in 1..Count : origin[k] = First + place[k]
  OBVIOUS
<1> HIDE DEF origin
<1>6. ASSUME NEW k \in 1..Count
      PROVE  LocalEnd(rows[k]) = Local(clock, origin[k]) /\ origin[k] \in Instants /\ origin[k] \in Int
  <2> DEFINE l == place[k]
  <2>1. l \in 1..Count /\ rows[k] = original[l] /\ origin[k] = First + l
    BY <1>3, <1>5
  <2> HIDE DEF l
  <2>2. First + l \in Instants /\ LocalEnd(original[l]) = Local(clock, First + l)
    BY <1>1, <2>1
  <2> QED
    BY <1>1, <2>1, <2>2
<1>7. DOMAIN rows \subseteq Nat /\ \A k \in DOMAIN rows : LocalEnd(rows[k]) \in Int
  <2>1. DOMAIN rows = 1..Count /\ Count \in Nat
    BY <1>1, <1>3
  <2>2. ASSUME NEW k \in 1..Count PROVE LocalEnd(rows[k]) \in Int
    BY <1>6, ReadingsAre
  <2> QED
    BY <2>1, <2>2
<1>8. IntervalEnds(clock, rows) \subseteq Instants
  <2> SUFFICES ASSUME NEW i \in IntervalEnds(clock, rows) PROVE i \in Instants
    OBVIOUS
  <2>1. PICK k \in 1..Count : i \in Candidates(clock, LocalEnd(rows[k]))
    BY <1>3 DEF IntervalEnds, LocalEnds
  <2>2. place[k] \in 1..Count /\ LocalEnd(rows[k]) = Local(clock, First + place[k])
    BY <1>3, <1>5, <1>6
  <2>3. i \in Day(clock, original[place[k]].day)
    BY <1>1, <2>1, <2>2, ReadingsShareDay
  <2> QED
    BY <1>1, <2>2, <2>3, InstantsAre
<1>9. Instants \subseteq IntervalEnds(clock, rows)
  <2> SUFFICES ASSUME NEW i \in Instants PROVE i \in IntervalEnds(clock, rows)
    OBVIOUS
  <2>1. i \in Int /\ i - First \in 1..Count /\ First + (i - First) = i
    BY <1>1
  <2> DEFINE k == place[i - First]
  <2>2. k \in 1..Count /\ place[k] = i - First
    BY <1>3, <2>1
  <2>3. origin[k] = i
    BY <1>5, <2>1, <2>2
  <2> HIDE DEF k
  <2>4. i \in Candidates(clock, LocalEnd(rows[k]))
    BY <1>6, <2>1, <2>2, <2>3, ReadingsAre
  <2> QED
    BY <1>3, <2>2, <2>4 DEF IntervalEnds, LocalEnds
<1>10. ASSUME NEW i \in IntervalEnds(clock, rows)
       PROVE  \E j \in IntervalEnds(clock, rows) :
                /\ Local(clock, j) = Local(clock, i)
                /\ RowTells(meter, channel, RowOf(clock, rows, i), j)
                /\ RowTells(meter, channel, RowOf(clock, rows, j), i)
  <2> DEFINE places == Occurrences(rows, Local(clock, i))
  <2>1. \A k \in places : k \in 1..Count /\ LocalEnd(rows[k]) = Local(clock, i)
    BY <1>3 DEF Occurrences
  <2> HIDE DEF places
  <2>2. \A k \in places : origin[k] \in Int /\ Local(clock, origin[k]) = Local(clock, i)
    <3> SUFFICES ASSUME NEW k \in places
                 PROVE  origin[k] \in Int /\ Local(clock, origin[k]) = Local(clock, i)
      OBVIOUS
    <3>1. k \in 1..Count /\ LocalEnd(rows[k]) = Local(clock, i)
      BY <2>1
    <3> QED
      BY <1>6, <3>1
  <2>3. \A k, l \in places : origin[k] = origin[l] => k = l
    <3> SUFFICES ASSUME NEW k \in places, NEW l \in places, origin[k] = origin[l] PROVE k = l
      OBVIOUS
    <3>1. k \in 1..Count /\ l \in 1..Count
      BY <2>1
    <3>2. /\ place[k] \in 1..Count /\ origin[k] = First + place[k]
          /\ place[l] \in 1..Count /\ origin[l] = First + place[l]
      BY <1>3, <1>5, <3>1
    <3>3. \A a, b \in 1..Count : First + a = First + b => a = b
      BY <1>1
    <3>4. place[k] = place[l]
      BY <3>2, <3>3
    <3> QED
      BY <1>4, <3>1, <3>4
  <2>4. PICK j \in IntervalEnds(clock, rows) :
          /\ Local(clock, j) = Local(clock, i)
          /\ \E p, q \in places : /\ RowOf(clock, rows, i) = rows[p] /\ origin[p] = j
                                  /\ RowOf(clock, rows, j) = rows[q] /\ origin[q] = i
    BY <1>7, <2>2, <2>3, ReadingsArePaired DEF places
  <2>5. \A k \in places : RowTells(meter, channel, rows[k], origin[k])
    BY <1>2, <1>3, <1>5, <2>1
  <2> QED
    BY <2>4, <2>5
<1> QED
  BY <1>8, <1>9, <1>10 DEF Confined, WholeButForMidnight

\* Of the files that differ from the true one in one row, wherever it is
\* labelled, or in the order of two, those that are accepted hold every interval
\* asked for, with the true measurement of its instant; but a row labelled
\* 00:00 of the first day leaves a hole in it, and the two instants of a
\* repeated local time may have each other's measurement.
THEOREM AcceptedRowsAreConfined ==
  ASSUME clock \in Shifts, NEW meter, NEW channel,
         NEW rows \in {Rows(meter, channel)} \cup Damaged(Rows(meter, channel)),
         \A k \in DOMAIN rows : RowAccepted(rows[k]),
         Normalizable(clock, rows), DaysAreWhole(clock, Intervals(clock, rows))
  PROVE  Confined(meter, channel, rows)
<1> DEFINE original == Rows(meter, channel)
           Exact(k) == RowTells(meter, channel, rows[k], First + k)
<1>1. /\ Count \in Nat /\ First \in Nat /\ DOMAIN original = 1..Count
      /\ \A k \in 1..Count : original[k].day \in Nat /\ original[k].slot \in 1..Normal
  BY TrueRows
<1>2. \A k \in 1..Count : RowTells(meter, channel, original[k], First + k)
  BY TrueRowIsExact DEF RowTells
<1>3. ASSUME NEW n \in 1..Count, NEW extra \in {0, 1}, KeepsTimes(rows, original, n, extra),
             \A k \in 1..Count : Exact(k)
      PROVE  Confined(meter, channel, rows)
  <2>1. /\ IntervalEnds(clock, rows) = Instants
        /\ \A i \in Instants : i - First \in 1..Count /\ RowOf(clock, rows, i) = rows[i - First]
    <3> HIDE DEF Exact
    <3>1. IntervalEnds(clock, rows) = Instants
      BY <1>3, TimesKept
    <3>2. \A i \in Instants : i - First \in 1..Count /\ RowOf(clock, rows, i) = rows[i - First]
      BY <1>3, TimesKept
    <3> QED
      BY <3>1, <3>2
  <2>2. \A i \in Instants : i \in Nat /\ First + (i - First) = i
    BY <1>1, TrueRows
  <2>3. \A i \in Instants : RowTells(meter, channel, RowOf(clock, rows, i), i)
    <3> HIDE DEF original
    <3> SUFFICES ASSUME NEW i \in Instants PROVE RowTells(meter, channel, RowOf(clock, rows, i), i)
      OBVIOUS
    <3>1. Exact(i - First)
      BY <1>3, <2>1
    <3> QED
      BY <2>1, <2>2, <3>1
  <2> QED
    BY <2>1, <2>3 DEF Confined, WholeButForMidnight
<1>4. CASE rows = original
  <2>1. 1 \in 1..Count
    <3>1. FirstDay \in FirstDay..LastDay
      BY RangeAssumption
    <3>2. PICK m \in 1..Count : TRUE
      BY <3>1, AnotherOfDay
    <3> QED
      BY <1>1, <3>2
  <2>2. DOMAIN rows = 1..Count + 0
    BY <1>1, <1>4
  <2>3. \A k \in 1..Count : Exact(k)
    BY <1>2, <1>4
  <2>4. KeepsTimes(rows, original, 1, 0)
    BY <1>4, <2>2 DEF KeepsTimes
  <2> HIDE DEF original, Exact
  <2> QED
    BY <1>3, <2>1, <2>3, <2>4
<1>5. CASE rows \in Damaged(original)
  <2>7. PICK n \in 1..Count : \E row : DamagedAt(meter, channel, rows, n, row)
    BY <1>5, DamageIs
  <2>8. PICK row : DamagedAt(meter, channel, rows, n, row)
    BY <2>7
  <2>1. \/ rows = Without(original, n)
        \/ /\ rows = Append(original, row)
           /\ row.day = original[n].day /\ row.slot = original[n].slot
        \/ /\ rows = With(original, n, row)
           /\ row.day = original[n].day /\ row.slot = original[n].slot
           /\ RowAccepted(row) /\ Quality(row) = "valid" =>
                Energy(row) = 4 * Reading(meter, channel, First + n)
        \/ /\ rows = With(original, n, row)
           /\ row.day \in Nat /\ row.slot \in Nat
           /\ row.day # original[n].day \/ row.slot # original[n].slot
        \/ \E m \in 1..Count : rows = Exchanged(original, m, n)
    BY <2>8 DEF DamagedAt
  <2>2. CASE rows = Without(original, n)
    BY <2>2, LostRowRefused
  <2>3. CASE rows = Append(original, row) /\ row.day = original[n].day /\ row.slot = original[n].slot
    <3>1. PICK S : original \in [1..Count -> S]
      BY RowsAreSequence
    <3>2. /\ DOMAIN rows = 1..Count + 1
          /\ \A k \in 1..Count : rows[k] = original[k]
          /\ rows[Count + 1] = row
      <4> HIDE DEF original
      <4> QED
        BY <1>1, <2>3, <3>1, AppendIs
    <3>3. \A k \in 1..Count : Exact(k)
      BY <1>2, <3>2
    <3>4. \A k \in 1..Count : rows[k].day = original[k].day /\ rows[k].slot = original[k].slot
      BY <3>2
    <3>5. rows[Count + 1].day = original[n].day /\ rows[Count + 1].slot = original[n].slot
      BY <2>3, <3>2
    <3> HIDE DEF original, Exact
    <3>6. KeepsTimes(rows, original, n, 1)
      BY <3>2, <3>4, <3>5 DEF KeepsTimes
    <3> QED
      BY <1>3, <3>3, <3>6
  <2>4. CASE /\ rows = With(original, n, row)
             /\ row.day = original[n].day /\ row.slot = original[n].slot
             /\ RowAccepted(row) /\ Quality(row) = "valid" =>
                  Energy(row) = 4 * Reading(meter, channel, First + n)
    <3>1. DOMAIN rows = 1..Count /\ rows[n] = row /\ \A k \in 1..Count \ {n} : rows[k] = original[k]
      BY <2>4, WithIs
    <3>2. \A k \in 1..Count : Exact(k)
      BY <1>2, <2>4, <3>1 DEF RowTells
    <3>3. \A k \in 1..Count : rows[k].day = original[k].day /\ rows[k].slot = original[k].slot
      BY <2>4, <3>1
    <3>4. DOMAIN rows = 1..Count + 0
      BY <1>1, <3>1
    <3> HIDE DEF original, Exact
    <3>5. KeepsTimes(rows, original, n, 0)
      BY <3>3, <3>4 DEF KeepsTimes
    <3> QED
      BY <1>3, <3>2, <3>5
  <2>5. CASE /\ rows = With(original, n, row)
             /\ row.day \in Nat /\ row.slot \in Nat
             /\ row.day # original[n].day \/ row.slot # original[n].slot
    <3>1. DOMAIN rows = 1..Count /\ rows[n] = row
      BY <2>5, WithIs
    <3>2. row.slot \in 0..Normal
      BY <3>1 DEF RowAccepted, ValidTime
    <3> QED
      BY <2>5, <3>2, MovedRowIsConfined
  <2>6. CASE \E m \in 1..Count : rows = Exchanged(original, m, n)
    BY <2>6, ExchangedRowsAreConfined
  <2> QED
    BY <2>1, <2>2, <2>3, <2>4, <2>5, <2>6
<1> QED
  BY <1>4, <1>5

\* What a commit may tell of a channel of its meter.
Committed(readings, elm, channel) ==
  /\ WholeButForMidnight({reading.interval_end : reading \in readings})
  /\ \A reading \in readings :
       reading.interval_end \in Instants =>
         \E twin \in readings :
           /\ Local(clock, twin.interval_end) = Local(clock, reading.interval_end)
           /\ reading.quality = "valid" => reading.value = 4 * Reading(elm, channel, twin.interval_end)
           /\ twin.quality = "valid" => twin.value = 4 * Reading(elm, channel, reading.interval_end)

\* What is read of a file are the intervals of its ends, of their rows.
LEMMA ReadingsOfIntervals ==
  ASSUME NEW shift, NEW rows
  PROVE  LET readings == Intervals(shift, rows) IN
         /\ {reading.interval_end : reading \in readings} = IntervalEnds(shift, rows)
         /\ \A reading \in readings :
              /\ reading.interval_end \in IntervalEnds(shift, rows)
              /\ reading.value = Energy(RowOf(shift, rows, reading.interval_end))
              /\ reading.quality = Quality(RowOf(shift, rows, reading.interval_end))
         /\ \A i \in IntervalEnds(shift, rows) : \E reading \in readings : reading.interval_end = i
<1> DEFINE readings == Intervals(shift, rows)
           Of(i) == Interval(i, RowOf(shift, rows, i))
<1>1. readings = {Of(i) : i \in IntervalEnds(shift, rows)}
  BY DEF Intervals
<1>2. \A i : /\ Of(i).interval_end = i
             /\ Of(i).value = Energy(RowOf(shift, rows, i))
             /\ Of(i).quality = Quality(RowOf(shift, rows, i))
  BY DEF Interval
<1> HIDE DEF readings, Of
<1>3. /\ {reading.interval_end : reading \in readings} = IntervalEnds(shift, rows)
      /\ \A reading \in readings :
           /\ reading.interval_end \in IntervalEnds(shift, rows)
           /\ reading.value = Energy(RowOf(shift, rows, reading.interval_end))
           /\ reading.quality = Quality(RowOf(shift, rows, reading.interval_end))
      /\ \A i \in IntervalEnds(shift, rows) : \E reading \in readings : reading.interval_end = i
  BY <1>1, <1>2
<1> QED
  BY <1>3 DEF readings

\* An accepted file of a meter and channel, true or damaged.
LEMMA AcceptedFileIsConfined ==
  ASSUME clock \in Shifts, NEW meter, NEW channel,
         NEW file \in {TrueFile(meter, channel)} \cup DamagedFiles(meter, channel),
         Accepted(clock, file, channel)
  PROVE  Committed(Intervals(clock, file.rows), meter, channel)
<1>1. file.rows \in {Rows(meter, channel)} \cup Damaged(Rows(meter, channel))
  BY DEF DamagedFiles, TrueFile
<1>2. /\ \A k \in DOMAIN file.rows : RowAccepted(file.rows[k])
      /\ Normalizable(clock, file.rows) /\ DaysAreWhole(clock, Intervals(clock, file.rows))
  BY DEF Accepted
<1> DEFINE rows == file.rows
           readings == Intervals(clock, rows)
<1>3. Confined(meter, channel, rows)
  BY <1>1, <1>2, AcceptedRowsAreConfined
<1>4. SUFFICES Committed(readings, meter, channel)
  OBVIOUS
<1> HIDE DEF rows
<1>5. /\ {reading.interval_end : reading \in readings} = IntervalEnds(clock, rows)
      /\ \A reading \in readings :
           /\ reading.interval_end \in IntervalEnds(clock, rows)
           /\ reading.value = Energy(RowOf(clock, rows, reading.interval_end))
           /\ reading.quality = Quality(RowOf(clock, rows, reading.interval_end))
      /\ \A i \in IntervalEnds(clock, rows) : \E reading \in readings : reading.interval_end = i
  BY ReadingsOfIntervals
<1> HIDE DEF readings
<1>6. ASSUME NEW reading \in readings, reading.interval_end \in Instants
      PROVE  \E twin \in readings :
               /\ Local(clock, twin.interval_end) = Local(clock, reading.interval_end)
               /\ reading.quality = "valid" => reading.value = 4 * Reading(meter, channel, twin.interval_end)
               /\ twin.quality = "valid" => twin.value = 4 * Reading(meter, channel, reading.interval_end)
  <2>1. PICK j \in IntervalEnds(clock, rows) :
          /\ Local(clock, j) = Local(clock, reading.interval_end)
          /\ RowTells(meter, channel, RowOf(clock, rows, reading.interval_end), j)
          /\ RowTells(meter, channel, RowOf(clock, rows, j), reading.interval_end)
    BY <1>3, <1>5, <1>6 DEF Confined
  <2>2. PICK twin \in readings : twin.interval_end = j
    BY <1>5
  <2> QED
    BY <1>5, <2>1, <2>2 DEF RowTells
<1> QED
  BY <1>3, <1>5, <1>6 DEF Confined, Committed

-----------------------------------------------------------------------------
(* What is committed                                                       *)

\* The steps before an export is asked for.
Unasked ==
  {"PREAUTH", "CREDENTIAL_FORM", "CREDENTIAL_SUBMISSION", "AUTH_REDIRECTS",
   "DATA_PROBE_METADATA", "DATA_PROBE_METERS"}

Exports(elm, channel) == {NoFile, TrueFile(elm, channel)} \cup DamagedFiles(elm, channel)

\* The files of a session are those of its meter, and of one row damaged at
\* most; none is there before it is asked for.
FilesAreExports ==
  /\ session.files = [channel \in Channels |-> session.files[channel]]
  /\ \A channel \in Channels : session.files[channel] \in Exports(session.meter.elm, channel)
  /\ session.state \in Unasked => session.files = NoFiles

ConfinedInv == FilesAreExports /\ DamageIsConfined

\* While the clock is the same, so are the days and the exports.
LEMMA SameClock ==
  ASSUME clock' = clock
  PROVE  /\ Instants' = Instants
         /\ \A elm, channel : Exports(elm, channel)' = Exports(elm, channel)
         /\ \A readings, elm, channel :
              Committed(readings, elm, channel)' = Committed(readings, elm, channel)
<1>1. Instants' = Instants
  BY DEF Instants
<1>2. \A elm, channel : Rows(elm, channel)' = Rows(elm, channel)
  BY <1>1 DEF Rows, DayOf
<1>3. \A elm, channel : TrueFile(elm, channel)' = TrueFile(elm, channel)
  BY <1>2 DEF TrueFile
<1>4. \A elm, channel : DamagedFiles(elm, channel)' = DamagedFiles(elm, channel)
  BY <1>2, <1>3 DEF DamagedFiles
<1>5. \A readings, elm, channel :
        Committed(readings, elm, channel)' = Committed(readings, elm, channel)
  BY <1>1 DEF Committed, WholeButForMidnight, DayOf
<1> QED
  BY <1>1, <1>3, <1>4, <1>5 DEF Exports

\* The property, channel by channel.
LEMMA ConfinedIs ==
  DamageIsConfined <=>
    (dataset.run # 0 =>
       \A channel \in Channels :
         Committed(dataset.readings[channel], dataset.meter.elm, channel))
  BY DEF DamageIsConfined, Committed, Tells

\* A commit stays what it was.
LEMMA SameCommit ==
  ASSUME DamageIsConfined, clock' = clock, dataset' = dataset
  PROVE  DamageIsConfined'
<1>1. \A readings, elm, channel :
        Committed(readings, elm, channel)' = Committed(readings, elm, channel)
  BY SameClock
<1>2. (dataset.run # 0 =>
         \A channel \in Channels :
           Committed(dataset.readings[channel], dataset.meter.elm, channel))'
  BY <1>1, ConfinedIs
<1> QED
  BY <1>2, ConfinedIs, PTL

\* A session without files.
LEMMA WithoutFiles ==
  ASSUME session'.files = NoFiles
  PROVE  FilesAreExports'
  BY DEF FilesAreExports, NoFiles, Exports

\* A session that keeps its files keeps its meter.
LEMMA SameFiles ==
  ASSUME FilesAreExports, clock' = clock,
         session'.files = session.files, session'.meter = session.meter,
         session'.state \in Unasked => session.state \in Unasked
  PROVE  FilesAreExports'
  BY SameClock DEF FilesAreExports

\* An export is received.
LEMMA FileReceived ==
  ASSUME FilesAreExports, SessionShape, session.state = "DATA_PROBE_EXPORT",
         NEW file \in Exports(session.meter.elm, NextExport), ExportReceived(file)
  PROVE  FilesAreExports'
<1>1. NextExport \in Channels
  BY DEF NextExport, Channels
<1>2. /\ session'.files = [session.files EXCEPT ![NextExport] = file]
      /\ session'.meter = session.meter
      /\ session'.state \in {"COMMIT", "DATA_PROBE_EXPORT"}
      /\ clock' = clock
  BY DEF ExportReceived, SessionShape
<1>3. /\ session'.files = [channel \in Channels |-> session'.files[channel]]
      /\ \A channel \in Channels :
           session'.files[channel] \in Exports(session.meter.elm, channel)
  BY <1>1, <1>2 DEF FilesAreExports
<1>4. session'.state \notin Unasked
  BY <1>2 DEF Unasked
<1> QED
  BY <1>2, <1>3, <1>4, SameClock DEF FilesAreExports

\* What is committed was accepted, so it was not missing.
LEMMA CommittedIsConfined ==
  ASSUME clock \in Shifts, FilesAreExports, CommitFiles
  PROVE  DamageIsConfined'
<1>1. /\ clock' = clock
      /\ dataset'.meter = session.meter
      /\ dataset'.readings =
           [channel \in Channels |-> Intervals(clock, session.files[channel].rows)]
      /\ Parsed
  BY DEF CommitFiles
<1>2. ASSUME NEW channel \in Channels
      PROVE  Committed(dataset'.readings[channel], session.meter.elm, channel)
  <2> DEFINE file == session.files[channel]
             elm == session.meter.elm
  <2>1. Accepted(clock, file, channel)
    BY <1>1 DEF Parsed
  <2>2. file # NoFile
    BY <2>1 DEF Accepted, NoFile
  <2>3. file \in {TrueFile(elm, channel)} \cup DamagedFiles(elm, channel)
    BY <2>2 DEF FilesAreExports, Exports
  <2>4. dataset'.readings[channel] = Intervals(clock, file.rows)
    BY <1>1
  <2> HIDE DEF file, elm
  <2>5. Committed(Intervals(clock, file.rows), elm, channel)
    BY <2>1, <2>3, AcceptedFileIsConfined
  <2> QED
    BY <2>4, <2>5 DEF elm
<1>3. (dataset.run # 0 =>
         \A channel \in Channels :
           Committed(dataset.readings[channel], dataset.meter.elm, channel))'
  BY <1>1, <1>2, SameClock
<1> QED
  BY <1>3, ConfinedIs, PTL

\* One case for the actions that change files or the commit, and one for all
\* that leave both alone.
LEMMA StepKeepsConfinedInv ==
  ASSUME SessionInv, ConfinedInv, [SessionNext]_vars
  PROVE  ConfinedInv'
<1> USE DEF ConfinedInv
<1>1. clock \in Shifts /\ SessionShape
  BY DEF SessionInv, SessionTypeOK
<1>2. CASE Begin \/ AttemptNotRecorded \/ \E closes \in BOOLEAN : Cleanup(closes)
  <2>1. session'.files = NoFiles /\ clock' = clock /\ dataset' = dataset
    BY <1>2 DEF Begin, AttemptNotRecorded, Cleanup, NoSession
  <2> QED
    BY <2>1, WithoutFiles, SameCommit
<1>3. ASSUME session' = Failed, UNCHANGED Rest PROVE ConfinedInv'
  <2>1. /\ session'.files = session.files /\ session'.meter = session.meter
        /\ session'.state = "CLEANUP" /\ clock' = clock /\ dataset' = dataset
    BY <1>1, <1>3 DEF Failed, Rest, SessionShape
  <2> QED
    BY <2>1, SameFiles, SameCommit DEF Unasked
<1>4. CASE RequestRefused \/ RequestFails \/ PageRejected \/ MetadataRejected \/ ExportRejected
  <2>1. session' = Failed /\ UNCHANGED Rest
    BY <1>4 DEF RequestRefused, RequestFails, PageRejected, MetadataRejected, ExportRejected, Ends
  <2> QED
    BY <1>3, <2>1
<1>5. CASE \E host \in Hosts : StartRedirected(host) \/ LoginForm(host)
  <2>1. /\ session'.files = session.files /\ session'.meter = session.meter
        /\ session.state \in Unasked /\ clock' = clock /\ dataset' = dataset
    BY <1>1, <1>5 DEF StartRedirected, LoginForm, To, Rest, SessionShape, Unasked
  <2> QED
    BY <2>1, SameFiles, SameCommit
<1>6. CASE Submit \/ FollowAuthRedirect
  <2>1. /\ session.state \in Unasked /\ clock' = clock /\ dataset' = dataset
    BY <1>6 DEF Submit, FollowAuthRedirect, Rest, Unasked
  <2>2. session'.files = session.files /\ session'.meter = session.meter
    <3>1. Answered
      BY <1>6 DEF Submit, FollowAuthRedirect
    <3> QED
      BY <1>1, <3>1 DEF Answered, ApplicationReached, Continues, To, Failed, SessionShape
  <2> QED
    BY <2>1, <2>2, SameFiles, SameCommit
<1>7. CASE \/ \E entries \in Lists : MetadataReceived(entries) \/ MetersReceived(entries)
           \/ MetersUnavailable
  <2>1. /\ session.state \in Unasked /\ clock' = clock /\ dataset' = dataset
    BY <1>7 DEF MetadataReceived, MetersReceived, MetersUnavailable, Rest, Unasked
  <2>2. session'.files = session.files
    BY <1>1, <1>7
    DEF MetadataReceived, MetersReceived, MetersUnavailable, Verified, Ask, Failed, SessionShape
  <2>3. session'.files = NoFiles
    BY <2>1, <2>2 DEF FilesAreExports
  <2> QED
    BY <2>1, <2>3, WithoutFiles, SameCommit
<1>8. CASE TrueExport \/ DamagedExport
  <2>1. PICK file \in Exports(session.meter.elm, NextExport) : ExportReceived(file)
    BY <1>8 DEF TrueExport, DamagedExport, Exports
  <2>2. session.state = "DATA_PROBE_EXPORT" /\ clock' = clock /\ dataset' = dataset
    BY <2>1 DEF ExportReceived
  <2> QED
    BY <1>1, <2>1, <2>2, FileReceived, SameCommit
<1>9. CASE CommitFiles
  <2>1. session'.files = NoFiles
    BY <1>1, <1>9 DEF CommitFiles, SessionShape
  <2> QED
    BY <1>1, <1>9, <2>1, WithoutFiles, CommittedIsConfined
<1>10. CASE CommitFails
  <2>1. session'.files = NoFiles /\ clock' = clock /\ dataset' = dataset
    BY <1>1, <1>10 DEF CommitFails, Failed, Rest, SessionShape
  <2> QED
    BY <2>1, WithoutFiles, SameCommit
<1>11. CASE CollectCompletes \/ \E kept \in BOOLEAN : CollectFails(kept)
  <2>1. /\ session'.files = session.files /\ session'.meter = session.meter
        /\ session'.state = "CLEANUP" /\ clock' = clock /\ dataset' = dataset
    BY <1>1, <1>11 DEF CollectCompletes, CollectFails, Failed, Rest, SessionShape
  <2> QED
    BY <2>1, SameFiles, SameCommit DEF Unasked
<1>12. CASE UNCHANGED vars
  <2>1. session' = session /\ clock' = clock /\ dataset' = dataset
    BY <1>12 DEF vars
  <2> QED
    BY <2>1, SameFiles, SameCommit
<1> QED
  BY <1>2, <1>4, <1>5, <1>6, <1>7, <1>8, <1>9, <1>10, <1>11, <1>12 DEF SessionNext, Step

\* Before the first cycle nothing was exported or committed.
LEMMA ConfinedInvInitially == SessionInit => ConfinedInv
  BY DEF SessionInit, NoSession, NoDataset, ConfinedInv, FilesAreExports, NoFiles, Exports, DamageIsConfined

\* Whatever one row of an export tells, at whatever time of whatever day, and
\* whichever two rows change places, the damage to a commit is confined to a
\* hole in the first day, left by a row labelled 00:00 of that day, and to the
\* two instants of a repeated local time, which may have each other's
\* measurement; for every number of days, every length of a day and of an hour,
\* and whenever the clock changes within a day.
THEOREM DamageIsConfinedHolds == SessionSpec => []DamageIsConfined
<1>1. SessionInv /\ ConfinedInv /\ [SessionNext]_vars => ConfinedInv'
  BY StepKeepsConfinedInv
<1>2. ConfinedInv => DamageIsConfined
  BY DEF ConfinedInv
<1> QED
  BY ConfinedInvInitially, SessionInvHolds, <1>1, <1>2, PTL DEF SessionSpec

=============================================================================
