------------------------- MODULE PairingDiscovery_proof -------------------------
(***************************************************************************)
(* Proofs of the safety properties of PairingDiscovery, for any number of  *)
(* bootstraps, tokens, handler threads and faults.                         *)
(*                                                                         *)
(* RecordedDiscoveryIsCurrent is not inductive: whether record, the last   *)
(* step of _publish_new, writes the bootstrap's own message depends on     *)
(* what happened to the file since create, and whether finalize withdraws  *)
(* the recorded message depends on what happened since it read the file.   *)
(* IInv says what the locks make of those intervals.                       *)
(***************************************************************************)
EXTENDS PairingDiscovery, ManagedCredentials_proof

\* While the worker holds the store's lock the file may still be given a
\* fresh bootstrap, has no recorded message once the old one is forgotten,
\* and from create on has the bootstrap that is being published.
WorkerHolds ==
  /\ worker.pc \in PublishSteps => MayCreateBootstrap
  /\ worker.pc \in {"create", "publish", "record"} => cred.discovery_uuid = NoUuid
  /\ worker.pc \in {"publish", "record"} =>
       worker.id \in Ids /\ worker.id = cred.pairing_id

\* A thread inside finalize works on an ACTIVE file; what it read is what the
\* file records until it is cleared; and once past its Supervisor call the
\* message it read is withdrawn.
FinalizerHolds ==
  \A f \in Finalizers :
    /\ finalizer[f].pc # "idle" => cred.state = "active"
    /\ finalizer[f].pc \in LockedFinalizeSteps =>
         cred.discovery_uuid \in {finalizer[f].uuid, NoUuid}
    /\ finalizer[f].pc = "complete" => finalizer[f].uuid \notin messages

IInv ==
  /\ DiscoveryTypeOK
  /\ ActiveMeansActive
  /\ RecordedDiscoveryIsCurrent
  /\ WorkerHolds
  /\ FinalizerHolds

(***************************************************************************)
(* Every step of the Collector, whichever ids and tokens its clients       *)
(* present and whatever else fails meanwhile.  DiscoveryNext is one such   *)
(* step, and so is what a step of ManagedOnboarding does to the Collector. *)
(***************************************************************************)
RequestStep ==
  /\ \/ UNCHANGED CredentialVars
     \/ /\ CredentialsLockFree
        /\ \/ \E id \in Ids \cup {NoId}, verifier \in Tokens \cup {NoToken} :
                ClaimSucceeds(id, verifier) \/ ClaimRejected(id, verifier)
           \/ \E token \in Tokens : ActivateSucceeds(token) \/ ActivateRejected(token)
  /\ UNCHANGED <<messages, worker, finalizer>>
  /\ faults' \in 0..MaxFaults

CollectorStep ==
  \/ WorkerProgress(Ids \ KnownIds)
  \/ WorkerFailure(Ids \ KnownIds)
  \/ \E f \in Finalizers, token \in Tokens : FinalizeBegins(f, token)
  \/ \E f \in Finalizers : FinalizeProgress(f) \/ FinalizeFails(f)
  \/ RequestStep
  \/ \E id \in Ids : Expires(id)
  \/ PendingPasses
  \/ Restart

-----------------------------------------------------------------------------
\* The part of DiscoveryTypeOK that is not about the credential file.
ThreadTypeOK ==
  /\ messages \subseteq Uuids
  /\ worker \in [pc : WorkerSteps, id : Ids \cup {NoId}, attempt : PublishAttempts]
  /\ finalizer \in [Finalizers -> [pc : FinalizeSteps, uuid : Uuids \cup {NoUuid}]]
  /\ faults \in 0..MaxFaults

\* No message is named by the UUID that stands for "none".
LEMMA NoUuidIsNone == NoUuid \notin Uuids
BY IdAssumption DEF NoUuid, Uuids

\* What the worker publishes at publish and records at record is a message of
\* the file's bootstrap.
LEMMA PublicationIsCurrent ==
  ASSUME IInv, worker.pc \in {"publish", "record"}
  PROVE  /\ ThisPublication \in Uuids
         /\ ThisPublication.id = cred.pairing_id
BY DEF IInv, WorkerHolds, DiscoveryTypeOK, ThisPublication, Uuids

\* On an ACTIVE file the worker is outside _publish_new.
LEMMA ActiveStopsWorker ==
  ASSUME IInv, cred.state = "active"
  PROVE  worker.pc \notin PublishSteps
BY DEF IInv, WorkerHolds, MayCreateBootstrap

\* Whatever the threads do, the file changes by operations of the store.
LEMMA StepIsCredentialStep ==
  ASSUME IInv, CollectorStep
  PROVE  CredentialStep
<1>1. Ids \ KnownIds \subseteq Ids \ {cred.pairing_id}
  BY DEF KnownIds
<1>2. CASE WorkerProgress(Ids \ KnownIds)
  BY <1>1, <1>2, PublicationIsCurrent
     DEF WorkerProgress, Wake, EnterPublishNew, RemoveOldDiscovery, ForgetOldDiscovery,
         CreateFreshBootstrap, PublishBootstrap, RecordDiscovery, CredentialStep
<1>3. CASE WorkerFailure(Ids \ KnownIds)
  BY <1>1, <1>3, PublicationIsCurrent
     DEF WorkerFailure, WakeReadFails, PublishNewReadFails, RemoveOldFails,
         PublishFails, PublishNewWriteFails, CredentialStep
<1>4. CASE \E f \in Finalizers, token \in Tokens : FinalizeBegins(f, token)
  BY <1>4 DEF FinalizeBegins, CredentialStep
<1>5. CASE \E f \in Finalizers : FinalizeProgress(f) \/ FinalizeFails(f)
  BY <1>5 DEF FinalizeProgress, FinalizeAcquires, FinalizeRemoves,
              FinalizeCompletes, FinalizeFails, CredentialStep
<1>6. CASE RequestStep
  BY <1>6 DEF RequestStep, CredentialStep
<1>7. CASE \E id \in Ids : Expires(id)
  BY <1>7 DEF Expires, BootstrapExpires, CredentialStep
<1>8. CASE PendingPasses
  BY <1>8 DEF PendingPasses, CredentialStep
<1>9. CASE Restart
  BY <1>9 DEF Restart, CredentialStep
<1> QED
  BY <1>2, <1>3, <1>4, <1>5, <1>6, <1>7, <1>8, <1>9 DEF CollectorStep

\* A step of DiscoveryNext, with the ids and secrets a client can know.
LEMMA DiscoveryNextIsStep ==
  ASSUME IInv, DiscoveryNext
  PROVE  CollectorStep
<1>1. Presentable \subseteq Ids \cup {NoId}
  BY DEF Presentable, IInv, DiscoveryTypeOK, Uuids
<1>2. faults \in 0..MaxFaults
  BY DEF IInv, DiscoveryTypeOK
<1>3. CASE \/ \E id \in Presentable, verifier \in Tokens \cup {NoToken} : Claim(id, verifier)
           \/ \E token \in Tokens : Activate(token)
  BY <1>1, <1>2, <1>3 DEF CollectorStep, RequestStep, Claim, Activate
<1>4. CASE \E id \in KnownIds : Expires(id)
  BY <1>4 DEF CollectorStep, Expires, BootstrapExpires
<1> QED
  BY <1>3, <1>4 DEF DiscoveryNext, CollectorStep

-----------------------------------------------------------------------------
LEMMA InitInv == DiscoveryInit => IInv
<1> SUFFICES ASSUME DiscoveryInit PROVE IInv
  OBVIOUS
<1>1. CredentialInv
  BY CredentialInitInv DEF DiscoveryInit
<1>2. ThreadTypeOK
  BY FaultAssumption
     DEF DiscoveryInit, ThreadTypeOK, WorkerAt, WorkerSteps, PublishAttempts,
         IdleFinalizer, FinalizeSteps
<1>3. RecordedDiscoveryIsCurrent /\ WorkerHolds /\ FinalizerHolds
  BY DEF DiscoveryInit, CredentialInit, EmptyState, RecordedDiscoveryIsCurrent,
         WorkerHolds, WorkerAt, PublishSteps, FinalizerHolds, IdleFinalizer,
         LockedFinalizeSteps
<1> QED
  BY <1>1, <1>2, <1>3
     DEF IInv, DiscoveryTypeOK, ThreadTypeOK, CredentialInv

\* A step of the worker that succeeds.
LEMMA WorkerStepInv ==
  ASSUME IInv, WorkerProgress(Ids \ KnownIds)
  PROVE  ThreadTypeOK' /\ RecordedDiscoveryIsCurrent' /\ WorkerHolds' /\ FinalizerHolds'
<1> USE DEF WorkerSteps, PublishSteps, WorkerAt
<1>0. ThreadTypeOK /\ RecordedDiscoveryIsCurrent /\ WorkerHolds /\ FinalizerHolds
  BY DEF IInv, DiscoveryTypeOK, ThreadTypeOK
<1>1. CASE Wake
  BY <1>0, <1>1
     DEF Wake, CredentialVars, ThreadTypeOK, PublishAttempts, RecordedDiscoveryIsCurrent,
         WorkerHolds, FinalizerHolds, LockedFinalizeSteps
<1>2. CASE EnterPublishNew
  <2>1. ~StillValid => MayCreateBootstrap
    BY DEF StillValid, MayCreateBootstrap
  <2> QED
    BY <1>0, <1>2, <2>1
       DEF EnterPublishNew, CredentialVars, ThreadTypeOK, PublishAttempts,
           RecordedDiscoveryIsCurrent, WorkerHolds, MayCreateBootstrap, FinalizerHolds,
           LockedFinalizeSteps
<1>3. CASE RemoveOldDiscovery
  BY <1>0, <1>3
     DEF RemoveOldDiscovery, CredentialVars, ThreadTypeOK, PublishAttempts,
         RecordedDiscoveryIsCurrent, WorkerHolds, MayCreateBootstrap, FinalizerHolds,
         LockedFinalizeSteps
<1>4. CASE ForgetOldDiscovery
  <2>1. /\ cred'.discovery_uuid = NoUuid
        /\ cred'.state = cred.state
        /\ MayCreateBootstrap'
    BY <1>0, <1>4
       DEF ForgetOldDiscovery, SetDiscoveryUuid, WorkerHolds, MayCreateBootstrap, IInv,
           DiscoveryTypeOK, CredentialTypeOK, CredentialRecord
  <2> QED
    BY <1>0, <1>4, <2>1
       DEF ForgetOldDiscovery, ThreadTypeOK, PublishAttempts, RecordedDiscoveryIsCurrent,
           WorkerHolds, FinalizerHolds, LockedFinalizeSteps
<1>5. CASE \E id \in Ids \ KnownIds : CreateFreshBootstrap(id)
  <2>1. PICK id \in Ids : CreateFreshBootstrap(id)
    BY <1>5
  <2>2. /\ cred' = WithBootstrap(id)
        /\ MayCreateBootstrap
        /\ cred.discovery_uuid = NoUuid
    BY <1>0, <2>1 DEF CreateFreshBootstrap, CreateBootstrap, WorkerHolds
  <2>3. /\ cred'.state = "bootstrap_available"
        /\ cred'.pairing_id = id
        /\ cred'.discovery_uuid = NoUuid
    BY <2>2 DEF WithBootstrap, EmptyState
  <2>4. \A f \in Finalizers : finalizer[f].pc = "idle"
    BY <1>0, <2>2 DEF MayCreateBootstrap, FinalizerHolds
  <2> QED
    BY <1>0, <2>1, <2>3, <2>4
       DEF CreateFreshBootstrap, ThreadTypeOK, PublishAttempts, RecordedDiscoveryIsCurrent,
           WorkerHolds, MayCreateBootstrap, FinalizerHolds, LockedFinalizeSteps
<1>6. CASE PublishBootstrap
  <2>1. ThisPublication \in Uuids /\ worker.pc = "publish"
    BY <1>6, PublicationIsCurrent DEF PublishBootstrap
  <2>2. \A f \in Finalizers : finalizer[f].pc = "idle"
    BY <1>0, <2>1 DEF WorkerHolds, MayCreateBootstrap, FinalizerHolds
  <2> QED
    BY <1>0, <1>6, <2>1, <2>2
       DEF PublishBootstrap, CredentialVars, ThreadTypeOK, RecordedDiscoveryIsCurrent,
           WorkerHolds, MayCreateBootstrap, FinalizerHolds, LockedFinalizeSteps
<1>7. CASE RecordDiscovery
  <2>1. /\ ThisPublication.id = cred.pairing_id
        /\ worker.pc = "record"
    BY <1>7, PublicationIsCurrent DEF RecordDiscovery
  <2>2. /\ cred'.discovery_uuid = ThisPublication
        /\ cred'.pairing_id = cred.pairing_id
    BY <1>7 DEF RecordDiscovery, SetDiscoveryUuid, IInv, DiscoveryTypeOK,
                CredentialTypeOK, CredentialRecord
  <2>3. \A f \in Finalizers : finalizer[f].pc = "idle"
    BY <1>0, <2>1 DEF WorkerHolds, MayCreateBootstrap, FinalizerHolds
  <2> QED
    BY <1>0, <1>7, <2>1, <2>2, <2>3
       DEF RecordDiscovery, ThreadTypeOK, PublishAttempts, RecordedDiscoveryIsCurrent,
           WorkerHolds, FinalizerHolds, LockedFinalizeSteps
<1> QED
  BY <1>1, <1>2, <1>3, <1>4, <1>5, <1>6, <1>7 DEF WorkerProgress

\* A step of the worker that fails: it ends up outside _publish_new, or
\* publishes the same bootstrap once more.
LEMMA WorkerFailureInv ==
  ASSUME IInv, WorkerFailure(Ids \ KnownIds)
  PROVE  ThreadTypeOK' /\ RecordedDiscoveryIsCurrent' /\ WorkerHolds' /\ FinalizerHolds'
<1> USE FaultAssumption DEF WorkerSteps, PublishSteps, WorkerAt, Fault
<1>0. ThreadTypeOK /\ RecordedDiscoveryIsCurrent /\ WorkerHolds /\ FinalizerHolds
  BY DEF IInv, DiscoveryTypeOK, ThreadTypeOK
<1>1. CASE WakeReadFails \/ PublishNewReadFails
  BY <1>0, <1>1
     DEF WakeReadFails, PublishNewReadFails, CredentialVars, ThreadTypeOK, PublishAttempts,
         RecordedDiscoveryIsCurrent, WorkerHolds, FinalizerHolds, LockedFinalizeSteps
<1>2. CASE RemoveOldFails
  BY <1>0, <1>2
     DEF RemoveOldFails, CredentialVars, ThreadTypeOK, PublishAttempts,
         RecordedDiscoveryIsCurrent, WorkerHolds, FinalizerHolds, LockedFinalizeSteps
<1>3. CASE PublishFails
  <2>1. ThisPublication \in Uuids /\ worker.pc = "publish"
    BY <1>3, PublicationIsCurrent DEF PublishFails
  <2>2. \A f \in Finalizers : finalizer[f].pc = "idle"
    BY <1>0, <2>1 DEF WorkerHolds, MayCreateBootstrap, FinalizerHolds
  <2>3. messages' \subseteq Uuids
    BY <1>0, <1>3, <2>1 DEF PublishFails, ThreadTypeOK
  <2>4. /\ worker' \in [pc : WorkerSteps, id : Ids \cup {NoId}, attempt : PublishAttempts]
        /\ worker'.pc \in {"publish", "wait"}
        /\ worker'.pc = "publish" => worker'.id = worker.id
    BY <1>0, <1>3 DEF PublishFails, ThreadTypeOK, PublishAttempts
  <2> QED
    BY <1>0, <1>3, <2>1, <2>2, <2>3, <2>4
       DEF PublishFails, CredentialVars, ThreadTypeOK, RecordedDiscoveryIsCurrent,
           WorkerHolds, MayCreateBootstrap, FinalizerHolds, LockedFinalizeSteps
<1>4. CASE \E id \in Ids \ KnownIds : PublishNewWriteFails(id)
  <2>1. PICK id \in Ids : PublishNewWriteFails(id)
    BY <1>4
  <2>2. /\ worker.pc \in PublishSteps
        /\ worker' = WorkerAt("wait")
        /\ UNCHANGED <<messages, finalizer>>
        /\ faults' \in 0..MaxFaults
    BY <1>0, <2>1 DEF PublishNewWriteFails, ThreadTypeOK
  <2>3. \A f \in Finalizers : finalizer[f].pc = "idle"
    BY <1>0, <2>2 DEF WorkerHolds, MayCreateBootstrap, FinalizerHolds
  <2>4. RecordedDiscoveryIsCurrent'
    <3>1. cred \in CredentialRecord
      BY DEF IInv, DiscoveryTypeOK, CredentialTypeOK
    <3>2. CASE UNCHANGED CredentialVars
      BY <1>0, <3>2 DEF CredentialVars, RecordedDiscoveryIsCurrent
    <3>3. CASE SetDiscoveryUuid(NoUuid)
      BY <3>1, <3>3 DEF SetDiscoveryUuid, RecordedDiscoveryIsCurrent, CredentialRecord
    <3>4. CASE worker.pc = "create" /\ CreateBootstrap(id)
      <4>1. cred' = WithBootstrap(id) /\ cred.discovery_uuid = NoUuid
        BY <1>0, <3>4 DEF CreateBootstrap, WorkerHolds
      <4> QED
        BY <4>1 DEF WithBootstrap, EmptyState, RecordedDiscoveryIsCurrent
    <3>5. CASE worker.pc = "record" /\ SetDiscoveryUuid(ThisPublication)
      BY <3>1, <3>5, PublicationIsCurrent
         DEF SetDiscoveryUuid, RecordedDiscoveryIsCurrent, CredentialRecord
    <3> QED
      BY <2>1, <3>2, <3>3, <3>4, <3>5 DEF PublishNewWriteFails
  <2> QED
    BY <1>0, <2>2, <2>3, <2>4
       DEF ThreadTypeOK, PublishAttempts, WorkerHolds, FinalizerHolds, LockedFinalizeSteps
<1> QED
  BY <1>1, <1>2, <1>3, <1>4 DEF WorkerFailure

\* A step of a thread inside finalize.
LEMMA FinalizeInv ==
  ASSUME IInv, NEW f \in Finalizers,
         \/ \E token \in Tokens : FinalizeBegins(f, token)
         \/ FinalizeProgress(f)
         \/ FinalizeFails(f)
  PROVE  ThreadTypeOK' /\ RecordedDiscoveryIsCurrent' /\ WorkerHolds' /\ FinalizerHolds'
<1> USE FaultAssumption, NoUuidIsNone
    DEF FinalizeSteps, LockedFinalizeSteps, IdleFinalizer, Fault
<1>0. /\ ThreadTypeOK /\ RecordedDiscoveryIsCurrent /\ WorkerHolds /\ FinalizerHolds
      /\ cred \in CredentialRecord
  BY DEF IInv, DiscoveryTypeOK, ThreadTypeOK, CredentialTypeOK
<1>1. cred.state = "active" => worker.pc \notin PublishSteps
  BY ActiveStopsWorker
<1>2. CASE \E token \in Tokens : FinalizeBegins(f, token)
  <2>1. cred.state = "active"
    BY <1>2 DEF FinalizeBegins, Authorized, Presents, IInv, ActiveMeansActive
  <2> QED
    BY <1>0, <1>1, <1>2, <2>1
       DEF FinalizeBegins, CredentialVars, ThreadTypeOK, RecordedDiscoveryIsCurrent,
           WorkerHolds, MayCreateBootstrap, FinalizerHolds
<1>3. CASE FinalizeAcquires(f)
  BY <1>0, <1>1, <1>3
     DEF FinalizeAcquires, CredentialVars, ThreadTypeOK, RecordedDiscoveryIsCurrent,
         WorkerHolds, MayCreateBootstrap, FinalizerHolds, CredentialRecord
<1>4. CASE FinalizeRemoves(f)
  BY <1>0, <1>1, <1>4
     DEF FinalizeRemoves, CredentialVars, ThreadTypeOK, RecordedDiscoveryIsCurrent,
         WorkerHolds, MayCreateBootstrap, FinalizerHolds
<1>5. CASE FinalizeCompletes(f)
  <2>1. /\ cred.state = "active" /\ cred'.state = "active"
        /\ cred'.discovery_uuid = NoUuid
    BY <1>0, <1>5 DEF FinalizeCompletes, CompleteFinalize, CredentialRecord
  <2> QED
    BY <1>0, <1>1, <1>5, <2>1
       DEF FinalizeCompletes, ThreadTypeOK, RecordedDiscoveryIsCurrent, WorkerHolds,
           PublishSteps, FinalizerHolds
<1>6. CASE FinalizeFails(f)
  <2>1. /\ finalizer[f].pc # "idle"
        /\ messages' \subseteq messages
        /\ finalizer' = [finalizer EXCEPT ![f] = IdleFinalizer]
        /\ worker' = worker
        /\ faults' \in 0..MaxFaults
        /\ UNCHANGED CredentialVars \/ CompleteFinalize
    BY <1>0, <1>6 DEF FinalizeFails, ThreadTypeOK
  <2>2. cred.state = "active" /\ worker.pc \notin PublishSteps
    BY <1>0, <1>1, <2>1 DEF FinalizerHolds
  <2>3. /\ cred'.state = "active"
        /\ cred'.discovery_uuid \in {cred.discovery_uuid, NoUuid}
        /\ RecordedDiscoveryIsCurrent'
    BY <1>0, <2>1, <2>2
       DEF CredentialVars, CompleteFinalize, CredentialRecord, RecordedDiscoveryIsCurrent
  <2> QED
    BY <1>0, <2>1, <2>2, <2>3 DEF ThreadTypeOK, WorkerHolds, PublishSteps, FinalizerHolds
<1> QED
  BY <1>2, <1>3, <1>4, <1>5, <1>6 DEF FinalizeProgress

\* A claim or an activation: one critical section of the store's lock, in
\* which the worker is outside _publish_new.
LEMMA RequestInv ==
  ASSUME IInv, RequestStep
  PROVE  ThreadTypeOK' /\ RecordedDiscoveryIsCurrent' /\ WorkerHolds' /\ FinalizerHolds'
<1>0. /\ ThreadTypeOK /\ RecordedDiscoveryIsCurrent /\ WorkerHolds /\ FinalizerHolds
      /\ cred \in CredentialRecord
  BY DEF IInv, DiscoveryTypeOK, ThreadTypeOK, CredentialTypeOK
<1>1. UNCHANGED <<messages, worker, finalizer>> /\ faults' \in 0..MaxFaults
  BY DEF RequestStep
<1>2. CASE UNCHANGED CredentialVars
  BY <1>0, <1>1, <1>2
     DEF CredentialVars, ThreadTypeOK, RecordedDiscoveryIsCurrent, WorkerHolds,
         MayCreateBootstrap, FinalizerHolds
<1>3. CASE CredentialsLockFree /\ ~UNCHANGED CredentialVars
  <2>1. /\ cred'.discovery_uuid = cred.discovery_uuid
        /\ cred'.pairing_id = cred.pairing_id
        /\ cred.state = "active" => cred'.state = "active"
    BY <1>0, <1>3
       DEF RequestStep, CredentialVars, ClaimSucceeds, ClaimAccepted, ClaimRepeated,
           ClaimRejected, ClaimFailedAttempt, ClaimRefused, BootstrapOpen,
           ActivateSucceeds, ActivateAccepted, ActivateRepeated, ActivateRejected,
           CredentialRecord
  <2> QED
    BY <1>0, <1>1, <1>3, <2>1
       DEF CredentialsLockFree, ThreadTypeOK, RecordedDiscoveryIsCurrent, WorkerHolds,
           PublishSteps, FinalizerHolds
<1> QED
  BY <1>2, <1>3 DEF RequestStep

\* A deadline that passes, or a restart of the process.
LEMMA EnvironmentInv ==
  ASSUME IInv, (\E id \in Ids : Expires(id)) \/ PendingPasses \/ Restart
  PROVE  ThreadTypeOK' /\ RecordedDiscoveryIsCurrent' /\ WorkerHolds' /\ FinalizerHolds'
<1>0. ThreadTypeOK /\ RecordedDiscoveryIsCurrent /\ WorkerHolds /\ FinalizerHolds
  BY DEF IInv, DiscoveryTypeOK, ThreadTypeOK
<1>1. CASE \E id \in Ids : Expires(id)
  BY <1>0, <1>1, FaultAssumption
     DEF Expires, BootstrapExpires, Fault, ThreadTypeOK, RecordedDiscoveryIsCurrent,
         WorkerHolds, MayCreateBootstrap, FinalizerHolds
<1>2. CASE PendingPasses
  BY <1>0, <1>2
     DEF PendingPasses, PendingExpires, ThreadTypeOK, RecordedDiscoveryIsCurrent,
         WorkerHolds, MayCreateBootstrap, FinalizerHolds
<1>3. CASE Restart
  BY <1>0, <1>3, FaultAssumption
     DEF Restart, CredentialVars, Fault, ThreadTypeOK, WorkerAt, WorkerSteps,
         PublishSteps, PublishAttempts, IdleFinalizer, FinalizeSteps,
         LockedFinalizeSteps, RecordedDiscoveryIsCurrent, WorkerHolds, FinalizerHolds
<1> QED
  BY <1>1, <1>2, <1>3

LEMMA StepInv == IInv /\ [CollectorStep]_discoveryVars => IInv'
<1> SUFFICES ASSUME IInv, [CollectorStep]_discoveryVars PROVE IInv'
  OBVIOUS
<1>1. CASE CollectorStep
  <2>1. CredentialInv'
    BY <1>1, StepIsCredentialStep, CredentialStepInv DEF IInv, DiscoveryTypeOK, CredentialInv
  <2>2. ThreadTypeOK' /\ RecordedDiscoveryIsCurrent' /\ WorkerHolds' /\ FinalizerHolds'
    BY <1>1, WorkerStepInv, WorkerFailureInv, FinalizeInv, RequestInv, EnvironmentInv
       DEF CollectorStep
  <2> QED
    BY <2>1, <2>2 DEF IInv, DiscoveryTypeOK, ThreadTypeOK, CredentialInv
<1>2. CASE UNCHANGED discoveryVars
  BY <1>2
     DEF discoveryVars, IInv, DiscoveryTypeOK, CredentialTypeOK, ActiveMeansActive,
         RecordedDiscoveryIsCurrent, WorkerHolds, MayCreateBootstrap, FinalizerHolds
<1> QED
  BY <1>1, <1>2

-----------------------------------------------------------------------------
(* Theorems                                                                *)

\* IInv holds in every state of every behaviour.
THEOREM DiscoveryInvariant == DiscoverySpec => []IInv
<1>1. IInv /\ [DiscoveryNext]_discoveryVars => IInv'
  BY StepInv, DiscoveryNextIsStep
<1> QED
  BY <1>1, InitInv, PTL DEF DiscoverySpec

\* Every variable keeps its type and the credential file stays one that
\* _validate_state accepts, whatever fails.
THEOREM DiscoveryTypeCorrect == DiscoverySpec => []DiscoveryTypeOK
<1>1. IInv => DiscoveryTypeOK
  BY DEF IInv
<1> QED
  BY <1>1, DiscoveryInvariant, PTL

\* The recorded discovery message always carries the file's bootstrap.
THEOREM RecordedDiscovery == DiscoverySpec => []RecordedDiscoveryIsCurrent
<1>1. IInv => RecordedDiscoveryIsCurrent
  BY DEF IInv
<1> QED
  BY <1>1, DiscoveryInvariant, PTL

\* No step of any thread, failure or restart revokes an ACTIVE token.
THEOREM ActiveNeverRevokedHolds == DiscoverySpec => ActiveNeverRevoked
<1>1. IInv /\ [DiscoveryNext]_discoveryVars => [ActiveKept]_discoveryVars
  BY DiscoveryNextIsStep, StepIsCredentialStep, CredentialStepKeepsActive
     DEF IInv, DiscoveryTypeOK, CredentialInv
<1> QED
  BY <1>1, DiscoveryInvariant, PTL DEF DiscoverySpec, ActiveNeverRevoked

\* No step displaces the first claimant of a bootstrap before its deadline.
THEOREM ClaimantKeepsBootstrapHolds == DiscoverySpec => ClaimantKeepsBootstrap
<1>1. IInv /\ [DiscoveryNext]_discoveryVars => [ClaimantKept]_discoveryVars
  BY DiscoveryNextIsStep, StepIsCredentialStep, CredentialStepKeepsClaimant
     DEF IInv, DiscoveryTypeOK, CredentialInv
<1> QED
  BY <1>1, DiscoveryInvariant, PTL DEF DiscoverySpec, ClaimantKeepsBootstrap

\* Only the last step of finalize, which leaves the messages alone, clears the
\* recovery material of an ACTIVE file.
LEMMA OnlyFinalizeFinalizes ==
  ASSUME IInv, CollectorStep, ~Finalized, Finalized'
  PROVE  \E f \in Finalizers : finalizer[f].pc = "complete" /\ UNCHANGED messages
<1>0. cred \in CredentialRecord /\ WellFormed(cred)
  BY DEF IInv, DiscoveryTypeOK, CredentialTypeOK
<1>1. ~UNCHANGED CredentialVars
  BY DEF CredentialVars, Finalized
<1>2. \A uuid : ~SetDiscoveryUuid(uuid)
  BY <1>0 DEF SetDiscoveryUuid, CredentialRecord, Finalized
<1>3. \A id : ~CreateBootstrap(id)
  BY DEF CreateBootstrap, WithBootstrap, EmptyState, Finalized
<1>5. ~RequestStep
  BY <1>0, <1>1
     DEF RequestStep, ClaimSucceeds, ClaimAccepted, ClaimRepeated, ClaimRejected,
         ClaimFailedAttempt, ClaimRefused, BootstrapOpen, ActivateSucceeds,
         ActivateAccepted, ActivateRepeated, ActivateRejected, CredentialRecord,
         WellFormed, CredentialVars, Finalized
<1>6. ~WorkerProgress(Ids \ KnownIds)
  BY <1>1, <1>2, <1>3
     DEF WorkerProgress, Wake, EnterPublishNew, RemoveOldDiscovery, ForgetOldDiscovery,
         CreateFreshBootstrap, PublishBootstrap, RecordDiscovery
<1>7. ~WorkerFailure(Ids \ KnownIds)
  BY <1>1, <1>2, <1>3
     DEF WorkerFailure, WakeReadFails, PublishNewReadFails, RemoveOldFails, PublishFails,
         PublishNewWriteFails
<1>8. ~(\E id \in Ids : Expires(id)) /\ ~PendingPasses /\ ~Restart
  BY <1>1
     DEF Expires, BootstrapExpires, PendingPasses, PendingExpires, Restart, CredentialVars,
         Finalized
<1>9. PICK f \in Finalizers : FinalizeCompletes(f) \/ FinalizeFails(f)
  BY <1>1, <1>5, <1>6, <1>7, <1>8
     DEF CollectorStep, FinalizeBegins, FinalizeProgress, FinalizeAcquires, FinalizeRemoves
<1> QED
  BY <1>1, <1>9 DEF FinalizeCompletes, FinalizeFails

\* The step that finalizes the file leaves its message withdrawn.
THEOREM WithdrawnWhenFinalizedHolds == DiscoverySpec => WithdrawnWhenFinalized
<1> DEFINE Withdrawn == ~Finalized /\ Finalized' => cred.discovery_uuid \notin messages'
<1>1. ASSUME IInv, [DiscoveryNext]_discoveryVars PROVE [Withdrawn]_discoveryVars
  <2> SUFFICES ASSUME DiscoveryNext, ~Finalized, Finalized'
               PROVE  cred.discovery_uuid \notin messages'
    BY <1>1
  <2>1. PICK f \in Finalizers : finalizer[f].pc = "complete" /\ UNCHANGED messages
    BY <1>1, DiscoveryNextIsStep, OnlyFinalizeFinalizes
  <2>2. messages \subseteq Uuids
    BY <1>1 DEF IInv, DiscoveryTypeOK
  <2> QED
    BY <1>1, <2>1, <2>2, NoUuidIsNone DEF IInv, FinalizerHolds, LockedFinalizeSteps
<1> QED
  BY <1>1, DiscoveryInvariant, PTL DEF DiscoverySpec, WithdrawnWhenFinalized

\* Once finalized, no step publishes a message or records one.
THEOREM FinalizedStaysQuietHolds == DiscoverySpec => FinalizedStaysQuiet
<1> DEFINE Quiet == Finalized => /\ messages' \subseteq messages
                                 /\ cred'.discovery_uuid = NoUuid
<1>1. ASSUME IInv, [DiscoveryNext]_discoveryVars PROVE [Quiet]_discoveryVars
  <2> SUFFICES ASSUME DiscoveryNext, Finalized
               PROVE  messages' \subseteq messages /\ cred'.discovery_uuid = NoUuid
    BY <1>1
  <2>0. cred \in CredentialRecord /\ cred.state = "active" /\ worker.pc \notin PublishSteps
    BY <1>1, ActiveStopsWorker DEF IInv, DiscoveryTypeOK, CredentialTypeOK, Finalized
  <2>1. cred.discovery_uuid = NoUuid
    BY <1>1, <2>0, IdAssumption
       DEF IInv, RecordedDiscoveryIsCurrent, CredentialRecord, Uuids, Finalized
  <2>2. CASE WorkerProgress(Ids \ KnownIds) \/ WorkerFailure(Ids \ KnownIds)
    BY <2>0, <2>1, <2>2
       DEF PublishSteps, WorkerProgress, Wake, EnterPublishNew, RemoveOldDiscovery,
           ForgetOldDiscovery, CreateFreshBootstrap, PublishBootstrap, RecordDiscovery,
           WorkerFailure, WakeReadFails, PublishNewReadFails, RemoveOldFails, PublishFails,
           PublishNewWriteFails, CredentialVars
  <2>3. CASE \E f \in Finalizers :
               \/ \E token \in Tokens : FinalizeBegins(f, token)
               \/ FinalizeProgress(f)
               \/ FinalizeFails(f)
    BY <2>0, <2>1, <2>3
       DEF FinalizeBegins, FinalizeProgress, FinalizeAcquires, FinalizeRemoves,
           FinalizeCompletes, FinalizeFails, CompleteFinalize, CredentialVars,
           CredentialRecord
  <2>4. CASE \/ \E id, verifier : Claim(id, verifier)
             \/ \E token : Activate(token)
    BY <2>0, <2>1, <2>4
       DEF Claim, ClaimSucceeds, ClaimAccepted, ClaimRepeated, ClaimRejected,
           ClaimFailedAttempt, ClaimRefused, BootstrapOpen, Activate, ActivateSucceeds,
           ActivateAccepted, ActivateRepeated, ActivateRejected
  <2>5. CASE (\E id \in KnownIds : Expires(id)) \/ PendingPasses \/ Restart
    BY <2>1, <2>5
       DEF Expires, BootstrapExpires, PendingPasses, PendingExpires, Restart, CredentialVars
  <2> QED
    BY <2>2, <2>3, <2>4, <2>5 DEF DiscoveryNext
<1> QED
  BY <1>1, DiscoveryInvariant, PTL DEF DiscoverySpec, FinalizedStaysQuiet

=============================================================================
