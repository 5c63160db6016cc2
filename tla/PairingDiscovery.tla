--------------------------- MODULE PairingDiscovery ---------------------------
(***************************************************************************)
(* The Collector's side of managed pairing (collector_service/pairing.py): *)
(* the credential file shared by the HTTP handler threads, which run       *)
(* claim, activate and finalize, and by the PairingDiscoveryWorker thread, *)
(* which publishes a bootstrap authorization through the Supervisor and    *)
(* renews it.  Two locks order them: _finalize_lock, held by finalize and  *)
(* by _publish_new, and the store's _lock, held by every operation on the  *)
(* file and by _publish_new from its first read to its last write.         *)
(*                                                                         *)
(* The Supervisor is external: it keeps the messages published to it and   *)
(* answers, fails before acting, or acts and fails to answer.  The process *)
(* may die and restart between any two steps.  Every such adversity uses   *)
(* up one unit of MaxFaults; expiry of a bootstrap or of a pending         *)
(* verifier does not.                                                      *)
(***************************************************************************)
EXTENDS ManagedCredentials

CONSTANTS
  Finalizers,   \* handler threads that can be inside finalize at once
  MaxFaults     \* bound on failures and restarts

ASSUME FaultAssumption == MaxFaults \in Nat

VARIABLES
  messages,     \* discovery messages the Supervisor holds for this App
  worker,       \* the worker thread: step, bootstrap and attempt in hand
  finalizer,    \* each finalizing thread: step and UUID read
  faults        \* adversities so far

discoveryVars == <<cred, overdue, pendingOverdue, messages, worker, finalizer, faults>>

\* Mutant of PublishSteps: the locks are not held across publication.
StepsBeforePublication == {"remove", "forget", "create"}

\* Steps of _publish_new that follow its first read; they hold both locks.
PublishSteps == {"remove", "forget", "create", "publish", "record"}
WorkerSteps == PublishSteps \cup {"publish_new", "wait", "exited"}

\* Mutant of LockedFinalizeSteps: the lock is taken twice.
LockedFromTheStart == {"acquire", "remove", "complete"}

\* Steps of finalize; the last two hold _finalize_lock.
LockedFinalizeSteps == {"remove", "complete"}
FinalizeSteps == LockedFinalizeSteps \cup {"idle", "acquire"}

WorkerAt(step) == [pc |-> step, id |-> NoId, attempt |-> 0]
IdleFinalizer == [pc |-> "idle", uuid |-> NoUuid]

CredentialsLockFree == worker.pc \notin PublishSteps

FinalizeLockFree ==
  /\ worker.pc \notin PublishSteps
  /\ \A f \in Finalizers : finalizer[f].pc \notin LockedFinalizeSteps

Fault == faults < MaxFaults /\ faults' = faults + 1

-----------------------------------------------------------------------------
(* The worker thread                                                       *)

\* still_valid: there is nothing to publish.
StillValid ==
  \/ cred.state = "active"
  \/ cred.state = "pending" /\ ~pendingOverdue
  \/ /\ cred.state = "bootstrap_available"
     /\ cred.discovery_uuid # NoUuid
     /\ ~BootstrapExpired

NeedsRenewal ==
  \/ cred.state = "bootstrap_available" /\ BootstrapExpired
  \/ cred.state = "pending" /\ pendingOverdue

\* Mutant of Wake: _run overlooks an expired bootstrap.
WakeForPendingOnly ==
  /\ worker.pc = "wait"
  /\ cred.state = "pending" /\ pendingOverdue
  /\ worker' = WorkerAt("publish_new")
  /\ UNCHANGED <<CredentialVars, messages, finalizer, faults>>

\* _run wakes every 60 seconds and looks, without a lock, for an expired
\* bootstrap or pending verifier.
Wake ==
  /\ worker.pc = "wait"
  /\ NeedsRenewal
  /\ worker' = WorkerAt("publish_new")
  /\ UNCHANGED <<CredentialVars, messages, finalizer, faults>>

\* A file _run cannot read ends the thread for the life of the process.
WakeReadFails ==
  /\ worker.pc = "wait"
  /\ Fault
  /\ worker' = WorkerAt("exited")
  /\ UNCHANGED <<CredentialVars, messages, finalizer>>

\* Mutant of EnterPublishNew: the old discovery is left in place.
EnterPublishNewKeepingOld ==
  /\ worker.pc = "publish_new"
  /\ FinalizeLockFree
  /\ worker' = WorkerAt(IF StillValid THEN "wait" ELSE "create")
  /\ UNCHANGED <<CredentialVars, messages, finalizer, faults>>

\* _publish_new takes both locks and reads the file.
EnterPublishNew ==
  /\ worker.pc = "publish_new"
  /\ FinalizeLockFree
  /\ worker' = IF StillValid THEN WorkerAt("wait")
               ELSE IF cred.discovery_uuid # NoUuid THEN WorkerAt("remove")
               ELSE WorkerAt("create")
  /\ UNCHANGED <<CredentialVars, messages, finalizer, faults>>

RemoveOldDiscovery ==
  /\ worker.pc = "remove"
  /\ messages' = messages \ {cred.discovery_uuid}
  /\ worker' = WorkerAt("forget")
  /\ UNCHANGED <<CredentialVars, finalizer, faults>>

ForgetOldDiscovery ==
  /\ worker.pc = "forget"
  /\ SetDiscoveryUuid(NoUuid)
  /\ worker' = WorkerAt("create")
  /\ UNCHANGED <<messages, finalizer, faults>>

CreateFreshBootstrap(id) ==
  /\ worker.pc = "create"
  /\ CreateBootstrap(id)
  /\ worker' = [pc |-> "publish", id |-> id, attempt |-> 0]
  /\ UNCHANGED <<messages, finalizer, faults>>

ThisPublication == [id |-> worker.id, attempt |-> worker.attempt]

PublishBootstrap ==
  /\ worker.pc = "publish"
  /\ messages' = messages \cup {ThisPublication}
  /\ worker' = [worker EXCEPT !.pc = "record"]
  /\ UNCHANGED <<CredentialVars, finalizer, faults>>

RecordDiscovery ==
  /\ worker.pc = "record"
  /\ SetDiscoveryUuid(ThisPublication)
  /\ worker' = WorkerAt("wait")
  /\ UNCHANGED <<messages, finalizer, faults>>

\* publish failed: up to three attempts, then give the bootstrap up until it
\* expires.  The Supervisor may have taken the message and lost its answer.
PublishFails ==
  /\ worker.pc = "publish"
  /\ Fault
  /\ messages' \in {messages, messages \cup {ThisPublication}}
  /\ worker' = IF worker.attempt < 2
                 THEN [worker EXCEPT !.attempt = @ + 1]
                 ELSE WorkerAt("wait")
  /\ UNCHANGED <<CredentialVars, finalizer>>

RemoveOldFails ==
  /\ worker.pc = "remove"
  /\ Fault
  /\ messages' \in {messages, messages \ {cred.discovery_uuid}}
  /\ worker' = WorkerAt("wait")
  /\ UNCHANGED <<CredentialVars, finalizer>>

\* Reading or writing the file failed: _publish_new gives up.  A write that
\* fails in the final directory fsync has already replaced the file.
PublishNewReadFails ==
  /\ worker.pc = "publish_new"
  /\ FinalizeLockFree
  /\ Fault
  /\ worker' = WorkerAt("wait")
  /\ UNCHANGED <<CredentialVars, messages, finalizer>>

PublishNewWriteFails(id) ==
  /\ Fault
  /\ \/ /\ worker.pc \in {"forget", "create", "record"}
        /\ UNCHANGED CredentialVars
     \/ worker.pc = "forget" /\ SetDiscoveryUuid(NoUuid)
     \/ worker.pc = "create" /\ CreateBootstrap(id)
     \/ worker.pc = "record" /\ SetDiscoveryUuid(ThisPublication)
  /\ worker' = WorkerAt("wait")
  /\ UNCHANGED <<messages, finalizer>>

-----------------------------------------------------------------------------
(* finalize, on a handler thread.  PairingApi.handle authorizes it without *)
(* a lock; a request it does not authorize changes nothing.                *)

FinalizeBegins(f, token) ==
  /\ finalizer[f].pc = "idle"
  /\ Authorized(token)
  /\ finalizer' = [finalizer EXCEPT ![f].pc = "acquire"]
  /\ UNCHANGED <<CredentialVars, messages, worker, faults>>

FinalizeAcquires(f) ==
  /\ finalizer[f].pc = "acquire"
  /\ FinalizeLockFree
  /\ finalizer' = [finalizer EXCEPT ![f] =
       [pc |-> IF cred.discovery_uuid = NoUuid THEN "complete" ELSE "remove",
        uuid |-> cred.discovery_uuid]]
  /\ UNCHANGED <<CredentialVars, messages, worker, faults>>

FinalizeRemoves(f) ==
  /\ finalizer[f].pc = "remove"
  /\ messages' = messages \ {finalizer[f].uuid}
  /\ finalizer' = [finalizer EXCEPT ![f].pc = "complete"]
  /\ UNCHANGED <<CredentialVars, worker, faults>>

FinalizeCompletes(f) ==
  /\ finalizer[f].pc = "complete"
  /\ CredentialsLockFree
  /\ CompleteFinalize
  /\ finalizer' = [finalizer EXCEPT ![f] = IdleFinalizer]
  /\ UNCHANGED <<messages, worker, faults>>

\* Mutant of FinalizeFails: a failed removal is overlooked.
FinalizeFailsAndContinues(f) ==
  /\ Fault
  /\ finalizer[f].pc = "remove"
  /\ finalizer' = [finalizer EXCEPT ![f].pc = "complete"]
  /\ UNCHANGED <<CredentialVars, messages, worker>>

\* The Supervisor or the file failed finalize: it answers 503.
FinalizeFails(f) ==
  /\ Fault
  /\ \/ /\ finalizer[f].pc = "acquire" /\ FinalizeLockFree
        /\ UNCHANGED <<CredentialVars, messages>>
     \/ /\ finalizer[f].pc = "remove"
        /\ messages' \in {messages, messages \ {finalizer[f].uuid}}
        /\ UNCHANGED CredentialVars
     \/ /\ finalizer[f].pc = "complete" /\ CredentialsLockFree
        /\ UNCHANGED messages
        /\ UNCHANGED CredentialVars \/ CompleteFinalize
  /\ finalizer' = [finalizer EXCEPT ![f] = IdleFinalizer]
  /\ UNCHANGED worker

-----------------------------------------------------------------------------
(* claim and activate, each one critical section of the store's lock.  One *)
(* whose write fails is answered 503 and has replaced the file, or has     *)
(* not: to the Collector that is the same operation, or none.              *)

\* A client knows a bootstrap's secret only from a message; any other
\* presented id or secret is wrong.
Presentable == {m.id : m \in messages} \cup {NoId}

Claim(id, verifier) ==
  /\ CredentialsLockFree
  /\ ClaimSucceeds(id, verifier) \/ ClaimRejected(id, verifier)
  /\ UNCHANGED <<messages, worker, finalizer, faults>>

Activate(token) ==
  /\ CredentialsLockFree
  /\ ActivateSucceeds(token) \/ ActivateRejected(token)
  /\ UNCHANGED <<messages, worker, finalizer, faults>>

-----------------------------------------------------------------------------
(* Time and crashes                                                        *)

\* A publication takes at most 18 seconds of the bootstrap's ten minutes:
\* that the bootstrap expires under it takes a jump of the clock.
Expires(id) ==
  /\ IF worker.id = id THEN Fault ELSE UNCHANGED faults
  /\ BootstrapExpires(id)
  /\ UNCHANGED <<messages, worker, finalizer>>

PendingPasses ==
  /\ PendingExpires
  /\ UNCHANGED <<messages, worker, finalizer, faults>>

\* The process dies at any point and starts again: threads and locks are
\* gone, the file and the Supervisor's messages stay.
Restart ==
  /\ Fault
  /\ worker' = WorkerAt("publish_new")
  /\ finalizer' = [f \in Finalizers |-> IdleFinalizer]
  /\ UNCHANGED <<CredentialVars, messages>>

-----------------------------------------------------------------------------
DiscoveryInit ==
  /\ CredentialInit
  /\ messages = {}
  /\ worker = WorkerAt("publish_new")
  /\ finalizer = [f \in Finalizers |-> IdleFinalizer]
  /\ faults = 0

\* A secret drawn at random is one nobody holds.
KnownIds == {m.id : m \in messages} \cup {cred.pairing_id, worker.id}

WorkerProgress(fresh) ==
  \/ Wake
  \/ EnterPublishNew
  \/ RemoveOldDiscovery
  \/ ForgetOldDiscovery
  \/ \E id \in fresh : CreateFreshBootstrap(id)
  \/ PublishBootstrap
  \/ RecordDiscovery

WorkerFailure(fresh) ==
  \/ WakeReadFails
  \/ PublishNewReadFails
  \/ RemoveOldFails
  \/ PublishFails
  \/ \E id \in fresh : PublishNewWriteFails(id)

FinalizeProgress(f) ==
  FinalizeAcquires(f) \/ FinalizeRemoves(f) \/ FinalizeCompletes(f)

DiscoveryNext ==
  \/ WorkerProgress(Ids \ KnownIds)
  \/ WorkerFailure(Ids \ KnownIds)
  \/ \E f \in Finalizers, token \in Tokens : FinalizeBegins(f, token)
  \/ \E f \in Finalizers : FinalizeProgress(f) \/ FinalizeFails(f)
  \/ \E id \in Presentable, verifier \in Tokens \cup {NoToken} : Claim(id, verifier)
  \/ \E token \in Tokens : Activate(token)
  \/ \E id \in KnownIds : Expires(id)
  \/ PendingPasses
  \/ Restart

DiscoverySpec == DiscoveryInit /\ [][DiscoveryNext]_discoveryVars

-----------------------------------------------------------------------------
(* Fairness.  The worker is a daemon thread that waits only for its 60     *)
(* second timer, for locks whose holders make progress, and for calls with *)
(* a five second timeout: its steps that succeed are weakly fair.  A       *)
(* handler in finalize is strongly fair, because threading.Lock does not   *)
(* queue its waiters: a lock that is released again and again is at last   *)
(* won by each of them.  Time passes: a deadline is reached.               *)

FairDiscoverySpec ==
  /\ DiscoverySpec
  /\ WF_discoveryVars(WorkerProgress(Ids \ KnownIds))
  /\ WF_discoveryVars(\E id \in KnownIds : Expires(id))
  /\ \A f \in Finalizers : SF_discoveryVars(FinalizeProgress(f))

-----------------------------------------------------------------------------
(* Properties                                                              *)

\* Every variable has its type, and the file is one _validate_state accepts,
\* so every restart can read it.
DiscoveryTypeOK ==
  /\ CredentialTypeOK
  /\ messages \subseteq Uuids
  /\ worker \in [pc : WorkerSteps, id : Ids \cup {NoId}, attempt : PublishAttempts]
  /\ finalizer \in [Finalizers -> [pc : FinalizeSteps, uuid : Uuids \cup {NoUuid}]]
  /\ faults \in 0..MaxFaults

\* The recorded discovery message is the one that carries the bootstrap of
\* the file: finalize, which removes the recorded message only, removes the
\* message the claimant paired through, and leaves none recorded.
RecordedDiscoveryIsCurrent ==
  cred.discovery_uuid # NoUuid => cred.discovery_uuid.id = cred.pairing_id

\* Finalization leaves the recorded message withdrawn from the Supervisor.
WithdrawnWhenFinalized ==
  [][~Finalized /\ Finalized' => cred.discovery_uuid \notin messages']_discoveryVars

\* Once recovery material is cleared, the Collector offers itself no more:
\* nothing is published and nothing is recorded as published.
FinalizedStaysQuiet ==
  [][Finalized => messages' \subseteq messages
                    /\ cred'.discovery_uuid = NoUuid]_discoveryVars

\* A claimed bootstrap stays with its claimant whatever the worker, later
\* claims, expiry and restarts do.
ClaimantKeepsBootstrap == [][ClaimantKept]_discoveryVars

\* Finalization, republication, repeated claims and restarts never revoke or
\* replace an ACTIVE token.
ActiveNeverRevoked == [][ActiveKept]_discoveryVars

\* An unexpired, unclaimed bootstrap that clients can find.
Offered ==
  /\ cred.state = "bootstrap_available"
  /\ ~BootstrapExpired
  /\ cred.discovery_uuid \in messages

Claimed == cred.state = "active" \/ (cred.state = "pending" /\ ~pendingOverdue)

\* An expired bootstrap or pending verifier does not strand the Collector:
\* it offers a fresh bootstrap again (or is claimed first), unless the
\* thread ended on an unreadable file.
DiscoveryRenewed == NeedsRenewal ~> (Offered \/ Claimed \/ worker.pc = "exited")

\* Two locks and a Supervisor call never block a finalize for ever.
FinalizeAnswered ==
  \A f \in Finalizers : finalizer[f].pc # "idle" ~> finalizer[f].pc = "idle"

=============================================================================
