-------------------------- MODULE ManagedOnboarding --------------------------
(***************************************************************************)
(* Managed pairing end to end: the Collector of PairingDiscovery and the   *)
(* Home Assistant integration that pairs with it                           *)
(* (custom_components/cez_pnd: config_flow.py, pairing_recovery.py,        *)
(* __init__.py, client.py), across crashes and restarts of both.           *)
(*                                                                         *)
(* Home Assistant keeps three kinds of state.  The recovery journal is     *)
(* written through to disk.  A config entry lives in memory and reaches    *)
(* the disk only when Core gets round to its delayed save.  The two        *)
(* this-process markers die with the process.  One Collector identity      *)
(* (meter, origin, CA) is modelled, so a journal or an entry is the token  *)
(* it holds, and "matches" compares tokens.                                *)
(*                                                                         *)
(* A call can be lost before or after the Collector acts on it, and a call *)
(* its caller gave up on may still be acted upon later.                    *)
(***************************************************************************)
EXTENDS PairingDiscovery

CONSTANTS
  NoFinalizer,  \* no handler thread serves the call
  MaxLate       \* bound on the calls given up on that are still on their way

ASSUME FinalizerAssumption == NoFinalizer \notin Finalizers
ASSUME LateAssumption == MaxLate \in Nat

VARIABLES
  journal,      \* token of the recovery journal on disk, or NoToken
  stored,       \* the config entry on disk
  entry,        \* the config entry in memory
  created,      \* created_this_process
  finalized,    \* finalized_this_process
  flow,         \* the hassio config flow
  setup,        \* async_setup_entry of the entry
  call,         \* the integration's call to the pairing API
  late,         \* calls given up on that the Collector may still receive
  removed       \* history: the user has deleted an entry

haVars == <<journal, stored, entry, created, finalized, flow, setup, call, late, removed>>
vars == <<discoveryVars, haVars>>

NoEntry == [token |-> NoToken, activation |-> FALSE, finalize |-> FALSE]
Entries == [token : Tokens, activation : BOOLEAN, finalize : BOOLEAN]

NoFlow == [pc |-> "none", id |-> NoId, token |-> NoToken, recovered |-> FALSE]
FlowSteps == {"none", "form", "claim", "claiming"}

SetupAt(step) == [pc |-> step, activated |-> FALSE]
\* The steps at which setup is not running: never, loaded, waiting for a
\* retry after ConfigEntryNotReady, or stopped by ConfigEntryAuthFailed.
SetupRests == {"none", "loaded", "retry", "auth_failed"}
SetupSteps == SetupRests \cup {"start", "activating", "verify", "finalize", "finalizing"}

Request(op, id, token) == [op |-> op, id |-> id, token |-> token]
Requests == [op : {"claim", "activate", "finalize"}, id : Ids \cup {NoId}, token : Tokens]

NoCall == [req |-> Request("none", NoId, NoToken), status |-> "none", by |-> NoFinalizer]
Sent(req) == [req |-> req, status |-> "sent", by |-> NoFinalizer]
Answered(status) == [call EXCEPT !.status = status, !.by = NoFinalizer]
CallStatuses == {"sent", "running", "ok", "rejected", "unavailable", "broken"}

-----------------------------------------------------------------------------
(* The config flow                                                         *)

\* async_step_hassio: the Supervisor hands over a message.  An entry with the
\* meter's unique id aborts it, as does an expired one without a journal.
DiscoveryArrives(m) ==
  /\ flow.pc = "none"
  /\ entry = NoEntry
  /\ m.id \in overdue => journal # NoToken
  /\ flow' = [NoFlow EXCEPT !.pc = "form", !.id = m.id,
                            !.recovered = (journal # NoToken)]
  /\ UNCHANGED <<discoveryVars, journal, stored, entry, created, finalized,
                 setup, call, late, removed>>

FlowExpired == flow.id \in overdue /\ ~flow.recovered

\* Mutant of ConfirmWithNewToken: the token is not journalled.
ConfirmWithoutJournal(token) ==
  /\ flow.pc = "form"
  /\ ~FlowExpired
  /\ journal = NoToken
  /\ flow.id \notin overdue
  /\ flow' = [flow EXCEPT !.pc = "claim", !.token = token]
  /\ UNCHANGED <<discoveryVars, journal, stored, entry, created, finalized,
                 setup, call, late, removed>>

\* The user confirms: under ownership_lock the journal is loaded again, and
\* without one a fresh token is journalled and read back before the claim.
ConfirmWithNewToken(token) ==
  /\ flow.pc = "form"
  /\ ~FlowExpired
  /\ journal = NoToken
  /\ flow.id \notin overdue
  /\ journal' = token
  /\ flow' = [flow EXCEPT !.pc = "claim", !.token = token]
  /\ UNCHANGED <<discoveryVars, stored, entry, created, finalized, setup,
                 call, late, removed>>

\* Mutant of ConfirmWithJournal: the journalled token is not used again.
ConfirmDespiteJournal ==
  /\ flow.pc = "form"
  /\ ~FlowExpired
  /\ journal # NoToken
  /\ \E token \in Tokens : flow' = [flow EXCEPT !.pc = "claim", !.token = token]
  /\ UNCHANGED <<discoveryVars, journal, stored, entry, created, finalized,
                 setup, call, late, removed>>

ConfirmWithJournal ==
  /\ flow.pc = "form"
  /\ ~FlowExpired
  /\ journal # NoToken
  /\ flow' = [flow EXCEPT !.pc = "claim", !.token = journal]
  /\ UNCHANGED <<discoveryVars, journal, stored, entry, created, finalized,
                 setup, call, late, removed>>

\* The save or its read-back failed; the record may or may not be on disk.
JournalSaveFails(token) ==
  /\ flow.pc = "form"
  /\ ~FlowExpired
  /\ journal = NoToken
  /\ flow.id \notin overdue
  /\ journal' \in {NoToken, token}
  /\ UNCHANGED <<discoveryVars, stored, entry, created, finalized, flow,
                 setup, call, late, removed>>

SendClaim ==
  /\ flow.pc = "claim"
  /\ flow' = [flow EXCEPT !.pc = "claiming"]
  /\ call' = Sent(Request("claim", flow.id, flow.token))
  /\ UNCHANGED <<discoveryVars, journal, stored, entry, created, finalized,
                 setup, late, removed>>

\* The entry is created with both pending markers, and Core sets it up.
ClaimConfirmed ==
  /\ flow.pc = "claiming"
  /\ call.status = "ok"
  /\ created' = TRUE
  /\ entry' = [token |-> flow.token, activation |-> TRUE, finalize |-> TRUE]
  /\ flow' = NoFlow
  /\ setup' = SetupAt("start")
  /\ call' = NoCall
  /\ UNCHANGED <<discoveryVars, journal, stored, finalized, late, removed>>

\* Any error, a 503 among them, shows the form again; the flow keeps what it
\* knew.
BackToForm == flow' = [flow EXCEPT !.pc = "form", !.token = NoToken]

ClaimRefusedByCollector ==
  /\ flow.pc = "claiming"
  /\ call.status \in {"rejected", "unavailable"}
  /\ BackToForm
  /\ call' = NoCall
  /\ UNCHANGED <<discoveryVars, journal, stored, entry, created, finalized,
                 setup, late, removed>>

FlowDismissed ==
  /\ flow.pc = "form"
  /\ flow' = NoFlow
  /\ UNCHANGED <<discoveryVars, journal, stored, entry, created, finalized,
                 setup, call, late, removed>>

-----------------------------------------------------------------------------
(* async_setup_entry                                                       *)

MatchesJournal == journal # NoToken /\ journal = entry.token

SetupGoes(step) == setup' = [setup EXCEPT !.pc = step]

\* An entry with the activation marker activates first; a journal that is
\* missing or another entry's makes Core retry later.
StartActivation ==
  /\ setup.pc = "start"
  /\ entry.activation
  /\ IF MatchesJournal
       THEN /\ SetupGoes("activating")
            /\ call' = Sent(Request("activate", NoId, entry.token))
       ELSE /\ SetupGoes("retry")
            /\ UNCHANGED call
  /\ UNCHANGED <<discoveryVars, journal, stored, entry, created, finalized,
                 flow, late, removed>>

ActivationAnswered ==
  /\ setup.pc = "activating"
  /\ \/ call.status = "ok" /\ SetupGoes("verify")
     \/ call.status = "rejected" /\ SetupGoes("auth_failed")
     \/ call.status = "unavailable" /\ SetupGoes("retry")
  /\ call' = NoCall
  /\ UNCHANGED <<discoveryVars, journal, stored, entry, created, finalized,
                 flow, late, removed>>

\* health and status verify the token against the read API.
Verified == Authorized(entry.token)

\* Activation done in the process that created the entry: only its marker is
\* dropped.
VerifiedWhereCreated ==
  /\ setup.pc = "verify"
  /\ created
  /\ entry' = [entry EXCEPT !.activation = FALSE]
  /\ setup' = SetupAt("loaded")
  /\ UNCHANGED <<discoveryVars, journal, stored, created, finalized, flow,
                 call, late, removed>>

SendFinalize == call' = Sent(Request("finalize", NoId, entry.token))

\* Mutant of VerifiedThenFinalize: the process that created the entry
\* finalizes at once.
VerifiedThenFinalizeAtOnce ==
  /\ setup.pc = "verify"
  /\ setup' = [pc |-> "finalizing", activated |-> TRUE]
  /\ SendFinalize
  /\ UNCHANGED <<discoveryVars, journal, stored, entry, created, finalized,
                 flow, late, removed>>

VerifiedThenFinalize ==
  /\ setup.pc = "verify"
  /\ ~created
  /\ setup' = [pc |-> "finalizing", activated |-> TRUE]
  /\ SendFinalize
  /\ UNCHANGED <<discoveryVars, journal, stored, entry, created, finalized,
                 flow, late, removed>>

StartFinalize ==
  /\ setup.pc = "start"
  /\ ~entry.activation
  /\ entry.finalize
  /\ ~created
  /\ SetupGoes(IF MatchesJournal THEN "finalize" ELSE "retry")
  /\ UNCHANGED <<discoveryVars, journal, stored, entry, created, finalized,
                 flow, call, late, removed>>

VerifiedForFinalize ==
  /\ setup.pc = "finalize"
  /\ SetupGoes("finalizing")
  /\ SendFinalize
  /\ UNCHANGED <<discoveryVars, journal, stored, entry, created, finalized,
                 flow, late, removed>>

VerificationRefused ==
  /\ SetupGoes("auth_failed")
  /\ UNCHANGED <<discoveryVars, journal, stored, entry, created, finalized,
                 flow, call, late, removed>>

\* What health and status answered decides, whichever step asked.
VerificationAnswered ==
  /\ setup.pc \in {"verify", "finalize"}
  /\ IF Verified
       THEN VerifiedWhereCreated \/ VerifiedThenFinalize \/ VerifiedForFinalize
       ELSE VerificationRefused

FinalizeAcknowledged ==
  /\ finalized' = TRUE
  /\ entry' = [entry EXCEPT !.activation = FALSE, !.finalize = FALSE]
  /\ setup' = SetupAt("loaded")
  /\ call' = NoCall
  /\ UNCHANGED <<discoveryVars, journal, stored, created, flow, late, removed>>

\* Mutant of FinalizePostponed: both markers are dropped.
FinalizePostponedForgotten ==
  /\ entry' = [entry EXCEPT !.activation = FALSE, !.finalize = FALSE]
  /\ setup' = SetupAt("loaded")
  /\ call' = NoCall
  /\ UNCHANGED <<discoveryVars, journal, stored, created, finalized, flow,
                 late, removed>>

\* A 503 leaves the finalize marker for a later setup.
FinalizePostponed ==
  /\ entry' = [entry EXCEPT !.activation = @ /\ ~setup.activated]
  /\ setup' = SetupAt("loaded")
  /\ call' = NoCall
  /\ UNCHANGED <<discoveryVars, journal, stored, created, finalized, flow,
                 late, removed>>

FinalizeRefused ==
  /\ setup' = SetupAt("auth_failed")
  /\ call' = NoCall
  /\ UNCHANGED <<discoveryVars, journal, stored, entry, created, finalized,
                 flow, late, removed>>

FinalizeReplied ==
  /\ setup.pc = "finalizing"
  /\ CASE call.status = "ok" -> FinalizeAcknowledged
       [] call.status = "unavailable" -> FinalizePostponed
       [] call.status = "rejected" -> FinalizeRefused
       [] OTHER -> FALSE

\* Markers this process did not see durably absent: plain setup.
SetupWithoutPairing ==
  /\ setup.pc = "start"
  /\ ~entry.activation
  /\ \/ entry.finalize /\ created
     \/ ~entry.finalize /\ (created \/ finalized)
  /\ setup' = SetupAt("loaded")
  /\ UNCHANGED <<discoveryVars, journal, stored, entry, created, finalized,
                 flow, call, late, removed>>

\* Mutant of CleanUpJournal: markers this process cleared count as durable.
CleanUpJournalAtOnce ==
  /\ setup.pc = "start"
  /\ ~entry.activation
  /\ ~entry.finalize
  /\ ~created
  /\ journal' = IF MatchesJournal THEN NoToken ELSE journal
  /\ setup' = SetupAt("loaded")
  /\ UNCHANGED <<discoveryVars, stored, entry, created, finalized, flow,
                 call, late, removed>>

\* Clean markers read from disk prove that finalization persisted: the
\* journal goes, if it is this entry's.  A failure to delete it is ignored.
CleanUpJournal ==
  /\ setup.pc = "start"
  /\ ~entry.activation
  /\ ~entry.finalize
  /\ ~created
  /\ ~finalized
  /\ journal' \in {journal, IF MatchesJournal THEN NoToken ELSE journal}
  /\ setup' = SetupAt("loaded")
  /\ UNCHANGED <<discoveryVars, stored, entry, created, finalized, flow,
                 call, late, removed>>

-----------------------------------------------------------------------------
(* The network and the Collector's handlers                                *)

\* The caller sees a connection error or a timeout, whatever has become of
\* its request: the request may still be on its way.
GivesUp ==
  /\ call' = NoCall
  /\ \/ UNCHANGED late
     \/ /\ call.status = "sent"
        /\ Cardinality(late) < MaxLate
        /\ late' = late \cup {call.req}

\* A connection the restarted Collector broke always ends this way.
CallBreaks == IF call.status = "broken" THEN UNCHANGED faults ELSE Fault

ClaimCallFails ==
  /\ flow.pc = "claiming"
  /\ CallBreaks
  /\ GivesUp
  /\ BackToForm
  /\ UNCHANGED <<CredentialVars, messages, worker, finalizer, journal, stored,
                 entry, created, finalized, setup, removed>>

SetupCallFails ==
  /\ setup.pc \in {"activating", "finalizing"}
  /\ CallBreaks
  /\ GivesUp
  /\ setup' = SetupAt("retry")
  /\ UNCHANGED <<CredentialVars, messages, worker, finalizer, journal, stored,
                 entry, created, finalized, flow, removed>>

\* The journal, health or status could not be read.
VerificationFails ==
  /\ \/ setup.pc \in {"verify", "finalize"}
     \/ setup.pc = "start" /\ (entry.activation \/ (entry.finalize /\ ~created))
  /\ Fault
  /\ setup' = SetupAt("retry")
  /\ UNCHANGED <<CredentialVars, messages, worker, finalizer, journal, stored,
                 entry, created, finalized, flow, call, late, removed>>

ServeCall ==
  /\ call.status = "sent"
  /\ CredentialsLockFree
  /\ \/ /\ call.req.op = "claim"
        /\ \/ ClaimSucceeds(call.req.id, call.req.token) /\ call' = Answered("ok")
           \/ ClaimRejected(call.req.id, call.req.token) /\ call' = Answered("rejected")
     \/ /\ call.req.op = "activate"
        /\ \/ ActivateSucceeds(call.req.token) /\ call' = Answered("ok")
           \/ ActivateRejected(call.req.token) /\ call' = Answered("rejected")
  /\ UNCHANGED <<messages, worker, finalizer, faults, journal, stored, entry,
                 created, finalized, flow, setup, late, removed>>

\* Reading or writing the credential file failed: 503.  A write that fails in
\* the final directory fsync has already replaced the file.
ServeCallFails ==
  /\ call.status = "sent"
  /\ CredentialsLockFree
  /\ Fault
  /\ \/ UNCHANGED CredentialVars
     \/ call.req.op = "claim" /\ ClaimSucceeds(call.req.id, call.req.token)
     \/ call.req.op = "activate" /\ ActivateSucceeds(call.req.token)
  /\ call' = Answered("unavailable")
  /\ UNCHANGED <<messages, worker, finalizer, journal, stored, entry, created,
                 finalized, flow, setup, late, removed>>

\* A finalize call is authorized without a lock, then runs in its thread.
ServeFinalize(f) ==
  /\ call.status = "sent"
  /\ call.req.op = "finalize"
  /\ IF Authorized(call.req.token)
       THEN /\ FinalizeBegins(f, call.req.token)
            /\ call' = [call EXCEPT !.status = "running", !.by = f]
       ELSE /\ call' = Answered("rejected")
            /\ UNCHANGED discoveryVars
  /\ UNCHANGED <<journal, stored, entry, created, finalized, flow, setup, late, removed>>

FinalizeStep(f) ==
  /\ \/ FinalizeAcquires(f) \/ FinalizeRemoves(f)
  /\ UNCHANGED haVars

FinalizeReturns(f) ==
  /\ \/ FinalizeCompletes(f)
        /\ call' = IF call.by = f THEN Answered("ok") ELSE call
     \/ FinalizeFails(f)
        /\ call' = IF call.by = f THEN Answered("unavailable") ELSE call
  /\ UNCHANGED <<journal, stored, entry, created, finalized, flow, setup, late, removed>>

\* A call its caller gave up on is acted upon, unheard (or never is).
ServeLate(req) ==
  /\ late' = late \ {req}
  /\ \/ req.op = "claim" /\ Claim(req.id, req.token)
     \/ req.op = "activate" /\ Activate(req.token)
     \/ \E f \in Finalizers : req.op = "finalize" /\ FinalizeBegins(f, req.token)
  /\ UNCHANGED <<journal, stored, entry, created, finalized, flow, setup, call, removed>>

\* The Collector restarts under its callers: open connections break.
CollectorRestart ==
  /\ Restart
  /\ call' = IF call.status = "running" THEN Answered("broken") ELSE call
  /\ late' = {}
  /\ UNCHANGED <<journal, stored, entry, created, finalized, flow, setup, removed>>

-----------------------------------------------------------------------------
(* Home Assistant Core                                                     *)

\* Core's delayed save.
EntriesSaved ==
  /\ stored # entry
  /\ stored' = entry
  /\ UNCHANGED <<discoveryVars, journal, entry, created, finalized, flow,
                 setup, call, late, removed>>

SetupAgainFrom(steps) ==
  /\ setup.pc \in steps
  /\ setup' = SetupAt("start")
  /\ UNCHANGED <<discoveryVars, journal, stored, entry, created, finalized,
                 flow, call, late, removed>>

\* Core retries a setup that raised ConfigEntryNotReady by itself; a loaded or
\* refused entry is set up again when it is reloaded.  Reauthentication does
\* not change a refused entry: it accepts only a token the Collector
\* authorizes, and a Collector whose claim expired authorizes none.
SetupRetried == SetupAgainFrom({"retry"})
Reloaded == SetupAgainFrom({"loaded", "auth_failed"})

EntryRemoved ==
  /\ entry # NoEntry
  /\ setup.pc \in SetupRests
  /\ entry' = NoEntry
  /\ setup' = SetupAt("none")
  /\ removed' = TRUE
  /\ UNCHANGED <<discoveryVars, journal, stored, created, finalized, flow,
                 call, late>>

\* Home Assistant stops (having saved, or not) and starts from its disk.
HARestart ==
  /\ GivesUp
  /\ entry' = stored
  /\ created' = FALSE
  /\ finalized' = FALSE
  /\ flow' = NoFlow
  /\ setup' = SetupAt(IF stored = NoEntry THEN "none" ELSE "start")
  /\ UNCHANGED <<discoveryVars, journal, stored, removed>>

-----------------------------------------------------------------------------
Init ==
  /\ DiscoveryInit
  /\ journal = NoToken
  /\ stored = NoEntry
  /\ entry = NoEntry
  /\ created = FALSE
  /\ finalized = FALSE
  /\ flow = NoFlow
  /\ setup = SetupAt("none")
  /\ call = NoCall
  /\ late = {}
  /\ removed = FALSE

\* Random values are new: nobody holds them.
HeldIds == KnownIds \cup {flow.id, call.req.id} \cup {req.id : req \in late}
HeldTokens ==
  {journal, stored.token, entry.token, flow.token, call.req.token,
   cred.active, cred.pending} \cup {req.token : req \in late}
FreshIds == Ids \ HeldIds
FreshTokens == Tokens \ HeldTokens

CollectorAlone ==
  /\ \/ WorkerProgress(FreshIds)
     \/ WorkerFailure(FreshIds)
     \/ \E id \in HeldIds : Expires(id)
     \/ PendingPasses
  /\ UNCHANGED haVars

CollectorServes ==
  \/ ServeCall
  \/ \E f \in Finalizers : ServeFinalize(f) \/ FinalizeStep(f) \/ FinalizeReturns(f)

FlowNext ==
  \/ \E m \in messages : DiscoveryArrives(m)
  \/ \E token \in FreshTokens : ConfirmWithNewToken(token) \/ JournalSaveFails(token)
  \/ ConfirmWithJournal
  \/ SendClaim
  \/ ClaimConfirmed
  \/ ClaimRefusedByCollector
  \/ FlowDismissed

SetupNext ==
  \/ StartActivation
  \/ ActivationAnswered
  \/ StartFinalize
  \/ VerificationAnswered
  \/ FinalizeReplied
  \/ SetupWithoutPairing
  \/ CleanUpJournal

Next ==
  \/ CollectorAlone
  \/ CollectorServes
  \/ FlowNext
  \/ SetupNext
  \/ ClaimCallFails
  \/ SetupCallFails
  \/ VerificationFails
  \/ ServeCallFails
  \/ \E req \in late : ServeLate(req)
  \/ CollectorRestart
  \/ EntriesSaved
  \/ SetupRetried
  \/ Reloaded
  \/ EntryRemoved
  \/ HARestart

Spec == Init /\ [][Next]_vars

(***************************************************************************)
(* Fairness: what the Collector and the integration do without the user,   *)
(* a failure or a restart.  The worker's calls and the event loop proceed; *)
(* a handler thread is at last given the locks it waits for (see           *)
(* FairDiscoverySpec); Core retries an entry that is not ready.  The       *)
(* user's confirmation, a reload and the delayed save are not assumed.     *)
(***************************************************************************)
FairSpec ==
  /\ Spec
  /\ WF_vars(WorkerProgress(FreshIds) /\ UNCHANGED haVars)
  /\ SF_vars(ServeCall)
  /\ SF_vars(\E f \in Finalizers : ServeFinalize(f))
  /\ \A f \in Finalizers : SF_vars(FinalizeStep(f) \/ FinalizeReturns(f))
  /\ WF_vars(SetupNext)
  /\ WF_vars(call.status = "broken" /\ SetupCallFails)
  /\ WF_vars(SetupRetried)

-----------------------------------------------------------------------------
(* Properties                                                              *)

\* Every variable has its type; the Collector's file stays readable.
TypeOK ==
  /\ DiscoveryTypeOK
  /\ journal \in Tokens \cup {NoToken}
  /\ stored \in Entries \cup {NoEntry}
  /\ entry \in Entries \cup {NoEntry}
  /\ {created, finalized, removed} \subseteq BOOLEAN
  /\ flow \in [pc : FlowSteps, id : Ids \cup {NoId},
               token : Tokens \cup {NoToken}, recovered : BOOLEAN]
  /\ setup \in [pc : SetupSteps, activated : BOOLEAN]
  /\ call = NoCall
       \/ call \in [req : Requests, status : CallStatuses,
                    by : Finalizers \cup {NoFinalizer}]
  /\ late \subseteq Requests

\* Journal before claim: the Collector never holds a credential that no disk
\* of Home Assistant can present, so a crash of either side at any point can
\* be recovered from (unless the user deleted the entry).
CredentialRecoverable ==
  Claimant # NoToken /\ ~removed => Claimant \in {journal, stored.token}

\* The Collector forgets its recovery material and its discovery only when
\* the entry that uses the ACTIVE token has reached the disk: finalize is
\* never called by the process that created the entry.
FinalizedIsDurable ==
  Finalized /\ ~removed => stored.token = cred.active

\* An entry on disk that still has to activate or finalize finds its journal
\* after every restart: it can never be stuck on a recovery mismatch.
MarkersHaveJournal ==
  stored.activation \/ stored.finalize => journal = stored.token

\* Clean markers on disk mean the Collector has finalized this token.
CleanMarkersMeanFinalized ==
  stored # NoEntry /\ ~stored.finalize =>
    Finalized /\ cred.active = stored.token

\* The two sides never hold different tokens: while the Collector has a
\* claimant, the entry in memory and the one on disk are that claimant's (and
\* so is the journal, until the user deletes a paired entry and tries again).
TokensAgree ==
  Claimant # NoToken =>
    /\ {entry.token, stored.token} \subseteq {Claimant, NoToken}
    /\ ~removed => journal \in {Claimant, NoToken}

\* Setup is never stuck in its retry loop: once failures are over and Home
\* Assistant is not restarted in the middle of it again and again, each setup
\* ends loaded or, if the Collector refuses the token, in reauthentication.
SetupSettles ==
  <>[][HARestart => setup.pc \in SetupRests]_vars =>
    (setup.pc = "start" ~> setup.pc \in {"loaded", "auth_failed", "none"})

=============================================================================
