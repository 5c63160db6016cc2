------------------------ MODULE ManagedOnboarding_proof ------------------------
(***************************************************************************)
(* Proofs of the safety properties of ManagedOnboarding, for any number of *)
(* bootstraps, tokens, handler threads, faults and late calls.             *)
(*                                                                         *)
(* What each disk may be said to hold depends on the step every other      *)
(* actor has reached: a call on its way, a finalize still running, an      *)
(* entry Core has not saved.  OnboardingInv says what each of them may     *)
(* rely on; with the Collector's own IInv it is inductive.                 *)
(***************************************************************************)
EXTENDS ManagedOnboarding, PairingDiscovery_proof

\* The part of TypeOK that is about Home Assistant.
HATypeOK ==
  /\ journal \in Tokens \cup {NoToken}
  /\ stored \in Entries \cup {NoEntry}
  /\ entry \in Entries \cup {NoEntry}
  /\ {created, finalized, removed} \subseteq BOOLEAN
  /\ flow \in [pc : FlowSteps, id : Ids \cup {NoId},
               token : Tokens \cup {NoToken}, recovered : BOOLEAN]
  /\ setup \in [pc : SetupSteps, activated : BOOLEAN]
  /\ call = NoCall
       \/ call \in [req : Requests, status : CallStatuses,
                    by : Finalizers \cup {NoFinalizer}]
  /\ late \subseteq Requests

\* A flow runs only without an entry, and from the confirmation on works with
\* the journalled token.
FlowHolds ==
  /\ flow.pc # "none" => entry = NoEntry
  /\ flow.pc \in {"claim", "claiming"} => flow.token = journal /\ journal # NoToken

\* Setup that is under way still has the markers it set out to clear, and
\* only a process that did not create the entry finalizes.
SetupHolds ==
  /\ setup.pc # "none" => entry # NoEntry
  /\ setup.pc \in {"activating", "verify"} => entry.activation
  /\ setup.pc \in {"activating", "verify", "finalize", "finalizing"} => entry.finalize
  /\ setup.pc \in {"finalize", "finalizing"} => ~created

\* The call under way is the one its caller waits for, and an "ok" is the
\* truth about the Collector until it is read.
CallHolds ==
  /\ call # NoCall =>
       \/ flow.pc = "claiming" /\ call.req = Request("claim", flow.id, flow.token)
       \/ setup.pc = "activating" /\ call.req = Request("activate", NoId, entry.token)
       \/ setup.pc = "finalizing" /\ call.req = Request("finalize", NoId, entry.token)
  /\ call.by # NoFinalizer => call.status = "running"
  /\ call.status = "running" => call.req.op = "finalize" /\ Authorized(call.req.token)
  /\ call.status = "ok" /\ call.req.op = "claim" /\ cred.active # NoToken =>
       call.req.token = cred.active
  /\ call.status = "ok" /\ call.req.op = "finalize" =>
       Finalized /\ call.req.token = cred.active

\* What the markers of an entry, in memory or on disk, say.
MarkersHold(e) ==
  /\ e.activation => e.finalize
  /\ e.finalize => journal = e.token
  /\ e # NoEntry /\ ~e.finalize => Finalized /\ cred.active = e.token

\* An entry this process did not create came from the disk, and so did clean
\* markers this process did not write.
DiskHolds ==
  /\ entry # NoEntry /\ ~created => stored.token = entry.token
  /\ entry # NoEntry /\ ~created /\ ~finalized /\ ~entry.finalize => stored = entry
  /\ ~removed /\ stored # NoEntry => entry.token = stored.token

\* Until a token is active the only token anybody holds is the journal's.
OneToken ==
  cred.active = NoToken =>
    /\ {cred.pending, entry.token, stored.token, flow.token, call.req.token}
         \subseteq {journal, NoToken}
    /\ \A req \in late : req.token = journal

\* From then on the entries hold the active one, and the journal or the disk
\* has it.
ActiveToken ==
  cred.active # NoToken =>
    /\ {entry.token, stored.token} \subseteq {cred.active, NoToken}
    /\ ~removed => /\ journal \in {cred.active, NoToken}
                   /\ cred.active \in {journal, stored.token}

\* Whoever is about to finalize, does so, or has done so, is preceded by the
\* entry on disk.
FinalizeIsDurable ==
  ~removed =>
    /\ Finalized => stored.token = cred.active
    /\ \A f \in Finalizers : finalizer[f].pc # "idle" => stored.token = cred.active
    /\ call.req.op = "finalize" => stored.token = call.req.token
    /\ \A req \in late : req.op = "finalize" => stored.token = req.token

OnboardingInv ==
  /\ HATypeOK
  /\ FlowHolds
  /\ SetupHolds
  /\ CallHolds
  /\ MarkersHold(entry)
  /\ MarkersHold(stored)
  /\ DiskHolds
  /\ OneToken
  /\ ActiveToken
  /\ FinalizeIsDurable

-----------------------------------------------------------------------------
(* Steps of Home Assistant alone                                           *)

\* The config flow: the journal is written before the token is shown to the
\* Collector, and an entry is created only from an answered claim.
LEMMA FlowStepInv ==
  ASSUME IInv, OnboardingInv, FlowNext
  PROVE  OnboardingInv'
<1> USE TokenAssumption, IdAssumption, FinalizerAssumption
<1> USE DEF OnboardingInv, HATypeOK, FlowHolds, SetupHolds, CallHolds, MarkersHold, DiskHolds,
        OneToken, ActiveToken, FinalizeIsDurable, discoveryVars, Entries, NoEntry,
        NoFlow, FlowSteps, NoCall, Requests, CallStatuses, Request, Sent, SetupAt, SetupSteps,
        SetupRests, Authorized, Presents, Finalized
<1>1. ASSUME NEW m \in messages, DiscoveryArrives(m) PROVE OnboardingInv'
  <2>1. m.id \in Ids
    BY DEF IInv, DiscoveryTypeOK, Uuids
  <2>2. flow' = [pc |-> "form", id |-> m.id, token |-> NoToken,
                 recovered |-> (journal # NoToken)]
    BY <1>1 DEF DiscoveryArrives
  <2>5. /\ entry = NoEntry /\ call = NoCall
        /\ UNCHANGED <<discoveryVars, journal, stored, entry, created, finalized,
                       setup, call, late, removed>>
    BY <1>1 DEF DiscoveryArrives
  <2>3. (journal # NoToken) \in BOOLEAN
    OBVIOUS
  <2>4. /\ flow' \in [pc : FlowSteps, id : Ids \cup {NoId},
                     token : Tokens \cup {NoToken}, recovered : BOOLEAN]
        /\ flow'.pc = "form" /\ flow'.token = NoToken
    BY <2>1, <2>2, <2>3
  <2> QED
    BY <2>4, <2>5
<1>2. ASSUME NEW token \in FreshTokens, ConfirmWithNewToken(token) PROVE OnboardingInv'
  <2>1. /\ journal = NoToken /\ token \in Tokens /\ entry = NoEntry
        /\ ~stored.finalize
    BY <1>2 DEF ConfirmWithNewToken, FreshTokens
  <2>2. cred.active = NoToken => late = {}
    BY <2>1
  <2>3. cred.active # NoToken => removed
    BY <2>1
  <2>4. /\ flow' = [flow EXCEPT !.pc = "claim", !.token = token]
        /\ journal' = token
        /\ UNCHANGED <<discoveryVars, stored, entry, created, finalized, setup,
                       call, late, removed>>
    BY <1>2 DEF ConfirmWithNewToken
  <2> QED
    BY <2>1, <2>2, <2>3, <2>4
<1>3. ASSUME NEW token \in FreshTokens, JournalSaveFails(token) PROVE OnboardingInv'
  <2>1. /\ journal = NoToken /\ token \in Tokens /\ entry = NoEntry
        /\ ~stored.finalize /\ flow.pc = "form"
    BY <1>3 DEF JournalSaveFails, FreshTokens
  <2>2. cred.active = NoToken => late = {}
    BY <2>1
  <2>3. cred.active # NoToken => removed
    BY <2>1
  <2>4. call = NoCall
    BY <2>1
  <2>5. /\ journal' \in {NoToken, token}
        /\ UNCHANGED <<discoveryVars, stored, entry, created, finalized, flow,
                       setup, call, late, removed>>
    BY <1>3 DEF JournalSaveFails
  <2>6. CASE journal' = token
    BY <2>1, <2>2, <2>3, <2>4, <2>5, <2>6
  <2>7. CASE journal' = NoToken
    BY <2>1, <2>5, <2>7
  <2> QED
    BY <2>5, <2>6, <2>7
<1>4. CASE ConfirmWithJournal
  <2>1. /\ journal # NoToken /\ flow.pc = "form"
        /\ entry = NoEntry /\ call = NoCall
    BY <1>4 DEF ConfirmWithJournal
  <2>2. /\ flow' = [flow EXCEPT !.pc = "claim", !.token = journal]
        /\ UNCHANGED <<discoveryVars, journal, stored, entry, created, finalized,
                       setup, call, late, removed>>
    BY <1>4 DEF ConfirmWithJournal
  <2> QED
    BY <2>1, <2>2
<1>5. CASE SendClaim
  BY <1>5 DEF SendClaim
<1>6. CASE ClaimConfirmed
  BY <1>6 DEF ClaimConfirmed
<1>7. CASE ClaimRefusedByCollector
  BY <1>7 DEF ClaimRefusedByCollector, BackToForm
<1>8. CASE FlowDismissed
  BY <1>8 DEF FlowDismissed
<1> QED
  BY <1>1, <1>2, <1>3, <1>4, <1>5, <1>6, <1>7, <1>8 DEF FlowNext

\* Setup: what an entry's markers promise is true when they are dropped.
LEMMA SetupStepInv ==
  ASSUME IInv, OnboardingInv, SetupNext
  PROVE  OnboardingInv'
<1> USE TokenAssumption, IdAssumption, FinalizerAssumption
<1> USE DEF OnboardingInv, HATypeOK, FlowHolds, SetupHolds, CallHolds, MarkersHold, DiskHolds,
        OneToken, ActiveToken, FinalizeIsDurable, discoveryVars, Entries, NoEntry,
        FlowSteps, NoCall, Requests, CallStatuses, Request, Sent, SetupAt, SetupSteps,
        SetupRests, SetupGoes, SendFinalize, Authorized, Presents, Finalized
<1>1. CASE StartActivation
  BY <1>1 DEF StartActivation, MatchesJournal
<1>2. CASE ActivationAnswered
  BY <1>2 DEF ActivationAnswered
<1>3. CASE StartFinalize
  BY <1>3 DEF StartFinalize, MatchesJournal
<1>4. CASE VerificationAnswered
  <2>1. CASE VerifiedWhereCreated
    <3>1. /\ entry \in Entries /\ entry.finalize /\ created
          /\ flow.pc = "none" /\ call = NoCall
      BY <2>1 DEF VerifiedWhereCreated
    <3>2. /\ entry' \in Entries /\ entry'.token = entry.token
          /\ entry'.finalize /\ ~entry'.activation
      BY <2>1, <3>1 DEF VerifiedWhereCreated
    <3>3. /\ setup' = SetupAt("loaded")
          /\ UNCHANGED <<discoveryVars, journal, stored, created, finalized, flow,
                         call, late, removed>>
      BY <2>1 DEF VerifiedWhereCreated
    <3> QED
      BY <3>1, <3>2, <3>3
  <2>2. CASE VerifiedThenFinalize
    BY <2>2 DEF VerifiedThenFinalize
  <2>3. CASE VerifiedForFinalize
    BY <2>3 DEF VerifiedForFinalize
  <2>4. CASE setup.pc \in {"verify", "finalize"} /\ VerificationRefused
    BY <2>4 DEF VerificationRefused
  <2> QED
    BY <1>4, <2>1, <2>2, <2>3, <2>4 DEF VerificationAnswered
<1>5. CASE FinalizeReplied
  <2>1. CASE call.status = "ok" /\ FinalizeAcknowledged
    <3>1. /\ entry \in Entries /\ flow.pc = "none" /\ ~created
          /\ Finalized /\ cred.active = entry.token
      BY <1>5, <2>1 DEF FinalizeReplied
    <3>2. /\ entry' \in Entries /\ entry'.token = entry.token
          /\ ~entry'.finalize /\ ~entry'.activation
      BY <2>1, <3>1 DEF FinalizeAcknowledged
    <3>3. /\ setup' = SetupAt("loaded")
          /\ finalized' = TRUE
          /\ call' = NoCall
          /\ UNCHANGED <<discoveryVars, journal, stored, created, flow, late, removed>>
      BY <2>1 DEF FinalizeAcknowledged
    <3> QED
      BY <3>1, <3>2, <3>3
  <2>2. CASE FinalizePostponed
    <3>1. /\ setup.pc = "finalizing" /\ entry \in Entries /\ entry.finalize
      BY <1>5 DEF FinalizeReplied
    <3>2. PICK activation \in BOOLEAN : entry' = [entry EXCEPT !.activation = activation]
      <4>1. (entry.activation /\ ~setup.activated) \in BOOLEAN
        OBVIOUS
      <4> QED
        BY <2>2, <4>1, Zenon DEF FinalizePostponed
    <3>3. /\ setup' = SetupAt("loaded")
          /\ call' = NoCall
          /\ UNCHANGED <<discoveryVars, journal, stored, created, finalized, flow,
                         late, removed>>
      BY <2>2 DEF FinalizePostponed
    <3> QED
      BY <3>1, <3>2, <3>3
  <2>3. CASE FinalizeRefused
    BY <1>5, <2>3 DEF FinalizeReplied, FinalizeRefused
  <2> QED
    BY <1>5, <2>1, <2>2, <2>3 DEF FinalizeReplied
<1>6. CASE SetupWithoutPairing
  BY <1>6 DEF SetupWithoutPairing
<1>7. CASE CleanUpJournal
  BY <1>7 DEF CleanUpJournal, MatchesJournal
<1> QED
  BY <1>1, <1>2, <1>3, <1>4, <1>5, <1>6, <1>7 DEF SetupNext

\* A call given up on may be late; no other one becomes so.
LEMMA GivesUpLeaves ==
  ASSUME HATypeOK, GivesUp
  PROVE  /\ call' = NoCall
         /\ late' \subseteq Requests
         /\ \A req \in late' : req \in late \/ (call # NoCall /\ req = call.req)
<1>1. call.status = "sent" => call # NoCall /\ call.req \in Requests
  BY DEF HATypeOK, NoCall
<1> QED
  BY <1>1 DEF GivesUp, HATypeOK

\* A call that breaks leaves its caller where it can try again; what it asked
\* for may still be on its way.
LEMMA CallFailsInv ==
  ASSUME IInv, OnboardingInv, ClaimCallFails \/ SetupCallFails \/ VerificationFails
  PROVE  OnboardingInv'
<1> USE TokenAssumption, IdAssumption, FinalizerAssumption
<1> USE DEF OnboardingInv, HATypeOK, FlowHolds, SetupHolds, CallHolds, MarkersHold, DiskHolds,
        OneToken, ActiveToken, FinalizeIsDurable, CredentialVars, Entries, NoEntry,
        FlowSteps, NoCall, Requests, CallStatuses, Request, SetupAt, SetupSteps, SetupRests,
        Authorized, Presents, Finalized
<1>1. CASE ClaimCallFails
  <2>1. /\ flow.pc = "claiming" /\ entry = NoEntry /\ setup.pc = "none"
        /\ flow' = [flow EXCEPT !.pc = "form", !.token = NoToken]
        /\ UNCHANGED <<CredentialVars, finalizer, journal, stored, entry, created,
                       finalized, setup, removed>>
    BY <1>1 DEF ClaimCallFails, BackToForm
  <2>2. /\ call' = NoCall
        /\ late' \subseteq Requests
        /\ \A req \in late' : req \in late \/ (call # NoCall /\ req = call.req)
    BY <1>1, GivesUpLeaves DEF ClaimCallFails
  <2> QED
    BY <2>1, <2>2
<1>2. CASE SetupCallFails
  <2>1. /\ setup' = SetupAt("retry") /\ setup.pc # "none"
        /\ UNCHANGED <<CredentialVars, finalizer, journal, stored, entry, created,
                       finalized, flow, removed>>
    BY <1>2 DEF SetupCallFails
  <2>2. /\ call' = NoCall
        /\ late' \subseteq Requests
        /\ \A req \in late' : req \in late \/ (call # NoCall /\ req = call.req)
    BY <1>2, GivesUpLeaves DEF SetupCallFails
  <2> QED
    BY <2>1, <2>2
<1>3. CASE VerificationFails
  BY <1>3 DEF VerificationFails
<1> QED
  BY <1>1, <1>2, <1>3

\* What Core does with the entry, and a restart of Home Assistant.
LEMMA CoreStepInv ==
  ASSUME IInv, OnboardingInv,
         EntriesSaved \/ SetupRetried \/ Reloaded \/ EntryRemoved \/ HARestart
  PROVE  OnboardingInv'
<1> USE TokenAssumption, IdAssumption, FinalizerAssumption
<1> USE DEF OnboardingInv, HATypeOK, FlowHolds, SetupHolds, CallHolds, MarkersHold, DiskHolds,
        OneToken, ActiveToken, FinalizeIsDurable, discoveryVars, Entries, NoEntry, NoFlow,
        FlowSteps, NoCall, Requests, CallStatuses, Request, SetupAt, SetupSteps, SetupRests,
        Authorized, Presents, Finalized
<1>1. CASE EntriesSaved
  <2>1. /\ stored' = entry
        /\ UNCHANGED <<discoveryVars, journal, entry, created, finalized, flow, setup,
                       call, late, removed>>
    BY <1>1 DEF EntriesSaved
  <2>2. /\ ~removed /\ stored # NoEntry => entry.token = stored.token
        /\ stored.token # NoToken => stored # NoEntry
    OBVIOUS
  <2>3. DiskHolds' /\ MarkersHold(stored)' /\ OneToken' /\ HATypeOK'
    BY <2>1
  <2>4. ActiveToken'
    BY <2>1, <2>2
  <2>5. FinalizeIsDurable'
    <3>1. cred.state = "active" => cred.active # NoToken
      BY DEF IInv, DiscoveryTypeOK, CredentialTypeOK, WellFormed
    <3>2. \A f \in Finalizers : finalizer[f].pc # "idle" => cred.state = "active"
      BY DEF IInv, FinalizerHolds
    <3>3. /\ call.req.op = "finalize" => call.req.token # NoToken
          /\ \A req \in late : req.token # NoToken
      OBVIOUS
    <3>4. ~removed /\ stored.token # NoToken => entry.token = stored.token
      BY <2>2
    <3> QED
      BY <2>1, <3>1, <3>2, <3>3, <3>4
  <2>6. FlowHolds' /\ SetupHolds' /\ CallHolds' /\ MarkersHold(entry)'
    BY <2>1
  <2> QED
    BY <2>3, <2>4, <2>5, <2>6
<1>2. CASE SetupRetried \/ Reloaded
  <2>1. /\ setup.pc \in {"retry", "loaded", "auth_failed"}
        /\ setup' = SetupAt("start")
        /\ UNCHANGED <<discoveryVars, journal, stored, entry, created, finalized, flow,
                       call, late, removed>>
    BY <1>2 DEF SetupRetried, Reloaded, SetupAgainFrom
  <2> QED
    BY <2>1
<1>3. CASE EntryRemoved
  BY <1>3 DEF EntryRemoved
<1>4. CASE HARestart
  <2>1. /\ entry' = stored /\ created' = FALSE /\ finalized' = FALSE /\ flow' = NoFlow
        /\ setup' = SetupAt(IF stored = NoEntry THEN "none" ELSE "start")
        /\ UNCHANGED <<discoveryVars, journal, stored, removed>>
    BY <1>4 DEF HARestart
  <2>2. /\ call' = NoCall
        /\ late' \subseteq Requests
        /\ \A req \in late' : req \in late \/ (call # NoCall /\ req = call.req)
    BY <1>4, GivesUpLeaves DEF HARestart
  <2>3. /\ setup' \in [pc : SetupSteps, activated : BOOLEAN]
        /\ setup'.pc \in {"none", "start"}
        /\ setup'.pc = "start" => stored # NoEntry
    BY <2>1
  <2>4. HATypeOK' /\ FlowHolds' /\ SetupHolds' /\ CallHolds'
    BY <2>1, <2>2, <2>3
  <2>5. MarkersHold(entry)' /\ MarkersHold(stored)' /\ DiskHolds' /\ ActiveToken'
    BY <2>1
  <2>6. OneToken' /\ FinalizeIsDurable'
    BY <2>1, <2>2
  <2> QED
    BY <2>4, <2>5, <2>6
<1> QED
  BY <1>1, <1>2, <1>3, <1>4

-----------------------------------------------------------------------------
(* Steps of the Collector                                                  *)

\* What Home Assistant keeps to itself.
Kept == UNCHANGED <<journal, stored, entry, created, finalized, flow, setup, removed>>

\* The requests the Collector may receive.
Received == late \cup {call.req}

(***************************************************************************)
(* What any step of the Collector does to the verifiers, the finalizing    *)
(* threads and the call: a verifier comes from a request, an active one    *)
(* from the pending one, a finalize from an authorized request.            *)
(***************************************************************************)
VerifiersMove ==
  /\ cred'.active \in {cred.active, cred.pending}
  /\ cred.active # NoToken => cred'.active = cred.active
  /\ cred'.pending \in {cred.pending, NoToken} \cup {req.token : req \in Received}
  /\ Finalized => Finalized'
  /\ ~Finalized /\ Finalized' => \E f \in Finalizers : finalizer[f].pc # "idle"

FinalizersMove ==
  \A f \in Finalizers : finalizer'[f].pc # "idle" =>
    \/ finalizer[f].pc # "idle"
    \/ \E req \in Received : req.op = "finalize" /\ Authorized(req.token)

CallMoves ==
  \/ call' = call
  \/ /\ call' \in [req : Requests, status : CallStatuses,
                   by : Finalizers \cup {NoFinalizer}]
     /\ call'.req = call.req /\ call # NoCall
     /\ call'.by # NoFinalizer => call'.status = "running"
     /\ call'.status = "running" => call.req.op = "finalize" /\ Authorized(call.req.token)
     /\ call'.status = "ok" /\ call.req.op = "claim" /\ cred'.active # NoToken =>
          call.req.token = cred'.active
     /\ call'.status = "ok" /\ call.req.op = "finalize" =>
          Finalized' /\ call.req.token = cred'.active

\* Such a step keeps what either side holds of the other.
LEMMA CollectorMovesInv ==
  ASSUME IInv, OnboardingInv, IInv', Kept, late' \subseteq late,
         VerifiersMove, FinalizersMove, CallMoves
  PROVE  OnboardingInv'
<1> USE TokenAssumption, FinalizerAssumption
<1>1. /\ cred.active \in Tokens \cup {NoToken} /\ cred.pending \in Tokens \cup {NoToken}
      /\ cred.state = "active" => cred.active # NoToken
      /\ \A f \in Finalizers : finalizer[f].pc # "idle" => cred.state = "active"
  BY DEF IInv, DiscoveryTypeOK, CredentialTypeOK, CredentialRecord, WellFormed,
         FinalizerHolds
<1>2. HATypeOK' /\ FlowHolds' /\ SetupHolds' /\ DiskHolds'
  BY DEF OnboardingInv, HATypeOK, FlowHolds, SetupHolds, DiskHolds, Kept, CallMoves
<1>3. CallHolds'
  <2>1. /\ cred.active # NoToken => cred'.active = cred.active
        /\ cred'.active \in {cred.active, cred.pending}
        /\ Finalized => Finalized' /\ cred.active # NoToken
    BY <1>1 DEF VerifiersMove, Finalized
  <2>2. call.status = "ok" => call.req.token # NoToken
    BY DEF OnboardingInv, HATypeOK, NoCall, Requests
  <2>3. CASE call' = call
    <3>1. call.status = "ok" /\ call.req.op = "claim" /\ cred'.active # NoToken =>
            call.req.token = cred'.active
      BY <2>1, <2>2 DEF OnboardingInv, CallHolds, OneToken
    <3>2. call.status = "running" => cred.active # NoToken
      BY DEF OnboardingInv, CallHolds, Authorized, Presents
    <3> QED
      BY <2>1, <2>3, <3>1, <3>2
         DEF OnboardingInv, CallHolds, Kept, Authorized, Presents
  <2>4. CASE call' # call
    BY <2>1, <2>4
       DEF OnboardingInv, CallHolds, Kept, CallMoves, Authorized, Presents
  <2> QED
    BY <2>3, <2>4
<1>4. MarkersHold(entry)' /\ MarkersHold(stored)'
  BY <1>1 DEF OnboardingInv, MarkersHold, Kept, VerifiersMove, Finalized
<1>5. call'.req = call.req
  BY DEF CallMoves
<1>6. OneToken'
  BY <1>1, <1>5 DEF OnboardingInv, OneToken, HATypeOK, Kept, VerifiersMove, Received
<1>7. ActiveToken'
  BY <1>1 DEF OnboardingInv, OneToken, ActiveToken, HATypeOK, Kept, VerifiersMove
<1>8. FinalizeIsDurable'
  BY <1>1, <1>5 DEF OnboardingInv, FinalizeIsDurable, Kept, VerifiersMove, FinalizersMove,
                    Received, Authorized, Presents, Finalized
<1> QED
  BY <1>2, <1>3, <1>4, <1>6, <1>7, <1>8 DEF OnboardingInv

\* Only a claim makes a verifier pending.
LEMMA PendingComesFromClaims ==
  ASSUME IInv,
         \/ WorkerProgress(Ids \ KnownIds)
         \/ WorkerFailure(Ids \ KnownIds)
         \/ \E f \in Finalizers, token \in Tokens : FinalizeBegins(f, token)
         \/ \E f \in Finalizers : FinalizeProgress(f) \/ FinalizeFails(f)
         \/ \E id \in Ids : Expires(id)
         \/ PendingPasses
         \/ Restart
  PROVE  cred'.pending \in {cred.pending, NoToken}
<1>0. cred \in CredentialRecord
  BY DEF IInv, DiscoveryTypeOK, CredentialTypeOK
<1>1. \A id : CreateBootstrap(id) => cred'.pending = NoToken
  BY DEF CreateBootstrap, WithBootstrap, EmptyState
<1>2. \A uuid : SetDiscoveryUuid(uuid) => cred'.pending = cred.pending
  BY <1>0 DEF SetDiscoveryUuid, CredentialRecord
<1>3. CompleteFinalize => cred'.pending = cred.pending
  BY <1>0 DEF CompleteFinalize, CredentialRecord
<1>4. CASE WorkerProgress(Ids \ KnownIds)
  BY <1>1, <1>2, <1>4
     DEF WorkerProgress, Wake, EnterPublishNew, RemoveOldDiscovery, ForgetOldDiscovery,
         CreateFreshBootstrap, PublishBootstrap, RecordDiscovery, CredentialVars
<1>5. CASE WorkerFailure(Ids \ KnownIds)
  BY <1>1, <1>2, <1>5
     DEF WorkerFailure, WakeReadFails, PublishNewReadFails, RemoveOldFails, PublishFails,
         PublishNewWriteFails, CredentialVars
<1>6. CASE \/ \E f \in Finalizers, token \in Tokens : FinalizeBegins(f, token)
           \/ \E f \in Finalizers : FinalizeProgress(f) \/ FinalizeFails(f)
  BY <1>3, <1>6
     DEF FinalizeBegins, FinalizeProgress, FinalizeAcquires, FinalizeRemoves,
         FinalizeCompletes, FinalizeFails, CredentialVars
<1>7. CASE (\E id \in Ids : Expires(id)) \/ PendingPasses \/ Restart
  BY <1>7 DEF Expires, BootstrapExpires, PendingPasses, PendingExpires, Restart,
              CredentialVars
<1> QED
  BY <1>4, <1>5, <1>6, <1>7

\* The rest of VerifiersMove holds of every step.
LEMMA StepMovesVerifiers ==
  ASSUME IInv, CollectorStep,
         cred'.pending \in {cred.pending, NoToken} \cup {req.token : req \in Received}
  PROVE  VerifiersMove
<1>1. CredentialInv /\ CredentialStep
  BY StepIsCredentialStep DEF IInv, DiscoveryTypeOK, CredentialInv
<1>2. cred'.active \in {cred.active, cred.pending} /\ (Finalized => Finalized')
  BY <1>1, CredentialStepActivates
<1>3. cred.active # NoToken => cred'.active = cred.active
  BY <1>1, CredentialStepKeepsActive DEF ActiveKept
<1>4. ~Finalized /\ Finalized' => \E f \in Finalizers : finalizer[f].pc # "idle"
  BY OnlyFinalizeFinalizes
<1> QED
  BY <1>2, <1>3, <1>4 DEF VerifiersMove

\* The worker, expiry and the finalizing threads, whose callers wait.
LEMMA CollectorAloneInv ==
  ASSUME IInv, OnboardingInv, CollectorAlone
  PROVE  IInv' /\ OnboardingInv'
<1>1. FreshIds \subseteq Ids \ KnownIds
  BY DEF FreshIds, HeldIds
<1>2. CASE WorkerProgress(FreshIds)
  <2>1. WorkerProgress(Ids \ KnownIds)
    BY <1>1, <1>2 DEF WorkerProgress
  <2>2. UNCHANGED finalizer
    BY <1>2 DEF WorkerProgress, Wake, EnterPublishNew, RemoveOldDiscovery,
                ForgetOldDiscovery, CreateFreshBootstrap, PublishBootstrap, RecordDiscovery
  <2> QED
    BY <2>1, <2>2, StepInv, PendingComesFromClaims, StepMovesVerifiers, CollectorMovesInv
       DEF CollectorStep, CollectorAlone, haVars, Kept, FinalizersMove, CallMoves
<1>3. CASE WorkerFailure(FreshIds)
  <2>1. WorkerFailure(Ids \ KnownIds)
    BY <1>1, <1>3 DEF WorkerFailure
  <2>2. UNCHANGED finalizer
    BY <1>3 DEF WorkerFailure, WakeReadFails, PublishNewReadFails, RemoveOldFails,
                PublishFails, PublishNewWriteFails
  <2> QED
    BY <2>1, <2>2, StepInv, PendingComesFromClaims, StepMovesVerifiers, CollectorMovesInv
       DEF CollectorStep, CollectorAlone, haVars, Kept, FinalizersMove, CallMoves
<1>4. CASE (\E id \in HeldIds : Expires(id)) \/ PendingPasses
  <2>1. (\E id \in Ids : Expires(id)) \/ PendingPasses
    BY <1>4 DEF Expires, BootstrapExpires
  <2>2. UNCHANGED finalizer
    BY <1>4 DEF Expires, PendingPasses
  <2> QED
    BY <2>1, <2>2, StepInv, PendingComesFromClaims, StepMovesVerifiers, CollectorMovesInv
       DEF CollectorStep, CollectorAlone, haVars, Kept, FinalizersMove, CallMoves
<1> QED
  BY <1>2, <1>3, <1>4 DEF CollectorAlone

\* What an answer changes of the call.
LEMMA AnswerIsTyped ==
  ASSUME OnboardingInv, call # NoCall, NEW status \in CallStatuses, call' = Answered(status)
  PROVE  /\ call' \in [req : Requests, status : CallStatuses,
                      by : Finalizers \cup {NoFinalizer}]
         /\ call'.req = call.req /\ call'.by = NoFinalizer /\ call'.status = status
BY DEF OnboardingInv, HATypeOK, Answered

\* A claim or an activation is served, failed, or served late.
LEMMA RequestServedInv ==
  ASSUME IInv, OnboardingInv,
         ServeCall \/ ServeCallFails
           \/ \E req \in late : ServeLate(req) /\ req.op \in {"claim", "activate"}
  PROVE  IInv' /\ OnboardingInv'
<1> USE TokenAssumption, FinalizerAssumption
<1>0. /\ faults \in 0..MaxFaults /\ MaxFaults \in Nat
      /\ cred \in CredentialRecord
      /\ cred.active # NoToken => cred.state = "active"
  BY FaultAssumption DEF IInv, DiscoveryTypeOK, CredentialTypeOK, ActiveMeansActive
<1>1. PICK req \in Received :
        /\ req \in Requests
        /\ \/ UNCHANGED CredentialVars
           \/ /\ CredentialsLockFree
              /\ ClaimSucceeds(req.id, req.token) \/ ClaimRejected(req.id, req.token)
           \/ /\ CredentialsLockFree
              /\ ActivateSucceeds(req.token) \/ ActivateRejected(req.token)
        /\ UNCHANGED <<messages, worker, finalizer>>
        /\ faults' \in 0..MaxFaults
        /\ Kept /\ late' \subseteq late
  <2>1. CASE ServeCall
    BY <1>0, <2>1 DEF ServeCall, Received, Kept, OnboardingInv, HATypeOK, NoCall
  <2>2. CASE ServeCallFails
    BY <1>0, <2>2 DEF ServeCallFails, Fault, Received, Kept, OnboardingInv, HATypeOK, NoCall
  <2>3. CASE \E req \in late : ServeLate(req) /\ req.op \in {"claim", "activate"}
    BY <1>0, <2>3 DEF ServeLate, Claim, Activate, Received, Kept, OnboardingInv, HATypeOK
  <2> QED
    BY <2>1, <2>2, <2>3
<1>2. RequestStep
  BY <1>1 DEF RequestStep, Requests
<1>3. IInv'
  BY <1>2, StepInv DEF CollectorStep
<1>4. cred'.pending \in {cred.pending, NoToken, req.token}
  BY <1>0, <1>1
     DEF CredentialVars, ClaimSucceeds, ClaimAccepted, ClaimRepeated, ClaimRejected,
         ClaimFailedAttempt, ClaimRefused, ActivateSucceeds, ActivateAccepted,
         ActivateRepeated, ActivateRejected, CredentialRecord
<1>5. VerifiersMove
  BY <1>1, <1>2, <1>4, StepMovesVerifiers DEF CollectorStep
<1>6. CallMoves
  <2>1. CASE ServeCall
    <3>1. call # NoCall
      BY <2>1 DEF ServeCall, NoCall
    <3>2. CASE call' = Answered("rejected")
      BY <3>1, <3>2, AnswerIsTyped DEF CallMoves, CallStatuses
    <3>3. CASE /\ call' = Answered("ok")
               /\ \/ call.req.op = "claim" /\ ClaimSucceeds(call.req.id, call.req.token)
                  \/ call.req.op = "activate"
      <4>1. call.req.op = "claim" /\ cred'.active # NoToken =>
              call.req.token = cred'.active
        BY <1>0, <3>3
           DEF ClaimSucceeds, ClaimAccepted, ClaimRepeated, ClaimIsRepeat, Claimant,
               BootstrapOpen, Presents, CredentialRecord
      <4>2. call.req.op # "finalize"
        BY <3>3
      <4>3. /\ call' \in [req : Requests, status : CallStatuses,
                          by : Finalizers \cup {NoFinalizer}]
            /\ call'.req = call.req /\ call'.by = NoFinalizer /\ call'.status = "ok"
        BY <3>1, <3>3, AnswerIsTyped DEF CallStatuses
      <4> QED
        BY <3>1, <4>1, <4>2, <4>3 DEF CallMoves
    <3> QED
      BY <2>1, <3>2, <3>3 DEF ServeCall
  <2>2. CASE ServeCallFails
    BY <2>2, AnswerIsTyped DEF ServeCallFails, CallMoves, NoCall, CallStatuses
  <2>3. CASE \E r \in late : ServeLate(r)
    BY <2>3 DEF ServeLate, CallMoves
  <2> QED
    BY <2>1, <2>2, <2>3
<1>7. FinalizersMove
  BY <1>1 DEF FinalizersMove
<1> QED
  BY <1>1, <1>3, <1>5, <1>6, <1>7, CollectorMovesInv

\* A finalize is begun, by the call or by one given up on.
LEMMA FinalizeBegunInv ==
  ASSUME IInv, OnboardingInv, NEW f \in Finalizers,
         ServeFinalize(f)
           \/ \E req \in late : /\ req.op = "finalize"
                                /\ FinalizeBegins(f, req.token)
                                /\ late' = late \ {req}
                                /\ Kept /\ UNCHANGED call
  PROVE  IInv' /\ OnboardingInv'
<1> USE TokenAssumption, FinalizerAssumption
<1>1. CASE ServeFinalize(f) /\ ~Authorized(call.req.token)
  <2>1. UNCHANGED discoveryVars /\ Kept /\ late' \subseteq late
    BY <1>1 DEF ServeFinalize, Kept
  <2>2. IInv'
    BY <2>1, StepInv
  <2>3. VerifiersMove /\ FinalizersMove
    BY <2>1 DEF discoveryVars, VerifiersMove, FinalizersMove, Finalized
  <2>4. CallMoves
    <3>1. call # NoCall /\ call' = Answered("rejected")
      BY <1>1 DEF ServeFinalize, NoCall
    <3> QED
      BY <3>1, AnswerIsTyped DEF CallMoves, CallStatuses
  <2> QED
    BY <2>1, <2>2, <2>3, <2>4, CollectorMovesInv
<1>2. CASE ~(ServeFinalize(f) /\ ~Authorized(call.req.token))
  <2>1. PICK req \in Received :
          /\ req \in Requests /\ req.op = "finalize"
          /\ FinalizeBegins(f, req.token)
          /\ Kept /\ late' \subseteq late
    <3>1. CASE ServeFinalize(f)
      BY <1>2, <3>1 DEF ServeFinalize, Received, Kept, OnboardingInv, HATypeOK, NoCall
    <3>2. CASE ~ServeFinalize(f)
      BY <3>2 DEF Received, OnboardingInv, HATypeOK
    <3> QED
      BY <3>1, <3>2
  <2>2. CollectorStep
    BY <2>1 DEF CollectorStep, Requests
  <2>3. IInv'
    BY <2>2, StepInv
  <2>4. VerifiersMove
    BY <2>1, <2>2, StepMovesVerifiers DEF FinalizeBegins, CredentialVars
  <2>5. FinalizersMove
    <3>1. /\ finalizer' = [finalizer EXCEPT ![f].pc = "acquire"]
          /\ req.op = "finalize" /\ Authorized(req.token)
      BY <2>1 DEF FinalizeBegins
    <3>2. finalizer \in [Finalizers -> [pc : FinalizeSteps, uuid : Uuids \cup {NoUuid}]]
      BY DEF IInv, DiscoveryTypeOK
    <3> QED
      BY <3>1, <3>2 DEF FinalizersMove
  <2>6. CallMoves
    <3>1. CASE ServeFinalize(f)
      <4>1. /\ call # NoCall /\ call.req.op = "finalize" /\ Authorized(call.req.token)
            /\ call' = [call EXCEPT !.status = "running", !.by = f]
        BY <1>2, <3>1 DEF ServeFinalize, NoCall
      <4>2. /\ call' \in [req : Requests, status : CallStatuses,
                          by : Finalizers \cup {NoFinalizer}]
            /\ call'.req = call.req /\ call'.status = "running"
        BY <4>1 DEF OnboardingInv, HATypeOK, CallStatuses
      <4> QED
        BY <4>1, <4>2 DEF CallMoves
    <3>2. CASE ~ServeFinalize(f)
      BY <3>2 DEF CallMoves
    <3> QED
      BY <3>1, <3>2
  <2> QED
    BY <2>1, <2>3, <2>4, <2>5, <2>6, CollectorMovesInv
<1> QED
  BY <1>1, <1>2

\* A finalize proceeds; the call it serves is answered when it returns.
LEMMA FinalizeRunsInv ==
  ASSUME IInv, OnboardingInv, NEW f \in Finalizers, FinalizeStep(f) \/ FinalizeReturns(f)
  PROVE  IInv' /\ OnboardingInv'
<1> USE TokenAssumption, FinalizerAssumption
<1>1. FinalizeProgress(f) \/ FinalizeFails(f)
  BY DEF FinalizeStep, FinalizeReturns, FinalizeProgress
<1>2. CollectorStep
  BY <1>1 DEF CollectorStep
<1>3. IInv'
  BY <1>2, StepInv
<1>4. VerifiersMove
  BY <1>1, <1>2, PendingComesFromClaims, StepMovesVerifiers
<1>5. FinalizersMove
  BY <1>1 DEF FinalizeProgress, FinalizeAcquires, FinalizeRemoves, FinalizeCompletes,
              FinalizeFails, FinalizersMove, IdleFinalizer, IInv, DiscoveryTypeOK
<1>6. Kept /\ UNCHANGED late
  BY DEF FinalizeStep, FinalizeReturns, haVars, Kept
<1>7. CallMoves
  <2>1. CASE UNCHANGED call
    BY <2>1 DEF CallMoves
  <2>2. CASE FinalizeReturns(f) /\ call.by = f
    <3>1. /\ call # NoCall
          /\ call \in [req : Requests, status : CallStatuses,
                      by : Finalizers \cup {NoFinalizer}]
          /\ call.req.op = "finalize" /\ call.req.token = cred.active
          /\ cred.active # NoToken
      BY <2>2 DEF OnboardingInv, HATypeOK, CallHolds, NoCall, Authorized, Presents
    <3>2. cred'.active = cred.active
      BY <1>4, <3>1 DEF VerifiersMove
    <3>3. CASE FinalizeCompletes(f) /\ call' = Answered("ok")
      <4>1. Finalized'
        BY <3>3 DEF FinalizeCompletes, CompleteFinalize, Finalized, IInv, DiscoveryTypeOK,
                    CredentialTypeOK, CredentialRecord
      <4> QED
        BY <3>1, <3>2, <3>3, <4>1 DEF CallMoves, Answered, CallStatuses
    <3>4. CASE call' = Answered("unavailable")
      BY <3>1, <3>4 DEF CallMoves, Answered, CallStatuses
    <3> QED
      BY <2>2, <3>3, <3>4 DEF FinalizeReturns
  <2> QED
    BY <2>1, <2>2 DEF FinalizeStep, FinalizeReturns, haVars
<1> QED
  BY <1>3, <1>4, <1>5, <1>6, <1>7, CollectorMovesInv

\* The Collector restarts: connections break, nothing is forgotten that a
\* disk holds.
LEMMA CollectorRestartInv ==
  ASSUME IInv, OnboardingInv, CollectorRestart
  PROVE  IInv' /\ OnboardingInv'
<1> USE TokenAssumption, FinalizerAssumption
<1>1. Restart /\ Kept /\ late' \subseteq late
  BY DEF CollectorRestart, Kept
<1>2. CollectorStep
  BY <1>1 DEF CollectorStep
<1>3. VerifiersMove
  BY <1>1, <1>2, PendingComesFromClaims, StepMovesVerifiers
<1>4. FinalizersMove
  BY <1>1 DEF Restart, IdleFinalizer, FinalizersMove
<1>5. CallMoves
  <2>1. CASE call.status = "running"
    <3>1. call # NoCall /\ call' = Answered("broken")
      BY <2>1 DEF CollectorRestart, NoCall
    <3> QED
      BY <3>1, AnswerIsTyped DEF CallMoves, CallStatuses
  <2>2. CASE call.status # "running"
    BY <2>2 DEF CollectorRestart, CallMoves
  <2> QED
    BY <2>1, <2>2
<1> QED
  BY <1>1, <1>2, <1>3, <1>4, <1>5, StepInv, CollectorMovesInv

\* A step of Home Assistant is nothing to the Collector, but for the failures
\* counted.
LEMMA HomeAssistantStep ==
  ASSUME IInv,
         \/ FlowNext \/ SetupNext
         \/ ClaimCallFails \/ SetupCallFails \/ VerificationFails
         \/ EntriesSaved \/ SetupRetried \/ Reloaded \/ EntryRemoved \/ HARestart
  PROVE  IInv'
<1>0. faults \in 0..MaxFaults /\ MaxFaults \in Nat
  BY FaultAssumption DEF IInv, DiscoveryTypeOK
<1>1. CASE ClaimCallFails \/ SetupCallFails \/ VerificationFails
  <2>1. RequestStep
    BY <1>0, <1>1 DEF ClaimCallFails, SetupCallFails, VerificationFails, CallBreaks, Fault,
                      RequestStep, CredentialVars
  <2> QED
    BY <2>1, StepInv DEF CollectorStep
<1>2. CASE ~(ClaimCallFails \/ SetupCallFails \/ VerificationFails)
  <2>1. UNCHANGED discoveryVars
    BY <1>2
       DEF FlowNext, DiscoveryArrives, ConfirmWithNewToken, JournalSaveFails,
           ConfirmWithJournal, SendClaim, ClaimConfirmed, ClaimRefusedByCollector,
           FlowDismissed, SetupNext, StartActivation, ActivationAnswered, StartFinalize,
           VerificationAnswered, VerifiedWhereCreated, VerifiedThenFinalize,
           VerifiedForFinalize, VerificationRefused, FinalizeReplied, FinalizeAcknowledged,
           FinalizePostponed, FinalizeRefused, SetupWithoutPairing, CleanUpJournal,
           EntriesSaved, SetupRetried, Reloaded, SetupAgainFrom, EntryRemoved, HARestart
  <2> QED
    BY <2>1, StepInv
<1> QED
  BY <1>1, <1>2

-----------------------------------------------------------------------------
LEMMA OnboardingInitInv == Init => IInv /\ OnboardingInv
<1> SUFFICES ASSUME Init PROVE IInv /\ OnboardingInv
  OBVIOUS
<1>1. IInv
  BY InitInv DEF Init
<1>2. /\ cred.active = NoToken /\ cred.pending = NoToken /\ cred.state = "unpaired"
      /\ \A f \in Finalizers : finalizer[f].pc = "idle"
  BY DEF Init, DiscoveryInit, CredentialInit, EmptyState, IdleFinalizer
<1> QED
  BY <1>1, <1>2
     DEF Init, OnboardingInv, HATypeOK, FlowHolds, SetupHolds, CallHolds, MarkersHold,
         DiskHolds, OneToken, ActiveToken, FinalizeIsDurable, NoEntry, NoFlow, NoCall,
         FlowSteps, SetupAt, SetupSteps, SetupRests, Request, Finalized

LEMMA OnboardingStepInv == IInv /\ OnboardingInv /\ [Next]_vars => IInv' /\ OnboardingInv'
<1> SUFFICES ASSUME IInv, OnboardingInv, [Next]_vars PROVE IInv' /\ OnboardingInv'
  OBVIOUS
<1>1. CASE FlowNext \/ SetupNext
  BY <1>1, FlowStepInv, SetupStepInv, HomeAssistantStep
<1>2. CASE ClaimCallFails \/ SetupCallFails \/ VerificationFails
  BY <1>2, CallFailsInv, HomeAssistantStep
<1>3. CASE EntriesSaved \/ SetupRetried \/ Reloaded \/ EntryRemoved \/ HARestart
  BY <1>3, CoreStepInv, HomeAssistantStep
<1>4. CASE CollectorAlone \/ CollectorRestart
  BY <1>4, CollectorAloneInv, CollectorRestartInv
<1>5. CASE CollectorServes \/ ServeCallFails
  BY <1>5, RequestServedInv, FinalizeBegunInv, FinalizeRunsInv DEF CollectorServes
<1>6. CASE \E req \in late : ServeLate(req)
  <2>1. PICK req \in late : ServeLate(req)
    BY <1>6
  <2>2. CASE req.op \in {"claim", "activate"}
    BY <2>1, <2>2, RequestServedInv
  <2>3. CASE req.op = "finalize"
    BY <2>1, <2>3, FinalizeBegunInv DEF ServeLate, Kept
  <2> QED
    BY <2>1, <2>2, <2>3 DEF ServeLate
<1>7. CASE UNCHANGED vars
  <2>1. UNCHANGED discoveryVars /\ UNCHANGED haVars
    BY <1>7 DEF vars
  <2>2. IInv'
    BY <2>1, StepInv
  <2>3. VerifiersMove /\ FinalizersMove /\ CallMoves /\ Kept /\ late' \subseteq late
    BY <2>1 DEF discoveryVars, haVars, VerifiersMove, FinalizersMove, CallMoves, Kept,
                Finalized
  <2> QED
    BY <2>2, <2>3, CollectorMovesInv
<1> QED
  BY <1>1, <1>2, <1>3, <1>4, <1>5, <1>6, <1>7 DEF Next

-----------------------------------------------------------------------------
(* Theorems                                                                *)

\* The Collector's invariant and Home Assistant's hold together in every
\* state of every behaviour.
THEOREM OnboardingInvariant == Spec => [](IInv /\ OnboardingInv)
BY OnboardingInitInv, OnboardingStepInv, PTL DEF Spec

\* Every variable of both sides keeps its type, and the Collector's file can
\* be read after every restart.
THEOREM OnboardingTypeCorrect == Spec => []TypeOK
<1>1. IInv /\ OnboardingInv => TypeOK
  BY DEF IInv, OnboardingInv, HATypeOK, TypeOK
<1> QED
  BY <1>1, OnboardingInvariant, PTL

\* Whatever crashes on either side, the Collector never holds a credential
\* that no disk of Home Assistant can present.
THEOREM CredentialRecoverableHolds == Spec => []CredentialRecoverable
<1>1. IInv /\ OnboardingInv => CredentialRecoverable
  BY DEF IInv, DiscoveryTypeOK, CredentialTypeOK, WellFormed, ActiveMeansActive,
         OnboardingInv, OneToken, ActiveToken, Claimant, CredentialRecoverable
<1> QED
  BY <1>1, OnboardingInvariant, PTL

\* The recovery material goes only when the entry with the ACTIVE token is on
\* disk, also by a finalize its caller gave up on.
THEOREM FinalizedIsDurableHolds == Spec => []FinalizedIsDurable
<1>1. OnboardingInv => FinalizedIsDurable
  BY DEF OnboardingInv, FinalizeIsDurable, FinalizedIsDurable
<1> QED
  BY <1>1, OnboardingInvariant, PTL

\* An entry on disk with markers always finds its journal.
THEOREM MarkersHaveJournalHolds == Spec => []MarkersHaveJournal
<1>1. OnboardingInv => MarkersHaveJournal
  BY DEF OnboardingInv, MarkersHold, MarkersHaveJournal
<1> QED
  BY <1>1, OnboardingInvariant, PTL

\* Clean markers on disk mean the Collector finalized this token.
THEOREM CleanMarkersMeanFinalizedHolds == Spec => []CleanMarkersMeanFinalized
<1>1. OnboardingInv => CleanMarkersMeanFinalized
  BY DEF OnboardingInv, MarkersHold, CleanMarkersMeanFinalized
<1> QED
  BY <1>1, OnboardingInvariant, PTL

\* The two sides never hold different tokens.
THEOREM TokensAgreeHolds == Spec => []TokensAgree
<1>1. IInv /\ OnboardingInv => TokensAgree
  BY DEF IInv, DiscoveryTypeOK, CredentialTypeOK, WellFormed, ActiveMeansActive,
         OnboardingInv, OneToken, ActiveToken, Claimant, TokensAgree
<1> QED
  BY <1>1, OnboardingInvariant, PTL
=============================================================================
