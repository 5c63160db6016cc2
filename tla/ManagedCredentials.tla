-------------------------- MODULE ManagedCredentials --------------------------
(***************************************************************************)
(* The Collector's managed API credentials: the one private JSON file      *)
(* pairing-state.json and the operations of ManagedCredentialStore on it   *)
(* (collector_service/pairing.py).  The file is written by atomic          *)
(* replacement, so each operation is one step on its contents.             *)
(*                                                                         *)
(* Data abstraction.  A verifier is the SHA-256 of a token and only        *)
(* compared for equality, so a verifier is the token it was made from.  A  *)
(* bootstrap's id, secret digest and deadline are always set and cleared   *)
(* together and each secret is fresh, so one member of Ids stands for the  *)
(* three, and presenting any other member is presenting a wrong or         *)
(* malformed id or secret.  NoToken stands for a missing or malformed      *)
(* verifier or Authorization header.                                       *)
(***************************************************************************)
EXTENDS Integers, FiniteSets

CONSTANTS
  Ids,          \* bootstrap authorizations the Collector can generate
  NoId,         \* "no bootstrap material"
  Tokens,       \* API tokens a client can generate
  NoToken,      \* no token, or one that is not well formed
  MAX_BOOTSTRAP_ATTEMPTS

ASSUME IdAssumption == NoId \notin Ids
ASSUME TokenAssumption == NoToken \notin Tokens
ASSUME AttemptsAssumption == MAX_BOOTSTRAP_ATTEMPTS \in Nat \ {0}

VARIABLES
  cred,         \* contents of pairing-state.json
  overdue,      \* bootstraps whose ten minutes have passed
  pendingOverdue \* the 24 hours of the pending verifier have passed

(***************************************************************************)
(* The Supervisor names a discovery message by a UUID.  Every publication  *)
(* attempt of a bootstrap gets one of its own.                             *)
(***************************************************************************)
PublishAttempts == 0..2
Uuids == [id : Ids, attempt : PublishAttempts]
NoUuid == [id |-> NoId, attempt |-> 0]

States == {"unpaired", "bootstrap_available", "pending", "active"}

EmptyState ==
  [state |-> "unpaired", active |-> NoToken, pending |-> NoToken,
   pairing_id |-> NoId, attempts |-> 0, discovery_uuid |-> NoUuid]

CredentialRecord ==
  [state : States,
   active : Tokens \cup {NoToken},
   pending : Tokens \cup {NoToken},
   pairing_id : Ids \cup {NoId},
   attempts : 0..MAX_BOOTSTRAP_ATTEMPTS,
   discovery_uuid : Uuids \cup {NoUuid}]

(***************************************************************************)
(* The shape _validate_state requires of the file on every read and write: *)
(* a state that violates it could neither be written nor, after a restart, *)
(* be read.                                                                *)
(***************************************************************************)
WellFormed(s) ==
  /\ s.state = "unpaired" =>
       s.active = NoToken /\ s.pending = NoToken /\ s.pairing_id = NoId
  /\ s.state = "bootstrap_available" =>
       s.pairing_id # NoId /\ s.pending = NoToken
  /\ s.state = "pending" => s.pending # NoToken /\ s.pairing_id # NoId
  /\ s.state = "active" => s.active # NoToken /\ s.pending = NoToken
  /\ s.state # "bootstrap_available" => s.attempts = 0

-----------------------------------------------------------------------------
(* Authorization                                                           *)

Presents(token, verifier) == verifier # NoToken /\ token = verifier

\* authorize: the read API, the event API and finalize accept only ACTIVE.
Authorized(token) == Presents(token, cred.active)

\* _matching_pairing_authorization: bootstrap material must be present.
MatchingPairing(id) == cred.pairing_id # NoId /\ id = cred.pairing_id

BootstrapExpired == cred.pairing_id \in overdue

\* The verifier a repeated claim has to present.
Claimant == IF cred.state = "pending" THEN cred.pending ELSE cred.active

-----------------------------------------------------------------------------
(* create_bootstrap: a fresh authorization for an unpaired Collector, or   *)
(* in the place of an unclaimed or expired one.  It keeps ACTIVE and the   *)
(* recorded discovery.                                                     *)

MayCreateBootstrap ==
  /\ cred.state # "active"
  /\ cred.state = "pending" => pendingOverdue

WithBootstrap(id) ==
  [EmptyState EXCEPT !.state = "bootstrap_available",
                     !.pairing_id = id,
                     !.active = cred.active,
                     !.discovery_uuid = cred.discovery_uuid]

CreateBootstrap(id) ==
  /\ MayCreateBootstrap
  /\ cred' = WithBootstrap(id)
  /\ overdue' = overdue \ {id}
  /\ UNCHANGED pendingOverdue

SetDiscoveryUuid(uuid) ==
  /\ cred' = [cred EXCEPT !.discovery_uuid = uuid]
  /\ UNCHANGED <<overdue, pendingOverdue>>

-----------------------------------------------------------------------------
(* claim                                                                   *)

\* Mutants of BootstrapOpen: claim forgets that the bootstrap is taken.
BootstrapOpenWhilePending ==
  /\ cred.state \in {"bootstrap_available", "pending"}
  /\ ~BootstrapExpired
  /\ cred.attempts < MAX_BOOTSTRAP_ATTEMPTS

BootstrapOpenInAnyState ==
  ~BootstrapExpired /\ cred.attempts < MAX_BOOTSTRAP_ATTEMPTS

\* The bootstrap still admits a decision about the presented id and secret.
BootstrapOpen ==
  /\ cred.state = "bootstrap_available"
  /\ ~BootstrapExpired
  /\ cred.attempts < MAX_BOOTSTRAP_ATTEMPTS

ClaimAccepted(id, verifier) ==
  /\ BootstrapOpen
  /\ MatchingPairing(id)
  /\ verifier # NoToken
  /\ cred' = [cred EXCEPT !.state = "pending",
                          !.pending = verifier,
                          !.attempts = 0]
  /\ pendingOverdue' = FALSE
  /\ UNCHANGED overdue

\* The claimant repeats its claim (it never saw the answer, or crashed).
ClaimIsRepeat(id, verifier) ==
  /\ cred.state \in {"pending", "active"}
  /\ cred.state = "pending" => ~pendingOverdue
  /\ MatchingPairing(id)
  /\ Presents(verifier, Claimant)

ClaimRepeated(id, verifier) ==
  /\ ClaimIsRepeat(id, verifier)
  /\ UNCHANGED <<cred, overdue, pendingOverdue>>

\* _failed_attempt: a wrong id or secret uses up an attempt (a well-formed one
\* only after the verifier was found well formed, a malformed one before).
ClaimFailedAttempt(id) ==
  /\ BootstrapOpen
  /\ ~MatchingPairing(id)
  /\ cred' = [cred EXCEPT !.attempts = @ + 1]
  /\ UNCHANGED <<overdue, pendingOverdue>>

\* Every other early return of claim leaves the file alone.
ClaimRefused(id, verifier) ==
  /\ \/ cred.state = "unpaired"
     \/ cred.state = "bootstrap_available" /\ ~BootstrapOpen
     \/ BootstrapOpen /\ verifier = NoToken
     \/ cred.state \in {"pending", "active"} /\ ~ClaimIsRepeat(id, verifier)
  /\ UNCHANGED <<cred, overdue, pendingOverdue>>

ClaimSucceeds(id, verifier) ==
  ClaimAccepted(id, verifier) \/ ClaimRepeated(id, verifier)

ClaimRejected(id, verifier) ==
  ClaimFailedAttempt(id) \/ ClaimRefused(id, verifier)

-----------------------------------------------------------------------------
(* activate                                                                *)

ActivateAccepted(token) ==
  /\ ~Authorized(token)
  /\ cred.state = "pending"
  /\ ~pendingOverdue
  /\ Presents(token, cred.pending)
  /\ cred' = [cred EXCEPT !.state = "active",
                          !.active = cred.pending,
                          !.pending = NoToken,
                          !.attempts = 0]
  /\ UNCHANGED <<overdue, pendingOverdue>>

ActivateRepeated(token) ==
  /\ Authorized(token)
  /\ UNCHANGED <<cred, overdue, pendingOverdue>>

ActivateSucceeds(token) == ActivateAccepted(token) \/ ActivateRepeated(token)

ActivateRejected(token) ==
  /\ ~Authorized(token)
  /\ \/ cred.state # "pending"
     \/ pendingOverdue
     \/ ~Presents(token, cred.pending)
  /\ UNCHANGED <<cred, overdue, pendingOverdue>>

-----------------------------------------------------------------------------
(* complete_finalize: forget the recovery material, keep ACTIVE.           *)

CompleteFinalize ==
  /\ cred.state = "active"
  /\ cred' = [cred EXCEPT !.pairing_id = NoId, !.discovery_uuid = NoUuid]
  /\ UNCHANGED <<overdue, pendingOverdue>>

Finalized == cred.state = "active" /\ cred.pairing_id = NoId

-----------------------------------------------------------------------------
(* Deadlines pass; the clock the Collector reads does not run backwards.   *)

BootstrapExpires(id) ==
  /\ id \in Ids \ overdue
  /\ overdue' = overdue \cup {id}
  /\ UNCHANGED <<cred, pendingOverdue>>

PendingExpires ==
  /\ cred.state = "pending"
  /\ ~pendingOverdue
  /\ pendingOverdue' = TRUE
  /\ UNCHANGED <<cred, overdue>>

CredentialVars == <<cred, overdue, pendingOverdue>>

CredentialInit ==
  /\ cred = EmptyState
  /\ overdue = {}
  /\ pendingOverdue = FALSE

CredentialTypeOK ==
  /\ cred \in CredentialRecord
  /\ WellFormed(cred)
  /\ overdue \subseteq Ids
  /\ pendingOverdue \in BOOLEAN

-----------------------------------------------------------------------------
(* What the credential file promises.                                      *)

\* The first claimant of a bootstrap owns it (claim, create_bootstrap): its
\* verifier is displaced only by its own activation, or by a fresh bootstrap
\* after its deadline.
ClaimantKept ==
  cred.pending # NoToken /\ cred'.pending # cred.pending =>
    \/ ~pendingOverdue /\ cred'.state = "active" /\ cred'.active = cred.pending
    \/ /\ pendingOverdue
       /\ cred'.state = "bootstrap_available"
       /\ cred'.pairing_id # cred.pairing_id

\* An ACTIVE token is never revoked or replaced.
ActiveKept == cred.active # NoToken => cred'.active = cred.active

=============================================================================
