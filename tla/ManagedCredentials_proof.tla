------------------------ MODULE ManagedCredentials_proof ------------------------
(***************************************************************************)
(* What each operation on the credential file preserves, for any number of *)
(* bootstraps, tokens and attempts.  The theorems of PairingDiscovery_proof*)
(* cite these lemmas, one per operation.                                   *)
(***************************************************************************)
EXTENDS ManagedCredentials, TLAPS

\* Only an ACTIVE file has an active verifier: create_bootstrap, which keeps
\* the verifier, is refused to an ACTIVE file.
ActiveMeansActive == cred.active # NoToken => cred.state = "active"

CredentialInv == CredentialTypeOK /\ ActiveMeansActive

\* Each operation of the credential store, for any arguments; a bootstrap is
\* never created with the id of the one it replaces.
CredentialStep ==
  \/ UNCHANGED CredentialVars
  \/ \E id \in Ids \ {cred.pairing_id} : CreateBootstrap(id)
  \/ \E id \in Ids : BootstrapExpires(id)
  \/ \E uuid \in Uuids \cup {NoUuid} : SetDiscoveryUuid(uuid)
  \/ \E id \in Ids \cup {NoId}, verifier \in Tokens \cup {NoToken} :
       ClaimSucceeds(id, verifier) \/ ClaimRejected(id, verifier)
  \/ \E token \in Tokens : ActivateSucceeds(token) \/ ActivateRejected(token)
  \/ CompleteFinalize
  \/ PendingExpires

\* The file a fresh installation has satisfies the invariant.
LEMMA CredentialInitInv == CredentialInit => CredentialInv
<1>1. EmptyState \in CredentialRecord
  BY AttemptsAssumption DEF EmptyState, CredentialRecord, States
<1>2. WellFormed(EmptyState) /\ EmptyState.active = NoToken
  BY DEF EmptyState, WellFormed
<1> QED
  BY <1>1, <1>2
     DEF CredentialInit, CredentialInv, CredentialTypeOK, ActiveMeansActive

\* create_bootstrap writes a well-formed file and, on a file that is not
\* ACTIVE, has no active verifier to carry over.
LEMMA CreateBootstrapInv ==
  ASSUME CredentialInv, NEW id \in Ids, CreateBootstrap(id)
  PROVE  CredentialInv'
<1>1. /\ cred' = WithBootstrap(id)
      /\ cred.active = NoToken
  BY DEF CreateBootstrap, MayCreateBootstrap, CredentialInv, ActiveMeansActive
<1>2. cred'.active = NoToken /\ cred'.state = "bootstrap_available"
  BY <1>1 DEF WithBootstrap, EmptyState
<1>3. cred' \in CredentialRecord
  <2>1. cred \in CredentialRecord
    BY DEF CredentialInv, CredentialTypeOK
  <2>2. cred' = [state |-> "bootstrap_available", active |-> NoToken,
                 pending |-> NoToken, pairing_id |-> id, attempts |-> 0,
                 discovery_uuid |-> cred.discovery_uuid]
    BY <1>1 DEF WithBootstrap, EmptyState
  <2> QED
    BY <2>1, <2>2, AttemptsAssumption DEF CredentialRecord, States
<1>4. WellFormed(cred')
  BY <1>1, IdAssumption DEF WithBootstrap, EmptyState, WellFormed
<1> QED
  BY <1>2, <1>3, <1>4 DEF CredentialInv, CredentialTypeOK, ActiveMeansActive, CreateBootstrap

\* set_discovery_uuid touches nothing but the recorded discovery.
LEMMA SetDiscoveryUuidInv ==
  ASSUME CredentialInv, NEW uuid \in Uuids \cup {NoUuid}, SetDiscoveryUuid(uuid)
  PROVE  CredentialInv'
BY DEF CredentialInv, CredentialTypeOK, CredentialRecord, WellFormed,
       ActiveMeansActive, SetDiscoveryUuid, Uuids, NoUuid

\* claim writes a well-formed file: a pending one when it accepts, and an
\* attempt count within its limit when it does not.
LEMMA ClaimInv ==
  ASSUME CredentialInv, NEW id, NEW verifier \in Tokens \cup {NoToken},
         ClaimSucceeds(id, verifier) \/ ClaimRejected(id, verifier)
  PROVE  CredentialInv'
<1>1. CASE ClaimAccepted(id, verifier)
  <2>1. /\ cred \in CredentialRecord
        /\ cred.state = "bootstrap_available" /\ cred.active = NoToken
        /\ cred.pairing_id # NoId
    BY <1>1 DEF ClaimAccepted, BootstrapOpen, CredentialInv, CredentialTypeOK,
                ActiveMeansActive, MatchingPairing
  <2>2. /\ cred' = [cred EXCEPT !.state = "pending", !.pending = verifier,
                               !.attempts = 0]
        /\ verifier # NoToken
    BY <1>1 DEF ClaimAccepted
  <2>3. cred' \in CredentialRecord
    <3>1. cred' = [state |-> "pending", active |-> cred.active,
                   pending |-> verifier, pairing_id |-> cred.pairing_id,
                   attempts |-> 0, discovery_uuid |-> cred.discovery_uuid]
      BY <2>1, <2>2 DEF CredentialRecord
    <3> QED
      BY <2>1, <3>1, AttemptsAssumption DEF CredentialRecord, States
  <2>4. WellFormed(cred') /\ cred'.active = NoToken
    BY <2>1, <2>2 DEF CredentialRecord, WellFormed
  <2> QED
    BY <1>1, <2>3, <2>4
       DEF ClaimAccepted, CredentialInv, CredentialTypeOK, ActiveMeansActive
<1>2. CASE ClaimFailedAttempt(id)
  BY <1>2, AttemptsAssumption
     DEF ClaimFailedAttempt, BootstrapOpen, CredentialInv, CredentialTypeOK,
         CredentialRecord, WellFormed, ActiveMeansActive
<1>3. CASE UNCHANGED <<cred, overdue, pendingOverdue>>
  BY <1>3 DEF CredentialInv, CredentialTypeOK, ActiveMeansActive
<1> QED
  BY <1>1, <1>2, <1>3
     DEF ClaimSucceeds, ClaimRejected, ClaimRepeated, ClaimRefused

\* activate moves the pending verifier into the active one.
LEMMA ActivateInv ==
  ASSUME CredentialInv, NEW token \in Tokens,
         ActivateSucceeds(token) \/ ActivateRejected(token)
  PROVE  CredentialInv'
<1>1. CASE ActivateAccepted(token)
  BY <1>1, AttemptsAssumption
     DEF ActivateAccepted, Presents, CredentialInv, CredentialTypeOK,
         CredentialRecord, WellFormed, ActiveMeansActive, States
<1>2. CASE UNCHANGED <<cred, overdue, pendingOverdue>>
  BY <1>2 DEF CredentialInv, CredentialTypeOK, ActiveMeansActive
<1> QED
  BY <1>1, <1>2 DEF ActivateSucceeds, ActivateRepeated, ActivateRejected

\* complete_finalize leaves an ACTIVE file without recovery material.
LEMMA CompleteFinalizeInv ==
  ASSUME CredentialInv, CompleteFinalize
  PROVE  CredentialInv'
BY DEF CompleteFinalize, CredentialInv, CredentialTypeOK, CredentialRecord,
       WellFormed, ActiveMeansActive, NoUuid, Uuids

\* Time changes no file.
LEMMA ExpiryInv ==
  ASSUME CredentialInv, PendingExpires \/ \E id \in Ids : BootstrapExpires(id)
  PROVE  CredentialInv'
BY DEF PendingExpires, BootstrapExpires, CredentialInv, CredentialTypeOK,
       ActiveMeansActive

\* Every operation of the store keeps the file well formed.
LEMMA CredentialStepInv ==
  ASSUME CredentialInv, CredentialStep
  PROVE  CredentialInv'
<1>1. CASE UNCHANGED CredentialVars
  BY <1>1 DEF CredentialVars, CredentialInv, CredentialTypeOK, ActiveMeansActive
<1> QED
  BY <1>1, CreateBootstrapInv, SetDiscoveryUuidInv, ClaimInv, ActivateInv,
     CompleteFinalizeInv, ExpiryInv
     DEF CredentialStep

\* No operation of the store revokes or replaces an active verifier.
LEMMA CredentialStepKeepsActive ==
  ASSUME CredentialInv, CredentialStep
  PROVE  ActiveKept
<1> SUFFICES ASSUME cred.active # NoToken PROVE cred'.active = cred.active
  BY DEF ActiveKept
<1>1. cred \in CredentialRecord /\ cred.state = "active" /\ cred.pending = NoToken
  BY DEF CredentialInv, CredentialTypeOK, ActiveMeansActive, WellFormed
<1> QED
  BY <1>1
     DEF CredentialStep, CredentialVars, CredentialRecord, CreateBootstrap,
         MayCreateBootstrap, BootstrapExpires, SetDiscoveryUuid, ClaimSucceeds,
         ClaimAccepted, ClaimRepeated, ClaimRejected, ClaimFailedAttempt,
         ClaimRefused, BootstrapOpen, ActivateSucceeds, ActivateAccepted,
         ActivateRepeated, ActivateRejected, CompleteFinalize, PendingExpires

\* No operation of the store displaces a claimant but its own activation and,
\* after its deadline, a fresh bootstrap.
LEMMA CredentialStepKeepsClaimant ==
  ASSUME CredentialInv, CredentialStep
  PROVE  ClaimantKept
<1> SUFFICES ASSUME cred.pending # NoToken, cred'.pending # cred.pending
             PROVE  \/ /\ ~pendingOverdue
                       /\ cred'.state = "active"
                       /\ cred'.active = cred.pending
                    \/ /\ pendingOverdue
                       /\ cred'.state = "bootstrap_available"
                       /\ cred'.pairing_id # cred.pairing_id
  BY DEF ClaimantKept
<1>1. cred \in CredentialRecord /\ cred.state = "pending"
  BY DEF CredentialInv, CredentialTypeOK, WellFormed, CredentialRecord, States
<1>2. CASE \E id \in Ids \ {cred.pairing_id} : CreateBootstrap(id)
  <2>1. PICK id \in Ids \ {cred.pairing_id} : CreateBootstrap(id)
    BY <1>2
  <2>2. pendingOverdue /\ cred' = WithBootstrap(id)
    BY <1>1, <2>1 DEF CreateBootstrap, MayCreateBootstrap
  <2> QED
    BY <2>1, <2>2 DEF WithBootstrap, EmptyState
<1>3. CASE \E token \in Tokens : ActivateAccepted(token)
  BY <1>1, <1>3 DEF ActivateAccepted, CredentialRecord
<1> QED
  BY <1>1, <1>2, <1>3
     DEF CredentialStep, CredentialVars, CredentialRecord,
         BootstrapExpires, SetDiscoveryUuid, ClaimSucceeds,
         ClaimAccepted, ClaimRepeated, ClaimRejected, ClaimFailedAttempt,
         ClaimRefused, BootstrapOpen, ActivateSucceeds,
         ActivateRepeated, ActivateRejected, CompleteFinalize, PendingExpires

\* A verifier becomes active only by having been pending, and a finalized
\* file stays finalized.
LEMMA CredentialStepActivates ==
  ASSUME CredentialInv, CredentialStep
  PROVE  /\ cred'.active \in {cred.active, cred.pending}
         /\ Finalized => Finalized'
<1>1. cred \in CredentialRecord /\ WellFormed(cred)
  BY DEF CredentialInv, CredentialTypeOK
<1>2. CASE \E id \in Ids \ {cred.pairing_id} : CreateBootstrap(id)
  BY <1>2 DEF CreateBootstrap, MayCreateBootstrap, WithBootstrap, EmptyState, Finalized
<1>3. CASE \E id \in Ids \cup {NoId}, verifier \in Tokens \cup {NoToken} :
             ClaimSucceeds(id, verifier) \/ ClaimRejected(id, verifier)
  BY <1>1, <1>3
     DEF ClaimSucceeds, ClaimAccepted, ClaimRepeated, ClaimRejected, ClaimFailedAttempt,
         ClaimRefused, BootstrapOpen, CredentialRecord, Finalized
<1>4. CASE \E token \in Tokens : ActivateSucceeds(token) \/ ActivateRejected(token)
  BY <1>1, <1>4
     DEF ActivateSucceeds, ActivateAccepted, ActivateRepeated, ActivateRejected,
         CredentialRecord, Finalized
<1> QED
  BY <1>1, <1>2, <1>3, <1>4
     DEF CredentialStep, CredentialVars, CredentialRecord, BootstrapExpires,
         SetDiscoveryUuid, CompleteFinalize, PendingExpires, Finalized
=============================================================================
