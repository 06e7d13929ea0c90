------------------------ MODULE NativeDispatchProofs ------------------------
(***************************************************************************)
(* Machine-checked proofs about NativeDispatch, for every set of arms,     *)
(* generations and requests, every bound on attempts and both controllers. *)
(***************************************************************************)
EXTENDS NativeDispatch, TLAPS

-----------------------------------------------------------------------------
(* The store's rows keep their types *)

LEMMA EvidenceMembers ==
    /\ UnknownEvidence \in Evidence /\ NoEvidence \in Evidence
    /\ \A f \in Facts : ExactResponse(f) \in Evidence
    /\ TurnFacts \subseteq Facts /\ DegradedFacts \subseteq Facts
    /\ NoEvidence # UnknownEvidence
BY DEF UnknownEvidence, NoEvidence, EvidenceOf, ExactResponse, Evidence, Facts, TurnFacts,
       DegradedFacts

\* Each operation of the store preserves the types of the rows.
LEMMA BirthRowsTyped ==
    ASSUME StoreTypeOK
    PROVE  /\ \A m \in Arms, g \in Gens : PersistArm(m, g) => StoreTypeOK'
           /\ \A b \in Births : ReserveBirthRow(b) => StoreTypeOK'
           /\ \A b \in Births, next \in Ownership : ResolveCreateRow(b, next) => StoreTypeOK'
<1>1. ASSUME NEW m \in Arms, NEW g \in Gens, PersistArm(m, g) PROVE StoreTypeOK'
  BY <1>1 DEF StoreTypeOK, PersistArm, claimVars, dispatchVars, evidenceVars
<1>2. ASSUME NEW b \in Births, ReserveBirthRow(b) PROVE StoreTypeOK'
  BY <1>2 DEF StoreTypeOK, ReserveBirthRow, claimVars, dispatchVars, evidenceVars, Ownership
<1>3. ASSUME NEW b \in Births, NEW next \in Ownership, ResolveCreateRow(b, next)
      PROVE StoreTypeOK'
  BY <1>3 DEF StoreTypeOK, ResolveCreateRow, claimVars, dispatchVars, evidenceVars
<1> QED BY <1>1, <1>2, <1>3

LEMMA ClaimRowsTyped ==
    ASSUME StoreTypeOK
    PROVE  /\ \A r \in Requests, b \in Births : AdmitClaimRow(r, b) => StoreTypeOK'
           /\ \A a \in Attempts : RevokeAttachmentRow(a) => StoreTypeOK'
           /\ \A a \in Attempts : RecordDispatchPrepared(a) => StoreTypeOK'
<1>1. ASSUME NEW r \in Requests, NEW b \in Births, AdmitClaimRow(r, b) PROVE StoreTypeOK'
  BY <1>1 DEF StoreTypeOK, AdmitClaimRow, birthVars, dispatchVars, evidenceVars, Attempts
<1>2. ASSUME NEW a \in Attempts, RevokeAttachmentRow(a) PROVE StoreTypeOK'
  BY <1>2 DEF StoreTypeOK, RevokeAttachmentRow, birthVars, dispatchVars, evidenceVars
<1>3. ASSUME NEW a \in Attempts, RecordDispatchPrepared(a) PROVE StoreTypeOK'
  BY <1>3 DEF StoreTypeOK, RecordDispatchPrepared, birthVars, claimVars, evidenceVars
<1> QED BY <1>1, <1>2, <1>3

LEMMA DispatchRowsTyped ==
    ASSUME StoreTypeOK, NEW a \in Attempts
    PROVE  /\ \A c \in Conclusions : RecordPrewriteConclusion(a, c) => StoreTypeOK'
           /\ RecordActiveHold(a) => StoreTypeOK'
           /\ ReserveNativeTurnWrite(a) => StoreTypeOK'
<1>1. ASSUME NEW c \in Conclusions, RecordPrewriteConclusion(a, c) PROVE StoreTypeOK'
  BY <1>1 DEF StoreTypeOK, RecordPrewriteConclusion, birthVars, claimVars, evidenceVars
<1>2. ASSUME RecordActiveHold(a) PROVE StoreTypeOK'
  BY <1>2 DEF StoreTypeOK, RecordActiveHold, birthVars, claimVars, evidenceVars, Conclusions
<1>3. ASSUME ReserveNativeTurnWrite(a) PROVE StoreTypeOK'
  BY <1>3 DEF StoreTypeOK, ReserveNativeTurnWrite, birthVars, claimVars, evidenceVars
<1> QED BY <1>1, <1>2, <1>3

LEMMA EvidenceRowsTyped ==
    ASSUME StoreTypeOK, NEW a \in Attempts
    PROVE  /\ \A e \in Evidence : RecordNativeWriteEvidence(a, e) => StoreTypeOK'
           /\ \A f \in Facts, turn \in BOOLEAN :
                 RecordNativeTurnFact(a, f, turn) => StoreTypeOK'
<1>1. ASSUME NEW e \in Evidence, RecordNativeWriteEvidence(a, e) PROVE StoreTypeOK'
  BY <1>1 DEF StoreTypeOK, RecordNativeWriteEvidence, EvidenceRefs, birthVars, claimVars,
              dispatchVars
<1>2. ASSUME NEW f \in Facts, NEW turn \in BOOLEAN, RecordNativeTurnFact(a, f, turn)
      PROVE StoreTypeOK'
  BY <1>2, EvidenceMembers DEF StoreTypeOK, RecordNativeTurnFact, birthVars, claimVars,
     dispatchVars
<1> QED BY <1>1, <1>2

LEMMA ReconciliationRowsTyped ==
    ASSUME StoreTypeOK, NEW scope, scope.attempt \in Attempts, NEW d \in Reconciliations,
           RecordReconciliationFact(scope, d)
    PROVE  StoreTypeOK'
BY DEF StoreTypeOK, RecordReconciliationFact, birthVars, claimVars, dispatchVars

LEMMA RecoveredRowsTyped ==
    ASSUME StoreTypeOK, RecoverAuthorityState, sealed' \subseteq Attempts
    PROVE  StoreTypeOK'
<1>1. \A a \in Attempts : RecoveredEvidence(a) \in Evidence
  BY EvidenceMembers DEF StoreTypeOK, RecoveredEvidence
<1>2. \A a \in Attempts : write_evidence[a].kind = "ExactResponse" =>
                             write_evidence[a].fact \in Facts
  BY DEF StoreTypeOK, Evidence, EvidenceOf, ExactResponse
<1>3. \A a \in Attempts : RecoveredFacts(a) \in SUBSET Facts
  BY <1>2 DEF StoreTypeOK, RecoveredFacts
<1>4. \A a \in Attempts : RecoveredRef(a) \in EvidenceRefs
  BY DEF StoreTypeOK, RecoveredRef, EvidenceRefs
<1> QED
  BY <1>1, <1>3, <1>4 DEF StoreTypeOK, RecoverAuthorityState, claimVars, dispatchVars,
     Ownership

LEMMA StoreUnchanged ==
    ASSUME StoreTypeOK, UNCHANGED storeVars PROVE StoreTypeOK'
BY DEF StoreTypeOK, storeVars, birthVars, claimVars, dispatchVars, evidenceVars

-----------------------------------------------------------------------------
(* Every action keeps the store's rows typed *)

LEMMA OutcomeIsEvidence ==
    ASSUME NEW o \in Outcomes,
           o.kind \in {"ProvenNotAccepted", "WriterAccepted", "ExactResponse", "Unknown"}
    PROVE  o \in Evidence /\ (o.kind = "ExactResponse" => o.fact \in Facts)
BY DEF Outcomes, Evidence, EvidenceOf, ExactResponse

LEMMA ScopeMembers ==
    /\ NoScope \in Scopes
    /\ \A a \in Attempts, turn \in BOOLEAN, ref \in EvidenceRefs :
          Scope(a, turn, ref) \in Scopes /\ Scope(a, turn, ref) # NoScope
    /\ \A s \in Scopes : s # NoScope =>
          s.attempt \in Attempts /\ s.turn \in BOOLEAN /\ s.ref \in EvidenceRefs
BY StoreAssumption DEF Scopes, Scope, NoScope, NoAttempt, Attempts

LEMMA StoreStep ==
    ASSUME TypeOK, Operation
    PROVE  StoreTypeOK'
<1> USE DEF TypeOK
<1>1. CASE \E m \in Arms, g \in Gens : RegisterManagedArm(m, g)
  BY <1>1, BirthRowsTyped DEF RegisterManagedArm
<1>2. CASE \E b \in Births : ReserveControllerBirth(b)
  BY <1>2, BirthRowsTyped DEF ReserveControllerBirth
<1>3. ASSUME NEW b \in Births, ResolveThreadCreate(b) PROVE StoreTypeOK'
  <2>1. creates[b].result # "none" => creates[b].result \in Ownership
    BY DEF HostTypeOK, CreateResults, Ownership
  <2> QED BY <1>3, <2>1, BirthRowsTyped, StoreUnchanged DEF ResolveThreadCreate
<1>4. ASSUME NEW r \in Requests, NEW m \in Arms, AdmitClaim(r, m) PROVE StoreTypeOK'
  <2>1. <<m, arms[m]>> \in Births
    BY <1>4 DEF AdmitClaim, StoreTypeOK, Births
  <2> QED BY <1>4, <2>1, ClaimRowsTyped DEF AdmitClaim
<1>5. CASE \E a \in Attempts : Prepare(a) \/ RevokeAttachment(a)
  BY <1>5, ClaimRowsTyped, StoreUnchanged DEF Prepare, RevokeAttachment
<1>6. CASE AuthorizeProbeActive \/ AuthorizeProbeUnproven \/ AuthorizeProbeIdle
  <2>1. probing \in Attempts
    BY <1>6 DEF AuthorizeProbeActive, AuthorizeProbeUnproven, AuthorizeProbeIdle, TakeProbing,
       HostTypeOK
  <2> QED BY <1>6, <2>1, DispatchRowsTyped DEF AuthorizeProbeActive, AuthorizeProbeUnproven,
             AuthorizeProbeIdle, Conclusions
<1>7. ASSUME NEW o \in Outcomes, NEW n \in NativeStates, WriteReservedTurn(o, n)
      PROVE StoreTypeOK'
  <2>1. sealed' \subseteq Attempts
    BY <1>7 DEF WriteReservedTurn, HostTypeOK, StoreTypeOK
  <2> QED BY <1>7, <2>1 DEF WriteReservedTurn, StoreTypeOK, birthVars, claimVars,
             dispatchVars, evidenceVars
<1>8. CASE ConcludeEpochInvalidated \/ ConcludeEvidence
  <2>1. writing \in Attempts /\ outcome \in Outcomes
    BY <1>8 DEF ConcludeEpochInvalidated, ConcludeEvidence, TakeWriting, HostTypeOK
  <2> QED BY <1>8, <2>1, DispatchRowsTyped, EvidenceRowsTyped, OutcomeIsEvidence
          DEF ConcludeEpochInvalidated, ConcludeEvidence, Conclusions
<1>9. CASE ConcludeFact
  <2>1. \E turn \in BOOLEAN : RecordNativeTurnFact(step.attempt, step.item, turn)
    <3>1. RecordNativeTurnFact(step.attempt, step.item, step.item \in TurnFacts)
      BY <1>9 DEF ConcludeFact
    <3>2. (step.item \in TurnFacts) \in BOOLEAN
      OBVIOUS
    <3> HIDE DEF TypeOK
    <3> QED BY <3>1, <3>2
  <2>2. step.attempt \in Attempts /\ step.item \in Facts
    BY <1>9 DEF ConcludeFact, HostTypeOK, Steps, Idle
  <2> QED BY <2>1, <2>2, EvidenceRowsTyped
<1>10. ASSUME NEW f \in Facts, PollAndRecordExact(f) PROVE StoreTypeOK'
  <2>1. RecordNativeTurnFact(observing.attempt, f, observing.turn) /\ observing # NoScope
    BY <1>10 DEF PollAndRecordExact
  <2> QED BY <2>1, ScopeMembers, EvidenceRowsTyped DEF HostTypeOK
<1>11. ASSUME NEW d \in Reconciliations, ReconcileCodex(d) PROVE StoreTypeOK'
  <2>1. reconciling.attempt \in Attempts
    BY <1>11, ScopeMembers DEF ReconcileCodex, HostTypeOK
  <2>2. RecoverAuthorityState /\ sealed' \subseteq Attempts
    BY <1>11, <2>1 DEF ReconcileCodex, StoreTypeOK
  <2> QED BY <2>2, RecoveredRowsTyped
<1>12. ASSUME NEW d \in Reconciliations, ReconcileScripted(d) PROVE StoreTypeOK'
  <2>1. reconciling.attempt \in Attempts
    BY <1>12, ScopeMembers DEF ReconcileScripted, HostTypeOK
  <2>2. sealed' \subseteq Attempts
    BY <1>12, <2>1 DEF ReconcileScripted, StoreTypeOK
  <2> QED BY <1>12, <2>2 DEF ReconcileScripted, StoreTypeOK, birthVars, claimVars,
             dispatchVars, evidenceVars
<1>13. CASE ReconcileCodexRejected \/ Recover
  <2>1. RecoverAuthorityState /\ sealed' = sealed
    BY <1>13 DEF ReconcileCodexRejected, Recover
  <2> QED BY <2>1, RecoveredRowsTyped DEF StoreTypeOK
<1>14. CASE RecordReconciliation
  <2>1. RecordReconciliationFact(reconciling, step.item)
    BY <1>14 DEF RecordReconciliation
  <2>2. reconciling.attempt \in Attempts /\ step.item \in Reconciliations
    BY <1>14, ScopeMembers DEF RecordReconciliation, HostTypeOK, Steps, Idle
  <2> QED BY <2>1, <2>2, ReconciliationRowsTyped
<1>15. CASE RecordReconciledFact
  <2>1. RecordNativeTurnFact(step.attempt, step.item, TRUE)
    BY <1>15 DEF RecordReconciledFact
  <2>2. step.attempt \in Attempts /\ step.item \in Facts
    BY <1>15 DEF RecordReconciledFact, HostTypeOK, Steps, Idle, Facts, TurnFacts
  <2> QED BY <2>1, <2>2, EvidenceRowsTyped
<1>16. CASE UNCHANGED storeVars
  BY <1>16, StoreUnchanged
<1>17. Operation => \/ \E b \in Births : ReserveControllerBirth(b)
                    \/ \E m \in Arms, g \in Gens : RegisterManagedArm(m, g)
                    \/ \E b \in Births : ResolveThreadCreate(b)
                    \/ \E r \in Requests, m \in Arms : AdmitClaim(r, m)
                    \/ \E a \in Attempts : Prepare(a) \/ RevokeAttachment(a)
                    \/ AuthorizeProbeActive \/ AuthorizeProbeUnproven \/ AuthorizeProbeIdle
                    \/ \E o \in Outcomes, n \in NativeStates : WriteReservedTurn(o, n)
                    \/ ConcludeEpochInvalidated \/ ConcludeEvidence
                    \/ ConcludeFact
                    \/ \E f \in Facts : PollAndRecordExact(f)
                    \/ \E d \in Reconciliations : ReconcileCodex(d) \/ ReconcileScripted(d)
                    \/ ReconcileCodexRejected \/ Recover
                    \/ RecordReconciliation \/ RecordReconciledFact
                    \/ UNCHANGED storeVars
  BY DEF Operation, LeaseExpires, ThreadProgress, CreateOwned, ReceiveLate, NativeProgress,
     AuthorizeProbeRefused, WriteNothing, ConcludeRefused, StoreCallFails, PollRefused, Crash
<1> QED BY <1>1, <1>2, <1>3, <1>4, <1>5, <1>6, <1>7, <1>8, <1>9, <1>10, <1>11, <1>12, <1>13,
           <1>14, <1>15, <1>16, <1>17

-----------------------------------------------------------------------------
(* The host's memory, the controllers' and the native server's state *)

\* The server's state and the controllers' memory, action by action.
LEMMA NativeStep ==
    ASSUME TypeOK, Operation
    PROVE  NativeTypeOK' /\ ControllerTypeOK'
<1> USE DEF TypeOK, NativeTypeOK, ControllerTypeOK
<1>1. ASSUME NEW b \in Births, NEW result \in CreateResults, CreateOwned(b, result)
      PROVE NativeTypeOK' /\ ControllerTypeOK'
  BY <1>1 DEF CreateOwned, CreateEffect, ctlVars
<1>2. ASSUME NEW o \in Outcomes, NEW n \in NativeStates, WriteReservedTurn(o, n)
      PROVE NativeTypeOK' /\ ControllerTypeOK'
  <2>1. writing \in Attempts
    BY <1>2 DEF WriteReservedTurn, HostTypeOK
  <2> QED BY <1>2, <2>1 DEF WriteReservedTurn
<1>3. ASSUME NEW f \in Facts, PollAndRecordExact(f) \/ PollRefused(f)
      PROVE NativeTypeOK' /\ ControllerTypeOK'
  <2>1. observing.attempt \in Attempts
    BY <1>3, ScopeMembers DEF PollAndRecordExact, PollRefused, HostTypeOK
  <2>2. SeenAfter(observing.attempt, f) \subseteq Seen
    BY <2>1 DEF SeenAfter, Seen
  <2> QED BY <1>3, <2>1, <2>2 DEF PollAndRecordExact, PollRefused, nativeVars
<1>4. ASSUME NEW d \in Reconciliations, ReconcileCodex(d) \/ ReconcileScripted(d)
      PROVE NativeTypeOK' /\ ControllerTypeOK'
  BY <1>4 DEF ReconcileCodex, ReconcileScripted, ctlVars, nativeVars
<1>5. ASSUME NEW a \in Attempts, NativeProgress(a) PROVE NativeTypeOK' /\ ControllerTypeOK'
  BY <1>5 DEF NativeProgress, ctlVars, NativeStates
<1>6. ASSUME NEW b \in Births, LeaseExpires(b) \/ ThreadProgress(b)
      PROVE NativeTypeOK' /\ ControllerTypeOK'
  BY <1>6 DEF LeaseExpires, ThreadProgress, ctlVars
<1>7. CASE Crash
  BY <1>7 DEF Crash, LoseMemory, nativeVars, Seen
<1>8. CASE UNCHANGED <<ctlVars, nativeVars>>
  BY <1>8 DEF ctlVars, nativeVars
<1>9. Operation => \/ \E b \in Births, result \in CreateResults : CreateOwned(b, result)
                   \/ \E o \in Outcomes, n \in NativeStates : WriteReservedTurn(o, n)
                   \/ \E f \in Facts : PollAndRecordExact(f) \/ PollRefused(f)
                   \/ \E d \in Reconciliations : ReconcileCodex(d) \/ ReconcileScripted(d)
                   \/ \E a \in Attempts : NativeProgress(a)
                   \/ \E b \in Births : LeaseExpires(b) \/ ThreadProgress(b)
                   \/ Crash
                   \/ UNCHANGED <<ctlVars, nativeVars>>
  BY DEF Operation, RegisterManagedArm, ReserveControllerBirth, ResolveThreadCreate, ReceiveLate,
     AdmitClaim, Prepare, RevokeAttachment, AuthorizeProbeRefused, AuthorizeProbeActive,
     AuthorizeProbeUnproven, AuthorizeProbeIdle, TakeProbing, WriteNothing, TakeWriting,
     ConcludeRefused, ConcludeEpochInvalidated, ConcludeEvidence, ConcludeFact,
     StoreCallFails, ReconcileCodexRejected, RecordReconciliation, RecordReconciledFact,
     Recover
<1> QED BY <1>1, <1>2, <1>3, <1>4, <1>5, <1>6, <1>7, <1>8, <1>9

LEMMA OutcomeMembers ==
    /\ NoOutcome \in Outcomes
    /\ Idle \in Steps
    /\ NoCreate \in [held : CreateStates, result : CreateResults]
BY DEF NoOutcome, Outcomes, EvidenceOf, Steps, NoCreate, CreateStates, CreateResults

\* What recovery reconstructs for the coordinator.
LEMMA RecoveredScopes ==
    ASSUME StoreTypeOK
    PROVE  ObservationScopes \subseteq Scopes /\ ReconciliationScopes \subseteq Scopes
<1>1. \A a \in Attempts : RecoveredRef(a) \in EvidenceRefs
  BY DEF StoreTypeOK, RecoveredRef, EvidenceRefs
<1>2. \A a \in Attempts, turn \in BOOLEAN : Scope(a, turn, RecoveredRef(a)) \in Scopes
  BY <1>1, ScopeMembers
<1>3. \A a \in Attempts : /\ Scope(a, TRUE, RecoveredRef(a)) \in Scopes
                         /\ Scope(a, a \in turn_refs, RecoveredRef(a)) \in Scopes
  <2> TAKE a \in Attempts
  <2>1. TRUE \in BOOLEAN /\ (a \in turn_refs) \in BOOLEAN
    OBVIOUS
  <2> QED BY <1>2, <2>1
<1> QED BY <1>3 DEF ObservationScopes, ReconciliationScopes

LEMMA HostStep ==
    ASSUME TypeOK, Operation
    PROVE  HostTypeOK'
<1> USE OutcomeMembers, ScopeMembers DEF TypeOK, HostTypeOK
<1>1. ASSUME NEW b \in Births, ReserveControllerBirth(b) PROVE HostTypeOK'
  BY <1>1 DEF ReserveControllerBirth, coordVars, CreateStates, CreateResults
<1>2. ASSUME NEW b \in Births, NEW result \in CreateResults,
             CreateOwned(b, result) \/ ReceiveLate(b, result)
      PROVE HostTypeOK'
  BY <1>2 DEF CreateOwned, ReceiveLate, coordVars
<1>3. ASSUME NEW b \in Births, ResolveThreadCreate(b) PROVE HostTypeOK'
  <2>1. \E c \in {NoCreate, [held |-> "quarantined", result |-> "none"]} :
           creates' = [creates EXCEPT ![b] = c]
    BY <1>3 DEF ResolveThreadCreate
  <2>2. creates' \in [Births -> [held : CreateStates, result : CreateResults]]
    BY <2>1 DEF CreateStates, CreateResults
  <2> QED BY <1>3, <2>2 DEF ResolveThreadCreate, coordVars
<1>4. ASSUME NEW r \in Requests, NEW m \in Arms, AdmitClaim(r, m) PROVE HostTypeOK'
  BY <1>4 DEF AdmitClaim, AdmitClaimRow, coordVars
<1>5. ASSUME NEW a \in Attempts, Prepare(a) PROVE HostTypeOK'
  BY <1>5 DEF Prepare
<1>6. CASE AuthorizeProbeRefused \/ AuthorizeProbeActive \/ AuthorizeProbeUnproven
           \/ AuthorizeProbeIdle
  BY <1>6 DEF AuthorizeProbeRefused, AuthorizeProbeActive, AuthorizeProbeUnproven,
     AuthorizeProbeIdle, TakeProbing, createVars
<1>7. ASSUME NEW o \in Outcomes, WriteNothing(o) PROVE HostTypeOK'
  BY <1>7 DEF WriteNothing, createVars
<1>8. ASSUME NEW o \in Outcomes, NEW n \in NativeStates, WriteReservedTurn(o, n)
      PROVE HostTypeOK'
  BY <1>8 DEF WriteReservedTurn, createVars
<1>9. CASE ConcludeRefused \/ ConcludeEpochInvalidated
  BY <1>9 DEF ConcludeRefused, ConcludeEpochInvalidated, TakeWriting, Ready, Idle, createVars
<1>10. CASE ConcludeEvidence
  <2>1. writing \in Attempts /\ outcome \in Outcomes /\ step = Idle /\ status = "up"
    BY <1>10 DEF ConcludeEvidence, TakeWriting, Ready
  <2>2. /\ Scope(writing, FALSE, "conclude") \in Scopes
        /\ \A f \in Facts : Continue("conclude", writing, f) \in Steps
    BY <2>1 DEF EvidenceRefs, Continue, Steps
  <2>3. "Accepted" \in Facts /\ (outcome.kind = "ExactResponse" => outcome.fact \in Facts)
    BY <2>1, OutcomeIsEvidence DEF Facts, TurnFacts
  <2>4. step' \in Steps /\ step'.at \in {"idle", "conclude"}
    <3>1. CASE outcome.kind \in {"WriterAccepted", "ExactResponse"}
      <4>1. \E f \in Facts : step' = Continue("conclude", writing, f)
        BY <1>10, <2>3, <3>1 DEF ConcludeEvidence
      <4> QED BY <2>2, <4>1 DEF Continue
    <3>2. CASE outcome.kind \notin {"WriterAccepted", "ExactResponse"}
      BY <1>10, <2>1, <3>2 DEF ConcludeEvidence, Idle
    <3> QED BY <3>1, <3>2
  <2> QED BY <1>10, <2>1, <2>2, <2>4 DEF ConcludeEvidence, TakeWriting, createVars
<1>11. CASE ConcludeFact
  <2>1. step.attempt \in Attempts
    BY <1>11 DEF ConcludeFact, Steps, Idle
  <2>2. Scope(step.attempt, step.item \in TurnFacts, "conclude") \in Scopes
    <3>1. (step.item \in TurnFacts) \in BOOLEAN
      OBVIOUS
    <3> QED BY <2>1, <3>1 DEF EvidenceRefs
  <2> QED BY <1>11, <2>2 DEF ConcludeFact, Idle, createVars
<1>12. CASE StoreCallFails
  BY <1>12 DEF StoreCallFails, Idle, createVars, coordVars
<1>13. ASSUME NEW f \in Facts, PollAndRecordExact(f) PROVE HostTypeOK'
  BY <1>13 DEF PollAndRecordExact, Ready, Idle, createVars
<1>14. ASSUME NEW d \in Reconciliations, ReconcileCodex(d) \/ ReconcileScripted(d)
       PROVE HostTypeOK'
  <2>1. reconciling # NoScope /\ reconciling.attempt \in Attempts
    BY <1>14 DEF ReconcileCodex, ReconcileScripted
  <2>2. step' = Continue("reconcile", reconciling.attempt, d)
    BY <1>14 DEF ReconcileCodex, ReconcileScripted
  <2>3. step' \in Steps /\ step'.attempt = reconciling.attempt
    BY <2>1, <2>2 DEF Continue, Steps
  <2> QED BY <1>14, <2>1, <2>3 DEF ReconcileCodex, ReconcileScripted, Ready, createVars, coordVars
<1>15. CASE RecordReconciliation
  <2>1. step.attempt \in Attempts
    BY <1>15 DEF RecordReconciliation, Steps, Idle
  <2>2. CASE step.item \in {"Accepted", "Terminal"}
    <3>1. step' \in Steps /\ step'.attempt = step.attempt
      BY <1>15, <2>1, <2>2 DEF RecordReconciliation, Continue, Steps
    <3>2. reconciling' = reconciling
      BY <1>15, <2>2 DEF RecordReconciliation
    <3> QED BY <1>15, <3>1, <3>2 DEF RecordReconciliation, createVars
  <2>3. CASE step.item \notin {"Accepted", "Terminal"}
    BY <1>15, <2>3 DEF RecordReconciliation, Idle, createVars
  <2> QED BY <2>2, <2>3
<1>16. CASE RecordReconciledFact
  <2>1. step.attempt \in Attempts /\ reconciling.ref \in EvidenceRefs
    BY <1>16 DEF RecordReconciledFact, Steps, Idle
  <2>2. Scope(step.attempt, TRUE, reconciling.ref) \in Scopes
    <3>1. TRUE \in BOOLEAN
      OBVIOUS
    <3> QED BY <2>1, <3>1
  <2> QED BY <1>16, <2>2 DEF RecordReconciledFact, Idle, createVars
<1>17. CASE Crash
  BY <1>17 DEF Crash, LoseMemory, Idle
<1>18. CASE Recover
  <2>1. observing' \in Scopes /\ reconciling' \in Scopes
    BY <1>18, RecoveredScopes DEF Recover
  <2>2. status' \in {"up", "down"} /\ step' = Idle
    BY <1>18 DEF Recover
  <2>3. UNCHANGED <<createVars, probing, writing, outcome>>
    BY <1>18 DEF Recover
  <2> QED BY <2>1, <2>2, <2>3 DEF Idle, createVars
<1>19. CASE UNCHANGED <<status, step, createVars, coordVars>>
  BY <1>19 DEF createVars, coordVars
<1> QED BY <1>1, <1>2, <1>3, <1>4, <1>5, <1>6, <1>7, <1>8, <1>9, <1>10, <1>11, <1>12, <1>13,
           <1>14, <1>15, <1>16, <1>17, <1>18, <1>19
        DEF Operation, RegisterManagedArm, RevokeAttachment, LeaseExpires, NativeProgress,
            ThreadProgress, PollRefused, ReconcileCodexRejected

-----------------------------------------------------------------------------
(* Type correctness *)

LEMMA TypeInit == Init => TypeOK
BY StoreAssumption, OutcomeMembers, ScopeMembers, EvidenceMembers
   DEF Init, StoreInit, TypeOK, StoreTypeOK, HostTypeOK, ControllerTypeOK, NativeTypeOK,
       Ownership, Conclusions, EvidenceRefs, Reconciliations, Seen, NativeStates, Idle

LEMMA TypeStep == TypeOK /\ [Next]_vars => TypeOK'
<1> SUFFICES ASSUME TypeOK, [Next]_vars PROVE TypeOK'
  OBVIOUS
<1>1. CASE Next
  BY <1>1, StoreStep, HostStep, NativeStep DEF TypeOK, Next
<1>2. CASE UNCHANGED vars
  BY <1>2, StoreUnchanged DEF TypeOK, HostTypeOK, ControllerTypeOK, NativeTypeOK, vars,
     createVars, coordVars, ctlVars, nativeVars
<1> QED BY <1>1, <1>2

\* Every variable of the store, the coordinator, the controllers and the native
\* server keeps its type, the continuation of an operation belongs to the scope
\* it works on, and none survives a crash.
THEOREM TypeCorrect == Spec => []TypeOK
BY TypeInit, TypeStep, PTL DEF Spec

-----------------------------------------------------------------------------
(* At most one native write, after the claim *)

\* An owned birth, an attachment, a preparation and a reservation are never
\* taken back by any operation of the store.
LEMMA StoreMonotone ==
    ASSUME StoreTypeOK, NativeTypeOK, HostTypeOK, Operation
    PROVE  /\ \A b \in Births : ownership[b] = "Owned" => ownership'[b] = "Owned"
           /\ \A a \in Attempts : attachments[a] # NoBirth => attachments'[a] = attachments[a]
           /\ prepared \subseteq prepared'
           /\ \A a \in Attempts : reservations[a] # "none" => reservations'[a] # "none"
<1> USE DEF StoreTypeOK
<1> DEFINE Kept == /\ \A b \in Births : ownership[b] = "Owned" => ownership'[b] = "Owned"
                   /\ \A a \in Attempts : attachments[a] # NoBirth =>
                                             attachments'[a] = attachments[a]
                   /\ prepared \subseteq prepared'
                   /\ \A a \in Attempts : reservations[a] # "none" => reservations'[a] # "none"
<1>1. ASSUME UNCHANGED <<ownership, attachments, prepared, reservations>> PROVE Kept
  BY <1>1
<1>2. ASSUME NEW b \in Births, ReserveControllerBirth(b) \/ ResolveThreadCreate(b) PROVE Kept
  BY <1>2 DEF ReserveControllerBirth, ResolveThreadCreate, ReserveBirthRow, ResolveCreateRow,
     CreateResolvable, claimVars, dispatchVars, storeVars, birthVars
<1>3. ASSUME NEW r \in Requests, NEW m \in Arms, AdmitClaim(r, m) PROVE Kept
  BY <1>3 DEF AdmitClaim, AdmitClaimRow, birthVars, dispatchVars
<1>4. ASSUME NEW a \in Attempts, Prepare(a) PROVE Kept
  BY <1>4 DEF Prepare, RecordDispatchPrepared, birthVars, claimVars, dispatchVars, storeVars
<1>5. CASE AuthorizeProbeIdle
  BY <1>5 DEF AuthorizeProbeIdle, ReserveNativeTurnWrite, birthVars, claimVars
<1>6. CASE AuthorizeProbeUnproven \/ ConcludeEpochInvalidated \/ ConcludeEvidence
  BY <1>6 DEF AuthorizeProbeUnproven, ConcludeEpochInvalidated, ConcludeEvidence,
     RecordPrewriteConclusion, RecordNativeWriteEvidence, birthVars, claimVars, dispatchVars
<1>7. CASE RecoverAuthorityState
  BY <1>7 DEF RecoverAuthorityState, claimVars, dispatchVars
<1>8. Operation => \/ UNCHANGED <<ownership, attachments, prepared, reservations>>
                   \/ \E b \in Births : ReserveControllerBirth(b) \/ ResolveThreadCreate(b)
                   \/ \E r \in Requests, m \in Arms : AdmitClaim(r, m)
                   \/ \E a \in Attempts : Prepare(a)
                   \/ AuthorizeProbeIdle
                   \/ AuthorizeProbeUnproven \/ ConcludeEpochInvalidated \/ ConcludeEvidence
                   \/ RecoverAuthorityState
  BY DEF Operation, RegisterManagedArm, PersistArm, LeaseExpires, ThreadProgress, CreateOwned,
     ReceiveLate, RevokeAttachment, RevokeAttachmentRow, NativeProgress,
     AuthorizeProbeRefused, AuthorizeProbeActive, RecordActiveHold, WriteNothing,
     WriteReservedTurn, ConcludeRefused, ConcludeFact, RecordNativeTurnFact, StoreCallFails,
     PollAndRecordExact, PollRefused, ReconcileCodex, ReconcileScripted,
     ReconcileCodexRejected, RecordReconciliation, RecordReconciliationFact,
     RecordReconciledFact, Crash, Recover, storeVars, birthVars, claimVars, dispatchVars
<1> QED BY <1>1, <1>2, <1>3, <1>4, <1>5, <1>6, <1>7, <1>8

LEMMA ClaimedStays ==
    ASSUME TypeOK, Operation, NEW a \in Attempts, ClaimedAndOwned(a)
    PROVE  ClaimedAndOwned(a)'
<1>1. attachments[a] \in Births
  BY DEF TypeOK, StoreTypeOK, ClaimedAndOwned
<1> QED BY <1>1, StoreMonotone DEF TypeOK, ClaimedAndOwned

LEMMA WriteProtocolInit == Init => WriteProtocol
BY DEF Init, StoreInit, WriteProtocol

\* The actions that touch a reservation, a slot of the coordinator, the answer
\* or the count of writes; the others leave the protocol alone.
LEMMA WriteProtocolStep ==
    ASSUME TypeOK, WriteProtocol, Operation
    PROVE  WriteProtocol'
<1> USE DEF TypeOK, StoreTypeOK, HostTypeOK, NativeTypeOK
<1> DEFINE Rows == <<reservations, native_writes, probing, writing, outcome>>
<1>1. \A a \in Attempts : reservations[a] # "none" =>
         ClaimedAndOwned(a)' /\ reservations'[a] # "none"
  BY ClaimedStays, StoreMonotone DEF WriteProtocol
<1>2. probing # NoAttempt => \A a \in Attempts : a = probing => ClaimedAndOwned(a)'
  BY ClaimedStays DEF WriteProtocol
<1>3. CASE UNCHANGED Rows
  BY <1>1, <1>2, <1>3 DEF WriteProtocol
<1>4. ASSUME NEW a \in Attempts, Prepare(a) PROVE WriteProtocol'
  <2>1. /\ UNCHANGED <<reservations, native_writes, writing, outcome>>
        /\ probing' # probing => probing' = a /\ ClaimedAndOwned(a)'
    BY <1>4 DEF Prepare, ValidAttachment, RecordDispatchPrepared, ClaimedAndOwned, birthVars,
       claimVars, storeVars, nativeVars, dispatchVars
  <2> QED BY <1>1, <1>2, <2>1 DEF WriteProtocol
<1>5. CASE AuthorizeProbeRefused \/ AuthorizeProbeActive \/ AuthorizeProbeUnproven
  <2>1. /\ probing' = NoAttempt
        /\ UNCHANGED <<native_writes, writing, outcome>>
        /\ reservations' \in [Attempts -> {"none", "open", "concluded"}]
        /\ \A a \in Attempts : reservations'[a] # "none" => reservations[a] # "none"
    BY <1>5 DEF AuthorizeProbeRefused, AuthorizeProbeActive, AuthorizeProbeUnproven,
       TakeProbing, RecordActiveHold, RecordPrewriteConclusion, nativeVars, storeVars
  <2> QED BY <1>1, <2>1 DEF WriteProtocol
<1>6. CASE AuthorizeProbeIdle
  <2>1. probing \in Attempts /\ reservations[probing] = "none" /\ native_writes[probing] = 0
    BY <1>6 DEF AuthorizeProbeIdle, TakeProbing, ReserveNativeTurnWrite, WriteProtocol
  <2>2. /\ writing' = probing /\ probing' = NoAttempt
        /\ reservations' = [reservations EXCEPT ![probing] = "open"]
        /\ native_writes' = native_writes
    BY <1>6 DEF AuthorizeProbeIdle, TakeProbing, ReserveNativeTurnWrite, nativeVars
  <2>3. \A a \in Attempts : reservations'[a] # "none" => ClaimedAndOwned(a)'
    <3> TAKE a \in Attempts
    <3> HAVE reservations'[a] # "none"
    <3>1. CASE a = probing
      BY <1>2, <2>1, <3>1 DEF NoAttempt, Attempts
    <3>2. CASE a # probing
      BY <1>1, <2>2, <3>2
    <3> QED BY <3>1, <3>2
  <2>4. \A a \in Attempts : native_writes'[a] > 0 =>
                               native_writes'[a] = 1 /\ reservations'[a] # "none"
    BY <2>1, <2>2 DEF WriteProtocol
  <2> QED BY <2>1, <2>2, <2>3, <2>4 DEF WriteProtocol, NoAttempt
<1>7. ASSUME NEW o \in Outcomes, WriteNothing(o) PROVE WriteProtocol'
  <2>1. outcome' = o /\ o # NoOutcome
    BY <1>7 DEF WriteNothing, NoOutcome, EvidenceOf
  <2> QED BY <1>7, <1>1, <1>2, <2>1 DEF WriteNothing, WriteProtocol, storeVars, nativeVars
<1>8. ASSUME NEW o \in Outcomes, NEW n \in NativeStates, WriteReservedTurn(o, n)
      PROVE WriteProtocol'
  <2>1. /\ writing \in Attempts /\ native_writes[writing] = 0
        /\ reservations[writing] # "none"
        /\ native_writes' = [native_writes EXCEPT ![writing] = @ + 1]
        /\ UNCHANGED <<reservations, probing, writing>>
    BY <1>8 DEF WriteReservedTurn, WriteProtocol
  <2>2. outcome' # NoOutcome
    BY <1>8 DEF WriteReservedTurn, WriteAnswer, NoOutcome, EvidenceOf
  <2> QED BY <1>1, <1>2, <2>1, <2>2 DEF WriteProtocol
<1>9. CASE ConcludeRefused \/ ConcludeEpochInvalidated \/ ConcludeEvidence
  <2>1. writing' = NoAttempt /\ UNCHANGED <<native_writes, probing>>
    BY <1>9 DEF ConcludeRefused, ConcludeEpochInvalidated, ConcludeEvidence, TakeWriting,
       nativeVars
  <2>2. \A a \in Attempts : reservations'[a] # "none" => a = writing \/ reservations[a] # "none"
    BY <1>9 DEF ConcludeRefused, ConcludeEpochInvalidated, ConcludeEvidence, TakeWriting,
       RecordPrewriteConclusion, RecordNativeWriteEvidence, storeVars
  <2>3. writing \in Attempts /\ reservations[writing] # "none"
    BY <1>9 DEF ConcludeRefused, ConcludeEpochInvalidated, ConcludeEvidence, TakeWriting,
       WriteProtocol
  <2> QED BY <1>1, <1>2, <2>1, <2>2, <2>3 DEF WriteProtocol
<1>10. CASE RecoverAuthorityState /\ UNCHANGED <<native_writes, probing, writing, outcome>>
  <2>1. \A a \in Attempts : reservations'[a] # "none" => reservations[a] # "none"
    BY <1>10 DEF RecoverAuthorityState, Unresolved
  <2> QED BY <1>1, <1>2, <1>10, <2>1 DEF WriteProtocol
<1>11. CASE Crash
  BY <1>1, <1>11 DEF Crash, LoseMemory, WriteProtocol, storeVars, nativeVars
<1>12. Operation => \/ UNCHANGED Rows
                    \/ \E a \in Attempts : Prepare(a)
                    \/ AuthorizeProbeRefused \/ AuthorizeProbeActive \/ AuthorizeProbeUnproven
                    \/ AuthorizeProbeIdle
                    \/ \E o \in Outcomes : WriteNothing(o)
                    \/ \E o \in Outcomes, n \in NativeStates : WriteReservedTurn(o, n)
                    \/ ConcludeRefused \/ ConcludeEpochInvalidated \/ ConcludeEvidence
                    \/ RecoverAuthorityState /\ UNCHANGED <<native_writes, probing, writing, outcome>>
                    \/ Crash
  BY DEF Operation, RegisterManagedArm, PersistArm, LeaseExpires, ThreadProgress, CreateOwned,
     ReceiveLate, ReserveControllerBirth, ReserveBirthRow, ResolveThreadCreate,
     ResolveCreateRow, AdmitClaim, AdmitClaimRow, RevokeAttachment, RevokeAttachmentRow,
     NativeProgress, ConcludeFact, RecordNativeTurnFact, StoreCallFails, PollAndRecordExact,
     PollRefused, ReconcileCodex, ReconcileScripted, ReconcileCodexRejected,
     RecordReconciliation, RecordReconciliationFact, RecordReconciledFact, Recover,
     storeVars, coordVars, nativeVars
<1> QED BY <1>3, <1>4, <1>5, <1>6, <1>7, <1>8, <1>9, <1>10, <1>11, <1>12

\* The bytes of an attempt's turn go on the wire at most once, over every crash,
\* recovery and reconciliation, and never before the claim, the preparation, the
\* owned thread and the reservation are durable.
THEOREM AtMostOnce == Spec => []AtMostOnceAfterClaim
<1>1. Init => TypeOK /\ WriteProtocol
  BY TypeInit, WriteProtocolInit
<1>2. TypeOK /\ WriteProtocol /\ [Next]_vars => (TypeOK /\ WriteProtocol)'
  <2> SUFFICES ASSUME TypeOK, WriteProtocol, [Next]_vars PROVE TypeOK' /\ WriteProtocol'
    OBVIOUS
  <2>1. CASE Next
    BY <2>1, TypeStep, WriteProtocolStep DEF Next
  <2>2. CASE UNCHANGED vars
    <3>1. WriteProtocol'
      BY <2>2 DEF vars, storeVars, birthVars, claimVars, dispatchVars, coordVars, nativeVars,
         WriteProtocol, ClaimedAndOwned
    <3> QED BY <2>2, <3>1, TypeStep
  <2> QED BY <2>1, <2>2
<1>3. TypeOK /\ WriteProtocol => AtMostOnceAfterClaim
  BY DEF WriteProtocol, ClaimedAndOwned, AtMostOnceAfterClaim
<1> QED BY <1>1, <1>2, <1>3, PTL DEF Spec

-----------------------------------------------------------------------------
(* What the store records of the native side is true of it, every native   *)
(* effect is on record, and evidence only degrades.                        *)

\* The store says that the turn of the attempt was not written or was refused.
Refuted(a) ==
    \/ prewrite[a] # "none"
    \/ write_evidence[a].kind = "ProvenNotAccepted"
    \/ reconciliations[a] = "ProvenNotAccepted"

\* The store, or the controller that has not yet told it, says that the turn ended.
Ended(a) ==
    \/ "Terminal" \in turn_facts[a]
    \/ write_evidence[a].fact = "Terminal"
    \/ ctl_seen[a] = "terminalHeld"

\* A possible native effect is on record, as a reservation or as evidence.
Accounted(a) ==
    \/ reservations[a] = "open"
    \/ /\ write_evidence[a].kind \in {"WriterAccepted", "ExactResponse", "Unknown"}
       /\ write_evidence_refs[a] # "none"

\* The server only has what was written; what is recorded of it is true; and only a
\* prepared attempt is refuted, which is never prepared again.
RecordHolds(a) ==
    /\ native_writes[a] = 0 => native[a] = "none"
    /\ Refuted(a) => native[a] \in {"none", "refused"} /\ a \in prepared
    /\ Ended(a) => native[a] = "finished"
    /\ native[a] \in {"sent", "running", "finished"} => Accounted(a)

RecordsHold == \A a \in Attempts : RecordHolds(a)

\* The attempt that is probed, and the one that waits for its write, are neither
\* written nor refuted yet; the latter is on record.
SlotsFresh ==
    /\ probing # NoAttempt => reservations[probing] = "none" /\ ~Refuted(probing)
    /\ writing # NoAttempt /\ outcome = NoOutcome => ~Refuted(writing) /\ Accounted(writing)

\* What the controller has answered and the store has not heard yet is true.
AnswersHold ==
    /\ writing # NoAttempt =>
          /\ outcome.kind \in {"ProvenNotAccepted", "IdleEpochInvalidated"} =>
                native[writing] \in {"none", "refused"}
          /\ outcome.fact = "Terminal" => native[writing] = "finished"
    /\ step.item = "Terminal" => native[step.attempt] = "finished"
    /\ step.at = "reconcile" /\ step.item = "ProvenNotAccepted" => native[step.attempt] = "refused"

\* So is what it has answered, or the store recorded, of a birth's create, before
\* which there was no thread.
CreateHolds(b) ==
    /\ "Owned" \in {ownership[b], creates[b].result} => threads[b] = "started"
    /\ "ProvenNotAccepted" \in {ownership[b], creates[b].result} => threads[b] \in {"none", "refused"}
    /\ ownership[b] = "Absent" \/ creates[b] = [held |-> "reserved", result |-> "none"] => threads[b] = "none"
    /\ ownership[b] = "Absent" => creates[b] = NoCreate

CreatesHold == \A b \in Births : CreateHolds(b)

RecordsInv == RecordsHold /\ SlotsFresh /\ AnswersHold /\ CreatesHold

-----------------------------------------------------------------------------
LEMMA RecordsInit == Init => RecordsInv
BY DEF Init, StoreInit, RecordsInv, RecordsHold, RecordHolds, SlotsFresh, AnswersHold, CreatesHold, CreateHolds, Refuted, Ended,
   Accounted, NoEvidence, NoOutcome, EvidenceOf, NoCreate, Idle, Continue

\* A create answers what the server did, and only once; afterwards a thread that
\* was started stays so, and one that was refused or never asked for is not started.
LEMMA CreatesStep ==
    ASSUME TypeOK, CreatesHold, Operation
    PROVE  CreatesHold'
<1> USE DEF TypeOK, StoreTypeOK, HostTypeOK, NativeTypeOK, CreatesHold, CreateHolds
<1>1. CASE UNCHANGED <<ownership, creates, threads>>
  BY <1>1
<1>2. ASSUME NEW b \in Births, ReserveControllerBirth(b) PROVE CreatesHold'
  BY <1>2 DEF ReserveControllerBirth, ReserveBirthRow, nativeVars
<1>3. ASSUME NEW b \in Births, NEW result \in CreateResults, CreateOwned(b, result) PROVE CreatesHold'
  <2>1. /\ UNCHANGED ownership /\ ownership[b] = "Reserved"
        /\ creates' = [creates EXCEPT ![b].result = result]
        /\ threads[b] = "none" /\ CreateEffect(b, result)
    BY <1>3 DEF CreateOwned, storeVars, birthVars
  <2>2. \A c \in Births : c # b => creates'[c] = creates[c] /\ threads'[c] = threads[c]
    BY <2>1 DEF CreateEffect
  <2>3. /\ creates'[b].result = result
        /\ result = "Owned" => threads'[b] = "started"
        /\ result = "ProvenNotAccepted" => threads'[b] \in {"none", "refused"}
        /\ result # "none"
    BY <2>1 DEF CreateEffect
  <2>4. creates'[b] # [held |-> "reserved", result |-> "none"]
    BY <2>3
  <2> SUFFICES ASSUME NEW c \in Births PROVE CreateHolds(c)'
    OBVIOUS
  <2>5. CASE c = b
    BY <2>1, <2>3, <2>4, <2>5
  <2>6. CASE c # b
    BY <2>1, <2>2, <2>6
  <2> QED BY <2>5, <2>6
<1>4. ASSUME NEW b \in Births, NEW result \in CreateResults, ReceiveLate(b, result) PROVE CreatesHold'
  BY <1>4 DEF ReceiveLate, storeVars, birthVars, nativeVars
<1>5. ASSUME NEW b \in Births, ResolveThreadCreate(b) PROVE CreatesHold'
  <2>1. /\ creates[b].result # "none" /\ UNCHANGED threads
        /\ creates' = [creates EXCEPT ![b] = creates'[b]]
        /\ creates'[b] \in {[held |-> "quarantined", result |-> "none"], NoCreate}
        /\ ownership' = [ownership EXCEPT ![b] = ownership'[b]]
        /\ ownership'[b] \in {ownership[b], creates[b].result}
    BY <1>5 DEF ResolveThreadCreate, ResolveCreateRow, NoCreate, storeVars, birthVars, nativeVars
  <2>2. ownership'[b] # "Absent"
    BY <2>1, <1>5 DEF ResolveThreadCreate, ResolveCreateRow, NoCreate, CreateResults
  <2> SUFFICES ASSUME NEW c \in Births PROVE CreateHolds(c)'
    OBVIOUS
  <2>3. CASE c = b
    BY <2>1, <2>2, <2>3 DEF NoCreate
  <2>4. CASE c # b
    BY <2>1, <2>4
  <2> QED BY <2>3, <2>4
<1>6. ASSUME NEW b \in Births, ThreadProgress(b) PROVE CreatesHold'
  BY <1>6 DEF ThreadProgress, storeVars, birthVars, createVars
<1>7. CASE RecoverAuthorityState /\ UNCHANGED <<creates, threads>>
  BY <1>7 DEF RecoverAuthorityState
<1>8. CASE Crash
  BY <1>8 DEF Crash, LoseMemory, NoCreate, storeVars, birthVars, nativeVars
<1>9. Operation => \/ UNCHANGED <<ownership, creates, threads>>
                   \/ \E b \in Births : ReserveControllerBirth(b) \/ ResolveThreadCreate(b) \/ ThreadProgress(b)
                   \/ \E b \in Births, result \in CreateResults : CreateOwned(b, result) \/ ReceiveLate(b, result)
                   \/ RecoverAuthorityState /\ UNCHANGED <<creates, threads>>
                   \/ Crash
  BY DEF Operation, RegisterManagedArm, PersistArm, LeaseExpires, AdmitClaim, AdmitClaimRow, Prepare,
     RecordDispatchPrepared, RevokeAttachment, RevokeAttachmentRow, NativeProgress, AuthorizeProbeRefused,
     AuthorizeProbeActive, AuthorizeProbeUnproven, AuthorizeProbeIdle, TakeProbing, RecordActiveHold,
     RecordPrewriteConclusion, ReserveNativeTurnWrite, WriteNothing, WriteReservedTurn, ConcludeRefused,
     ConcludeEpochInvalidated, ConcludeEvidence, TakeWriting, RecordNativeWriteEvidence, ConcludeFact,
     RecordNativeTurnFact, StoreCallFails, PollAndRecordExact, PollRefused, ReconcileCodex, ReconcileScripted,
     ReconcileCodexRejected, RecordReconciliation, RecordReconciliationFact, RecordReconciledFact, Recover,
     storeVars, birthVars, createVars, nativeVars
<1> QED BY <1>1, <1>2, <1>3, <1>4, <1>5, <1>6, <1>7, <1>8, <1>9

-----------------------------------------------------------------------------
CoreInv == RecordsHold /\ SlotsFresh /\ AnswersHold

\* An attempt whose rows stay keeps what is said of it.
LEMMA RowsStay ==
    ASSUME NEW a \in Attempts, prepared \subseteq prepared',
           prewrite'[a] = prewrite[a], reservations'[a] = reservations[a],
           write_evidence'[a] = write_evidence[a], write_evidence_refs'[a] = write_evidence_refs[a],
           reconciliations'[a] = reconciliations[a], turn_facts'[a] = turn_facts[a],
           ctl_seen'[a] = ctl_seen[a], native'[a] = native[a], native_writes'[a] = native_writes[a]
    PROVE  /\ Refuted(a)' = Refuted(a) /\ Accounted(a)' = Accounted(a)
           /\ RecordHolds(a) => RecordHolds(a)'
BY DEF Refuted, Accounted, Ended, RecordHolds

Rows == <<prepared, prewrite, reservations, write_evidence, write_evidence_refs, reconciliations, turn_facts,
          ctl_seen, native, native_writes>>
Slots == <<probing, writing, outcome>>

\* Operations on births, arms and claims, and the end of an operation, change no row.
LEMMA QuietStep ==
    ASSUME TypeOK, CoreInv, UNCHANGED <<Rows, Slots>>, step' \in {step, Idle}
    PROVE  CoreInv'
<1>1. \A a \in Attempts : RecordHolds(a)'
  BY RowsStay DEF Rows, CoreInv, RecordsHold
<1>2. SlotsFresh' /\ AnswersHold'
  BY DEF Rows, Slots, CoreInv, SlotsFresh, AnswersHold, Refuted, Accounted, Idle
<1> QED BY <1>1, <1>2 DEF CoreInv, RecordsHold

\* A prepared attempt was not prepared before, so nothing is recorded of it.
LEMMA PrepareStep ==
    ASSUME TypeOK, WriteProtocol, CoreInv, NEW x \in Attempts, Prepare(x)
    PROVE  CoreInv'
<1>1. /\ UNCHANGED <<prewrite, reservations, write_evidence, write_evidence_refs, reconciliations, turn_facts,
                     ctl_seen, native, native_writes, writing, outcome, step>>
      /\ prepared \subseteq prepared'
      /\ probing' # probing => probing' = x /\ x \notin prepared
  BY DEF Prepare, RecordDispatchPrepared, storeVars, dispatchVars, evidenceVars, birthVars, claimVars, ctlVars, nativeVars
<1>2. \A a \in Attempts : RecordHolds(a)' /\ Refuted(a)' = Refuted(a) /\ Accounted(a)' = Accounted(a)
  BY <1>1, RowsStay DEF CoreInv, RecordsHold
<1>3. x \notin prepared => reservations[x] = "none" /\ ~Refuted(x)
  BY DEF WriteProtocol, ClaimedAndOwned, CoreInv, RecordsHold, RecordHolds
<1>4. SlotsFresh'
  BY <1>1, <1>2, <1>3 DEF CoreInv, SlotsFresh, TypeOK, HostTypeOK
<1>5. AnswersHold'
  BY <1>1 DEF CoreInv, AnswersHold
<1> QED BY <1>2, <1>4, <1>5 DEF CoreInv, RecordsHold

\* A probe that holds or cannot prove the lane idle concludes an attempt that was
\* never written; one that proves it opens the reservation.
LEMMA ProbeStep ==
    ASSUME TypeOK, WriteProtocol, CoreInv,
           AuthorizeProbeRefused \/ AuthorizeProbeActive \/ AuthorizeProbeUnproven \/ AuthorizeProbeIdle
    PROVE  CoreInv'
<1> USE DEF TypeOK, StoreTypeOK, HostTypeOK, NativeTypeOK
<1>1. /\ probing \in Attempts /\ probing' = NoAttempt
      /\ UNCHANGED <<prepared, write_evidence, write_evidence_refs, reconciliations, turn_facts,
                     ctl_seen, native, native_writes, step>>
  BY DEF AuthorizeProbeRefused, AuthorizeProbeActive, AuthorizeProbeUnproven, AuthorizeProbeIdle, TakeProbing,
     RecordActiveHold, RecordPrewriteConclusion, ReserveNativeTurnWrite, storeVars, dispatchVars, evidenceVars,
     ctlVars, nativeVars
<1>2. reservations[probing] = "none" /\ ~Refuted(probing) /\ probing \in prepared /\ probing # writing
      /\ native[probing] = "none"
  BY <1>1 DEF CoreInv, SlotsFresh, WriteProtocol, ClaimedAndOwned, RecordsHold, RecordHolds, NoAttempt, Attempts
<1>3. \A a \in Attempts : a # probing => prewrite'[a] = prewrite[a] /\ reservations'[a] = reservations[a]
  BY <1>1 DEF AuthorizeProbeRefused, AuthorizeProbeActive, AuthorizeProbeUnproven, AuthorizeProbeIdle,
     RecordActiveHold, RecordPrewriteConclusion, ReserveNativeTurnWrite, storeVars, dispatchVars
<1>4. \A a \in Attempts : RecordHolds(a)'
  <2> TAKE a \in Attempts
  <2>1. CASE a # probing
    BY <2>1, <1>1, <1>3, RowsStay DEF CoreInv, RecordsHold
  <2>2. CASE a = probing
    BY <2>2, <1>1, <1>2 DEF CoreInv, RecordsHold, RecordHolds, Refuted, Ended
  <2> QED BY <2>1, <2>2
<1>5. AnswersHold' /\ SlotsFresh'
  <2>1. CASE UNCHANGED <<writing, outcome>>
    BY <2>1, <1>1, <1>2, <1>3, RowsStay DEF CoreInv, SlotsFresh, AnswersHold
  <2>2. CASE AuthorizeProbeIdle
    <3>1. /\ writing' = probing /\ outcome' = NoOutcome /\ prewrite' = prewrite
          /\ reservations'[probing] = "open"
      BY <2>2, <1>1 DEF AuthorizeProbeIdle, TakeProbing, ReserveNativeTurnWrite
    <3> QED BY <3>1, <1>1, <1>2 DEF CoreInv, SlotsFresh, AnswersHold, Refuted, Accounted, NoOutcome, EvidenceOf
  <2> QED BY <2>1, <2>2 DEF AuthorizeProbeRefused, AuthorizeProbeActive, AuthorizeProbeUnproven
<1> QED BY <1>4, <1>5 DEF CoreInv, RecordsHold

\* An answer without a write is about an attempt the server has never seen.
LEMMA WriteNothingStep ==
    ASSUME TypeOK, WriteProtocol, CoreInv, NEW o \in Outcomes, WriteNothing(o)
    PROVE  CoreInv'
<1> USE DEF TypeOK, StoreTypeOK, HostTypeOK, NativeTypeOK
<1>1. /\ UNCHANGED <<Rows, probing, writing, step>> /\ outcome' = o /\ o # NoOutcome /\ o.fact = "none"
      /\ writing \in Attempts
  BY DEF WriteNothing, Rows, storeVars, dispatchVars, evidenceVars, ctlVars, nativeVars, Outcomes, NoOutcome,
     EvidenceOf, ExactResponse
<1>2. native[writing] = "none"
  BY <1>1 DEF WriteNothing, WriteProtocol, CoreInv, RecordsHold, RecordHolds
<1>3. \A a \in Attempts : RecordHolds(a)' /\ Refuted(a)' = Refuted(a) /\ Accounted(a)' = Accounted(a)
  BY <1>1, RowsStay DEF CoreInv, RecordsHold, Rows
<1> QED BY <1>1, <1>2, <1>3 DEF CoreInv, RecordsHold, SlotsFresh, AnswersHold, Rows

\* A write changes what the server has of an attempt that nothing is recorded of but
\* its reservation, or the doubt of a recovery.
LEMMA WriteStep ==
    ASSUME TypeOK, WriteProtocol, CoreInv, NEW o \in Outcomes, NEW n \in NativeStates, WriteReservedTurn(o, n)
    PROVE  CoreInv'
<1> USE DEF TypeOK, StoreTypeOK, HostTypeOK, NativeTypeOK
<1>1. /\ writing \in Attempts /\ outcome' = o /\ o # NoOutcome
      /\ native' = [native EXCEPT ![writing] = n]
      /\ native_writes' = [native_writes EXCEPT ![writing] = @ + 1]
      /\ UNCHANGED <<prepared, prewrite, reservations, write_evidence, write_evidence_refs, reconciliations,
                     turn_facts, ctl_seen, probing, writing, step>>
  BY DEF WriteReservedTurn, WriteAnswer, dispatchVars, evidenceVars, NoOutcome, EvidenceOf
<1>2. /\ native_writes[writing] = 0 /\ native[writing] = "none"
      /\ ~Refuted(writing) /\ Accounted(writing) /\ ~Ended(writing)
  BY <1>1 DEF WriteReservedTurn, WriteProtocol, CoreInv, RecordsHold, RecordHolds, SlotsFresh
<1>3. /\ o.kind \in {"ProvenNotAccepted", "IdleEpochInvalidated"} => n \in {"none", "refused"}
      /\ o.fact = "Terminal" => n = "finished"
  BY DEF WriteReservedTurn, WriteAnswer, Outcomes, EvidenceOf, ExactResponse, DegradedFacts
<1>4. \A a \in Attempts : Refuted(a)' = Refuted(a) /\ Accounted(a)' = Accounted(a) /\ Ended(a)' = Ended(a)
  BY <1>1 DEF Refuted, Accounted, Ended
<1>5. \A a \in Attempts : RecordHolds(a)'
  <2> TAKE a \in Attempts
  <2>1. CASE a # writing
    BY <2>1, <1>1, <1>4 DEF CoreInv, RecordsHold, RecordHolds
  <2>2. CASE a = writing
    BY <2>2, <1>1, <1>2, <1>4 DEF RecordHolds
  <2> QED BY <2>1, <2>2
<1>6. SlotsFresh'
  BY <1>1, <1>4 DEF CoreInv, SlotsFresh
<1>7. AnswersHold'
  <2>1. native'[writing] = n /\ \A a \in Attempts : native[a] # "none" => native'[a] = native[a]
    BY <1>1, <1>2
  <2>2. step.attempt \in Attempts \cup {NoAttempt} /\ step = Idle
    BY DEF WriteReservedTurn, Ready, Idle
  <2> QED BY <1>1, <1>3, <2>1, <2>2 DEF AnswersHold, Idle
<1> QED BY <1>5, <1>6, <1>7 DEF CoreInv, RecordsHold

\* The conclusion of a write: what the answer refutes was not written or was refused,
\* and what may run keeps a reservation or gets evidence.
LEMMA ConcludeStep ==
    ASSUME TypeOK, WriteProtocol, CoreInv, ConcludeRefused \/ ConcludeEpochInvalidated \/ ConcludeEvidence
    PROVE  CoreInv'
<1> USE DEF TypeOK, StoreTypeOK, HostTypeOK, NativeTypeOK
<1>1. /\ writing \in Attempts /\ writing # NoAttempt /\ writing' = NoAttempt /\ outcome # NoOutcome
      /\ UNCHANGED <<prepared, reconciliations, turn_facts, ctl_seen, native, native_writes, probing>>
  BY DEF ConcludeRefused, ConcludeEpochInvalidated, ConcludeEvidence, TakeWriting, RecordPrewriteConclusion,
     RecordNativeWriteEvidence, storeVars, dispatchVars, evidenceVars, ctlVars, nativeVars
<1>2. reservations[writing] # "none" /\ writing \in prepared /\ writing # probing
  BY <1>1 DEF WriteProtocol, ClaimedAndOwned, CoreInv, SlotsFresh
<1>3. \A a \in Attempts : a # writing =>
         /\ prewrite'[a] = prewrite[a] /\ reservations'[a] = reservations[a]
         /\ write_evidence'[a] = write_evidence[a] /\ write_evidence_refs'[a] = write_evidence_refs[a]
  BY <1>1 DEF ConcludeRefused, ConcludeEpochInvalidated, ConcludeEvidence, RecordPrewriteConclusion,
     RecordNativeWriteEvidence, storeVars, dispatchVars, evidenceVars
<1>4. ASSUME NEW a \in Attempts, a = writing PROVE RecordHolds(a)'
  <2>1. CASE ConcludeRefused
    <3>1. UNCHANGED <<prewrite, reservations, write_evidence, write_evidence_refs>>
      BY <2>1 DEF ConcludeRefused, storeVars, dispatchVars, evidenceVars
    <3> QED BY <3>1, <1>1, RowsStay DEF CoreInv, RecordsHold
  <2>2. CASE ConcludeEpochInvalidated
    <3>1. /\ UNCHANGED <<write_evidence, write_evidence_refs>>
          /\ native[a] \in {"none", "refused"}
      BY <2>2, <1>1, <1>4 DEF ConcludeEpochInvalidated, RecordPrewriteConclusion, evidenceVars, CoreInv, AnswersHold
    <3> QED BY <3>1, <1>1, <1>2, <1>4 DEF CoreInv, RecordsHold, RecordHolds, Refuted, Ended
  <2>3. CASE ConcludeEvidence
    <3>1. /\ prewrite' = prewrite
          /\ write_evidence'[a] = outcome /\ write_evidence_refs'[a] = "conclude"
          /\ outcome.kind \in {"ProvenNotAccepted", "WriterAccepted", "ExactResponse", "Unknown"}
      BY <2>3, <1>1, <1>4 DEF ConcludeEvidence, RecordNativeWriteEvidence, dispatchVars
    <3>2. /\ outcome.kind = "ProvenNotAccepted" => native[a] \in {"none", "refused"}
          /\ outcome.fact = "Terminal" => native[a] = "finished"
      BY <1>1, <1>4 DEF CoreInv, AnswersHold
    <3> QED BY <3>1, <3>2, <1>1, <1>2, <1>4 DEF CoreInv, RecordsHold, RecordHolds, Refuted, Ended, Accounted
  <2> QED BY <2>1, <2>2, <2>3
<1>5. \A a \in Attempts : RecordHolds(a)'
  BY <1>1, <1>3, <1>4, RowsStay DEF CoreInv, RecordsHold
<1>6. SlotsFresh'
  BY <1>1, <1>2, <1>3, RowsStay DEF CoreInv, SlotsFresh
<1>7. AnswersHold'
  <2>1. /\ step'.item = "Terminal" => native[step'.attempt] = "finished"
        /\ step'.at # "reconcile"
    <3>1. outcome.fact = "Terminal" => native[writing] = "finished"
      BY <1>1 DEF CoreInv, AnswersHold
    <3>2. step' \in {Idle, Continue("conclude", writing, "Accepted"), Continue("conclude", writing, outcome.fact)}
      BY DEF ConcludeRefused, ConcludeEpochInvalidated, ConcludeEvidence, TakeWriting, Ready
    <3> QED BY <3>1, <3>2 DEF Continue, Idle
  <2> QED BY <1>1, <2>1 DEF AnswersHold
<1> QED BY <1>5, <1>6, <1>7 DEF CoreInv, RecordsHold

\* A turn fact is recorded of a turn that is as the fact says; a degraded one only
\* puts the evidence in doubt.
LEMMA FactRecorded ==
    ASSUME TypeOK, CoreInv, NEW x \in Attempts, NEW f \in Facts, NEW turn \in BOOLEAN,
           RecordNativeTurnFact(x, f, turn), f = "Terminal" => native[x] = "finished",
           UNCHANGED <<native, native_writes, prepared, prewrite>>,
           \A a \in Attempts : ctl_seen'[a] = "terminalHeld" => ctl_seen[a] = "terminalHeld" \/ native[a] = "finished"
    PROVE  \A a \in Attempts :
              /\ RecordHolds(a)'
              /\ Refuted(a)' => Refuted(a)
              /\ Accounted(a) => Accounted(a)'
<1> USE DEF TypeOK, StoreTypeOK
<1>1. UNCHANGED <<reservations, write_evidence_refs, reconciliations>>
  BY DEF RecordNativeTurnFact
<1>2. ASSUME NEW a \in Attempts
      PROVE  /\ turn_facts'[a] \subseteq turn_facts[a] \cup (IF a = x THEN {f} ELSE {})
             /\ write_evidence'[a] \in {write_evidence[a], UnknownEvidence}
  BY DEF RecordNativeTurnFact
<1> TAKE a \in Attempts
<1>3. /\ write_evidence'[a].fact = "Terminal" => write_evidence[a].fact = "Terminal"
      /\ write_evidence'[a].kind \in {write_evidence[a].kind, "Unknown"}
      /\ "Terminal" \in turn_facts'[a] => "Terminal" \in turn_facts[a] \/ native[a] = "finished"
  BY <1>2 DEF UnknownEvidence, EvidenceOf
<1>4. (Refuted(a)' => Refuted(a)) /\ (Accounted(a) => Accounted(a)')
  BY <1>1, <1>3 DEF Refuted, Accounted
<1>5. Ended(a)' => Ended(a) \/ native[a] = "finished"
  BY <1>3 DEF Ended
<1> QED BY <1>4, <1>5 DEF CoreInv, RecordsHold, RecordHolds

\* What the controller reports of a turn is true of the server.
LEMMA ReportsHold ==
    ASSUME TypeOK, CoreInv, NEW a \in Attempts, NEW f \in Facts,
           IF port = "codex" THEN CodexObserves(a, f) ELSE ScriptedObserves(a, f)
    PROVE  /\ f = "Terminal" => native[a] = "finished"
           /\ \A seen \in SeenAfter(a, f) :
                 seen = "terminalHeld" => ctl_seen[a] = "terminalHeld" \/ native[a] = "finished"
BY DEF CodexObserves, ScriptedObserves, SeenAfter, DegradedFacts, CoreInv, RecordsHold, RecordHolds, Ended

\* The fact that goes with an answer, an observation or a reconciliation.
LEMMA FactStep ==
    ASSUME TypeOK, CoreInv,
           \/ ConcludeFact \/ RecordReconciledFact
           \/ \E f \in Facts : PollAndRecordExact(f) \/ PollRefused(f)
    PROVE  CoreInv'
<1> USE DEF TypeOK, StoreTypeOK, HostTypeOK, NativeTypeOK, ControllerTypeOK
<1> DEFINE Holds == \A a \in Attempts :
                       RecordHolds(a)' /\ (Refuted(a)' => Refuted(a)) /\ (Accounted(a) => Accounted(a)')
<1>1. ASSUME Holds, UNCHANGED <<Slots, native>>, step' \in {step, Idle},
             UNCHANGED reservations
      PROVE  CoreInv'
  <2>1. SlotsFresh'
    <3>1. /\ probing # NoAttempt => ~Refuted(probing)'
          /\ writing # NoAttempt /\ outcome = NoOutcome => ~Refuted(writing)' /\ Accounted(writing)'
      <4>1. /\ probing # NoAttempt => ~Refuted(probing)
            /\ writing # NoAttempt /\ outcome = NoOutcome => ~Refuted(writing) /\ Accounted(writing)
        BY DEF CoreInv, SlotsFresh
      <4> QED BY <1>1, <4>1 DEF Slots, Refuted, Accounted
    <3> QED BY <1>1, <3>1 DEF Slots, CoreInv, SlotsFresh, Refuted, Accounted
  <2>2. AnswersHold'
    BY <1>1 DEF Slots, CoreInv, AnswersHold, Idle
  <2> QED BY <1>1, <2>1, <2>2 DEF CoreInv, RecordsHold
<1>2. CASE ConcludeFact \/ RecordReconciledFact
  <2>1. /\ step.attempt \in Attempts /\ step.item \in Facts
        /\ UNCHANGED <<native, native_writes, prepared, prewrite, ctl_seen, reservations, Slots>> /\ step' = Idle
    <3>1. step.attempt \in Attempts /\ step.item \in Facts
      <4>1. step \in Steps /\ step.at \in {"conclude", "reconcileFact"}
        BY <1>2 DEF ConcludeFact, RecordReconciledFact
      <4> HIDE DEF TypeOK, HostTypeOK
      <4> QED BY <4>1 DEF Steps, Idle, Facts, TurnFacts
    <3>2. CASE ConcludeFact
      BY <3>1, <3>2 DEF ConcludeFact, RecordNativeTurnFact, dispatchVars, ctlVars, nativeVars, Slots
    <3>3. CASE RecordReconciledFact
      BY <3>1, <3>3 DEF RecordReconciledFact, RecordNativeTurnFact, dispatchVars, ctlVars, nativeVars, Slots
    <3> QED BY <1>2, <3>2, <3>3
  <2>2. \E turn \in BOOLEAN : RecordNativeTurnFact(step.attempt, step.item, turn)
    <3>1. CASE ConcludeFact
      <4>1. RecordNativeTurnFact(step.attempt, step.item, step.item \in TurnFacts)
        BY <3>1 DEF ConcludeFact
      <4>2. (step.item \in TurnFacts) \in BOOLEAN
        OBVIOUS
      <4> HIDE DEF TypeOK
      <4> QED BY <4>1, <4>2
    <3>2. CASE RecordReconciledFact
      BY <3>2 DEF RecordReconciledFact
    <3> QED BY <1>2, <3>1, <3>2
  <2>3. step.item = "Terminal" => native[step.attempt] = "finished"
    BY DEF CoreInv, AnswersHold
  <2>4. \A a \in Attempts : ctl_seen'[a] = "terminalHeld" => ctl_seen[a] = "terminalHeld" \/ native[a] = "finished"
    BY <2>1
  <2>5. Holds
    <3>1. PICK turn \in BOOLEAN : RecordNativeTurnFact(step.attempt, step.item, turn)
      BY <2>2
    <3>2. UNCHANGED <<native, native_writes, prepared, prewrite>>
      BY <2>1
    <3> HIDE DEF TypeOK
    <3> QED BY <2>1, <2>3, <2>4, <3>1, <3>2, FactRecorded
  <2> QED BY <2>1, <2>5, <1>1
<1>4. ASSUME NEW f \in Facts, PollAndRecordExact(f) PROVE CoreInv'
  <2>1. /\ observing.attempt \in Attempts /\ observing.turn \in BOOLEAN
        /\ RecordNativeTurnFact(observing.attempt, f, observing.turn)
        /\ UNCHANGED <<native, native_writes, prepared, prewrite, reservations, Slots, step>>
        /\ IF port = "codex" THEN CodexObserves(observing.attempt, f) ELSE ScriptedObserves(observing.attempt, f)
        /\ \E seen \in SeenAfter(observing.attempt, f) : ctl_seen' = [ctl_seen EXCEPT ![observing.attempt] = seen]
    BY <1>4 DEF PollAndRecordExact, RecordNativeTurnFact, dispatchVars, nativeVars, Slots, Scopes
  <2>2. /\ f = "Terminal" => native[observing.attempt] = "finished"
        /\ \A seen \in SeenAfter(observing.attempt, f) :
              seen = "terminalHeld" => ctl_seen[observing.attempt] = "terminalHeld" \/ native[observing.attempt] = "finished"
    BY <2>1, ReportsHold
  <2>3. \A a \in Attempts : ctl_seen'[a] = "terminalHeld" => ctl_seen[a] = "terminalHeld" \/ native[a] = "finished"
    BY <2>1, <2>2
  <2>4. Holds
    BY <2>1, <2>2, <2>3, FactRecorded
  <2> QED BY <2>1, <2>4, <1>1
<1>5. ASSUME NEW f \in Facts, PollRefused(f) PROVE CoreInv'
  <2>1. /\ observing.attempt \in Attempts
        /\ UNCHANGED <<prepared, prewrite, reservations, write_evidence, write_evidence_refs, reconciliations,
                       turn_facts, native, native_writes, Slots, step>>
        /\ port = "codex" /\ CodexObserves(observing.attempt, f)
        /\ \E seen \in SeenAfter(observing.attempt, f) : ctl_seen' = [ctl_seen EXCEPT ![observing.attempt] = seen]
    BY <1>5 DEF PollRefused, storeVars, dispatchVars, evidenceVars, nativeVars, coordVars, Slots, Scopes
  <2>2. \A seen \in SeenAfter(observing.attempt, f) :
           seen = "terminalHeld" => ctl_seen[observing.attempt] = "terminalHeld" \/ native[observing.attempt] = "finished"
    BY <2>1, ReportsHold
  <2>3. \A a \in Attempts : ctl_seen'[a] = "terminalHeld" => ctl_seen[a] = "terminalHeld" \/ native[a] = "finished"
    BY <2>1, <2>2
  <2>4. Holds
    BY <2>1, <2>3 DEF CoreInv, RecordsHold, RecordHolds, Refuted, Accounted, Ended
  <2> QED BY <2>1, <2>4, <1>1
<1> QED BY <1>2, <1>4, <1>5

\* Recovery reads an open reservation, or an acceptance without its fact, as a doubt:
\* it refutes nothing, ends nothing and keeps every effect on record.
LEMMA RecoverStep ==
    ASSUME TypeOK, CoreInv, RecoverAuthorityState, UNCHANGED <<native, native_writes, ctl_seen, Slots>>,
           \/ step' = step
           \/ /\ step'.item # "Terminal"
              /\ step'.item = "ProvenNotAccepted" => native[step'.attempt] = "refused"
    PROVE  CoreInv'
<1>1. UNCHANGED <<prepared, prewrite, reconciliations>>
  BY DEF RecoverAuthorityState, dispatchVars
<1>2. ASSUME NEW a \in Attempts
      PROVE  /\ Refuted(a)' => Refuted(a)
             /\ Ended(a)' => Ended(a)
             /\ Accounted(a) => Accounted(a)'
             /\ reservations[a] = "none" => reservations'[a] = "none"
  <2>1. /\ write_evidence'[a] = RecoveredEvidence(a)
        /\ write_evidence_refs'[a] = RecoveredRef(a)
        /\ turn_facts'[a] = RecoveredFacts(a)
        /\ reservations'[a] = IF Unresolved(a) THEN "concluded" ELSE reservations[a]
    BY DEF RecoverAuthorityState
  <2>2. UnknownEvidence.kind = "Unknown" /\ UnknownEvidence.fact = "none"
    BY DEF UnknownEvidence, EvidenceOf
  <2>3. Refuted(a)' => Refuted(a)
    BY <1>1, <2>1, <2>2 DEF Refuted, RecoveredEvidence
  <2>4. Ended(a)' => Ended(a)
    BY <2>1, <2>2 DEF Ended, RecoveredEvidence, RecoveredFacts
  <2>5. Accounted(a) => Accounted(a)'
    BY <2>1, <2>2 DEF Accounted, RecoveredEvidence, RecoveredRef, Unresolved, NoEvidence, EvidenceOf
  <2> QED BY <2>1, <2>3, <2>4, <2>5 DEF Unresolved
<1>3. \A a \in Attempts : RecordHolds(a)'
  BY <1>1, <1>2 DEF CoreInv, RecordsHold, RecordHolds
<1>4. SlotsFresh'
  <2>1. probing \in Attempts \cup {NoAttempt} /\ writing \in Attempts \cup {NoAttempt}
    BY DEF TypeOK, HostTypeOK
  <2>2. probing # NoAttempt => reservations'[probing] = "none" /\ ~Refuted(probing)'
    <3> SUFFICES ASSUME NEW x \in Attempts, x = probing, probing # NoAttempt
                 PROVE  reservations'[x] = "none" /\ ~Refuted(x)'
      BY <2>1 DEF Slots, Refuted
    <3> QED BY <1>2 DEF CoreInv, SlotsFresh
  <2>3. writing # NoAttempt /\ outcome = NoOutcome => ~Refuted(writing)' /\ Accounted(writing)'
    <3> SUFFICES ASSUME NEW x \in Attempts, x = writing, writing # NoAttempt, outcome = NoOutcome
                 PROVE  ~Refuted(x)' /\ Accounted(x)'
      BY <2>1 DEF Slots, Refuted, Accounted
    <3> QED BY <1>2 DEF CoreInv, SlotsFresh
  <2> QED BY <2>2, <2>3 DEF SlotsFresh, Slots, Refuted, Accounted
<1>5. AnswersHold'
  BY DEF CoreInv, AnswersHold, Slots
<1> QED BY <1>3, <1>4, <1>5 DEF CoreInv, RecordsHold

\* What the controller answers to a reconciliation is true of the server.
LEMMA ReconcileStep ==
    ASSUME TypeOK, CoreInv,
           \/ \E d \in Reconciliations : ReconcileCodex(d) \/ ReconcileScripted(d)
           \/ ReconcileCodexRejected \/ Recover
    PROVE  CoreInv'
<1>1. ASSUME NEW d \in Reconciliations, ReconcileCodex(d) PROVE CoreInv'
  <2>1. /\ RecoverAuthorityState /\ UNCHANGED <<native, native_writes, ctl_seen, Slots>>
        /\ step' = Continue("reconcile", reconciling.attempt, d)
        /\ d # "Terminal" /\ (d = "ProvenNotAccepted" => native[reconciling.attempt] = "refused")
    BY <1>1 DEF ReconcileCodex, coordVars, nativeVars, Slots
  <2>2. /\ step'.item # "Terminal"
        /\ step'.item = "ProvenNotAccepted" => native[step'.attempt] = "refused"
    BY <2>1 DEF Continue
  <2> QED BY <2>1, <2>2, RecoverStep
<1>2. CASE ReconcileCodexRejected \/ Recover
  <2>1. /\ RecoverAuthorityState /\ UNCHANGED <<native, native_writes, ctl_seen, Slots>>
        /\ step' = step
    BY <1>2 DEF ReconcileCodexRejected, Recover, coordVars, ctlVars, nativeVars, Slots
  <2> QED BY <2>1, RecoverStep
<1>3. ASSUME NEW d \in Reconciliations, ReconcileScripted(d) PROVE CoreInv'
  <2>1. /\ UNCHANGED <<Rows, Slots>>
        /\ step' = Continue("reconcile", reconciling.attempt, d)
        /\ d = "ProvenNotAccepted" => native[reconciling.attempt] = "refused"
        /\ d = "Terminal" => native[reconciling.attempt] = "finished"
    BY <1>3 DEF ReconcileScripted, Rows, Slots, dispatchVars, evidenceVars, coordVars, ctlVars, nativeVars
  <2>2. \A a \in Attempts : RecordHolds(a)'
    BY <2>1, RowsStay DEF Rows, CoreInv, RecordsHold
  <2>3. SlotsFresh'
    BY <2>1 DEF Rows, Slots, CoreInv, SlotsFresh, Refuted, Accounted
  <2>4. AnswersHold'
    BY <2>1 DEF Rows, Slots, CoreInv, AnswersHold, Continue
  <2> QED BY <2>2, <2>3, <2>4 DEF CoreInv, RecordsHold
<1> QED BY <1>1, <1>2, <1>3

\* A refusal is recorded of an attempt that was written, so of none that waits for
\* its probe or its write.
LEMMA RecordReconciliationStep ==
    ASSUME TypeOK, WriteProtocol, CoreInv, RecordReconciliation
    PROVE  CoreInv'
<1>1. /\ step.at = "reconcile" /\ step.attempt \in Attempts /\ reconciling.attempt = step.attempt
      /\ RecordReconciliationFact(reconciling, step.item)
      /\ step' \in {Idle, Continue("reconcileFact", step.attempt, step.item)}
      /\ UNCHANGED <<Slots, ctl_seen, native, native_writes>>
  <2>1. step.at = "reconcile" /\ step \in Steps /\ reconciling.attempt = step.attempt
    BY DEF RecordReconciliation, TypeOK, HostTypeOK
  <2>2. step.attempt \in Attempts
    BY <2>1 DEF Steps, Idle
  <2> QED BY <2>1, <2>2 DEF RecordReconciliation, Slots, ctlVars, nativeVars
<1>2. /\ UNCHANGED <<prepared, prewrite, reservations, write_evidence, write_evidence_refs, turn_facts>>
      /\ reservations[step.attempt] # "none"
      /\ \A a \in Attempts : a # step.attempt => reconciliations'[a] = reconciliations[a]
      /\ reconciliations'[step.attempt] = step.item
  BY <1>1 DEF RecordReconciliationFact, ReconciliationBound, dispatchVars, TypeOK, StoreTypeOK
<1>3. /\ step.item = "ProvenNotAccepted" => native[step.attempt] = "refused"
      /\ step.item = "Terminal" => native[step.attempt] = "finished"
  BY <1>1 DEF CoreInv, AnswersHold
<1>4. step.attempt \in prepared
  BY <1>1, <1>2 DEF WriteProtocol, ClaimedAndOwned
<1>5. \A a \in Attempts :
         /\ Ended(a)' = Ended(a) /\ Accounted(a)' = Accounted(a)
         /\ Refuted(a)' => Refuted(a) \/ (a = step.attempt /\ step.item = "ProvenNotAccepted")
  BY <1>1, <1>2 DEF Ended, Accounted, Refuted
<1>6. \A a \in Attempts : RecordHolds(a)'
  BY <1>1, <1>2, <1>3, <1>4, <1>5 DEF CoreInv, RecordsHold, RecordHolds
<1>7. SlotsFresh'
  <2>1. /\ probing # NoAttempt => probing # step.attempt
        /\ writing # NoAttempt /\ outcome = NoOutcome /\ step.item = "ProvenNotAccepted" => writing # step.attempt
    BY <1>1, <1>2, <1>3 DEF CoreInv, SlotsFresh, RecordsHold, RecordHolds, WriteProtocol
  <2>2. probing \in Attempts \cup {NoAttempt} /\ writing \in Attempts \cup {NoAttempt}
    BY DEF TypeOK, HostTypeOK
  <2> QED BY <1>1, <1>2, <2>1, <2>2 DEF CoreInv, SlotsFresh, Slots, Refuted, Accounted
<1>8. AnswersHold'
  BY <1>1, <1>3 DEF CoreInv, AnswersHold, Slots, Idle, Continue
<1> QED BY <1>6, <1>7, <1>8 DEF CoreInv, RecordsHold

\* A crash forgets what was answered, never what was recorded.
LEMMA CrashStep ==
    ASSUME TypeOK, CoreInv, Crash PROVE CoreInv'
<1>1. /\ UNCHANGED <<prepared, prewrite, reservations, write_evidence, write_evidence_refs, reconciliations,
                     turn_facts, native, native_writes>>
      /\ probing' = NoAttempt /\ writing' = NoAttempt /\ step' = Idle
      /\ \A a \in Attempts : ctl_seen'[a] = "none"
  BY DEF Crash, LoseMemory, storeVars, dispatchVars, evidenceVars, nativeVars
<1>2. \A a \in Attempts : RecordHolds(a)'
  BY <1>1 DEF CoreInv, RecordsHold, RecordHolds, Refuted, Ended, Accounted
<1> QED BY <1>1, <1>2 DEF CoreInv, RecordsHold, SlotsFresh, AnswersHold, Idle

\* The server decides only about bytes it has, and what it refused or finished stays.
LEMMA ProgressStep ==
    ASSUME TypeOK, CoreInv, NEW x \in Attempts, NativeProgress(x) PROVE CoreInv'
<1>1. /\ UNCHANGED <<prepared, prewrite, reservations, write_evidence, write_evidence_refs, reconciliations,
                     turn_facts, ctl_seen, native_writes, Slots, step>>
      /\ native[x] \in {"sent", "running"}
      /\ native'[x] \in {"running", "refused", "finished"}
      /\ \A a \in Attempts : a # x => native'[a] = native[a]
  BY DEF NativeProgress, storeVars, dispatchVars, evidenceVars, ctlVars, coordVars, Slots, TypeOK, NativeTypeOK
<1>2. \A a \in Attempts : Refuted(a)' = Refuted(a) /\ Ended(a)' = Ended(a) /\ Accounted(a)' = Accounted(a)
  BY <1>1 DEF Refuted, Ended, Accounted
<1>3. \A a \in Attempts : RecordHolds(a)'
  BY <1>1, <1>2 DEF CoreInv, RecordsHold, RecordHolds
<1>4. SlotsFresh'
  BY <1>1 DEF CoreInv, SlotsFresh, Slots, Refuted, Accounted
<1>5. AnswersHold'
  <2>1. /\ writing \in Attempts \cup {NoAttempt} /\ step \in Steps
        /\ \A a \in Attempts : native[a] \in {"none", "refused", "finished"} => native'[a] = native[a]
    BY <1>1 DEF TypeOK, HostTypeOK
  <2>2. step.at = "reconcile" \/ step.item = "Terminal" => step.attempt \in Attempts
    BY <2>1 DEF Steps, Idle
  <2> QED BY <1>1, <2>1, <2>2 DEF CoreInv, AnswersHold, Slots
<1> QED BY <1>3, <1>4, <1>5 DEF CoreInv, RecordsHold

\* Every operation keeps the records true and complete.
LEMMA RecordsStep ==
    ASSUME TypeOK, WriteProtocol, CoreInv, Operation PROVE CoreInv'
<1>1. CASE UNCHANGED <<Rows, Slots>> /\ step' \in {step, Idle}
  BY <1>1, QuietStep
<1>2. CASE \E a \in Attempts : Prepare(a) \/ NativeProgress(a)
  BY <1>2, PrepareStep, ProgressStep
<1>3. CASE \E o \in Outcomes : WriteNothing(o)
  BY <1>3, WriteNothingStep
<1>4. CASE \E o \in Outcomes, n \in NativeStates : WriteReservedTurn(o, n)
  BY <1>4, WriteStep
<1>5. ASSUME NEW b \in Births,
             \/ ReserveControllerBirth(b) \/ ResolveThreadCreate(b) \/ LeaseExpires(b) \/ ThreadProgress(b)
             \/ \E result \in CreateResults : CreateOwned(b, result) \/ ReceiveLate(b, result)
      PROVE  UNCHANGED <<Rows, Slots>> /\ step' \in {step, Idle}
  <2>1. CASE ReserveControllerBirth(b) \/ ResolveThreadCreate(b)
    BY <2>1 DEF ReserveControllerBirth, ReserveBirthRow, ResolveThreadCreate, ResolveCreateRow, Rows, Slots,
       storeVars, dispatchVars, evidenceVars, coordVars, ctlVars, nativeVars
  <2>2. CASE LeaseExpires(b) \/ ThreadProgress(b)
    BY <2>2 DEF LeaseExpires, ThreadProgress, Rows, Slots, storeVars, dispatchVars, evidenceVars, coordVars, ctlVars
  <2>3. CASE \E result \in CreateResults : CreateOwned(b, result) \/ ReceiveLate(b, result)
    BY <2>3 DEF CreateOwned, ReceiveLate, Rows, Slots, storeVars, dispatchVars, evidenceVars, coordVars, ctlVars,
       nativeVars
  <2> QED BY <1>5, <2>1, <2>2, <2>3
<1>6. ASSUME \/ \E m \in Arms, g \in Gens : RegisterManagedArm(m, g)
             \/ \E r \in Requests, m \in Arms : AdmitClaim(r, m)
             \/ \E a \in Attempts : RevokeAttachment(a)
             \/ StoreCallFails
      PROVE  UNCHANGED <<Rows, Slots>> /\ step' \in {step, Idle}
  BY <1>6 DEF RegisterManagedArm, PersistArm, AdmitClaim, AdmitClaimRow, RevokeAttachment, RevokeAttachmentRow,
     StoreCallFails, Rows, Slots, storeVars, dispatchVars, evidenceVars, coordVars, ctlVars, nativeVars
<1>7. Operation =>
         \/ \E b \in Births :
               \/ ReserveControllerBirth(b) \/ ResolveThreadCreate(b) \/ LeaseExpires(b) \/ ThreadProgress(b)
               \/ \E result \in CreateResults : CreateOwned(b, result) \/ ReceiveLate(b, result)
         \/ \E m \in Arms, g \in Gens : RegisterManagedArm(m, g)
         \/ \E r \in Requests, m \in Arms : AdmitClaim(r, m)
         \/ \E a \in Attempts : RevokeAttachment(a)
         \/ StoreCallFails
         \/ \E a \in Attempts : Prepare(a) \/ NativeProgress(a)
         \/ AuthorizeProbeRefused \/ AuthorizeProbeActive \/ AuthorizeProbeUnproven \/ AuthorizeProbeIdle
         \/ \E o \in Outcomes : WriteNothing(o)
         \/ \E o \in Outcomes, n \in NativeStates : WriteReservedTurn(o, n)
         \/ ConcludeRefused \/ ConcludeEpochInvalidated \/ ConcludeEvidence
         \/ ConcludeFact \/ RecordReconciledFact
         \/ \E f \in Facts : PollAndRecordExact(f) \/ PollRefused(f)
         \/ \E d \in Reconciliations : ReconcileCodex(d) \/ ReconcileScripted(d)
         \/ ReconcileCodexRejected \/ Recover
         \/ RecordReconciliation \/ Crash
  BY DEF Operation
<1> QED BY <1>1, <1>2, <1>3, <1>4, <1>5, <1>6, <1>7, ProbeStep, ConcludeStep, FactStep, ReconcileStep,
           RecordReconciliationStep, CrashStep

\* What the invariant says of the rows, in the words of the checked properties.
LEMMA RecordsMean ==
    ASSUME RecordsInv PROVE RecordsTruthful /\ EffectAccounted
BY DEF RecordsInv, RecordsHold, RecordHolds, CreatesHold, CreateHolds, Refuted, Ended, Accounted, RecordsTruthful,
   NegativeProofSound, TerminalFactSound, OwnershipSound, EffectAccounted

LEMMA RecordsInvariant == Spec => [](TypeOK /\ WriteProtocol /\ RecordsInv)
<1>1. Init => TypeOK /\ WriteProtocol /\ RecordsInv
  BY TypeInit, WriteProtocolInit, RecordsInit
<1>2. TypeOK /\ WriteProtocol /\ RecordsInv /\ [Next]_vars => (TypeOK /\ WriteProtocol /\ RecordsInv)'
  <2> SUFFICES ASSUME TypeOK, WriteProtocol, RecordsInv, [Next]_vars
               PROVE  TypeOK' /\ WriteProtocol' /\ RecordsInv'
    OBVIOUS
  <2>1. CASE Next
    <3>1. TypeOK' /\ WriteProtocol'
      BY <2>1, TypeStep, WriteProtocolStep DEF Next
    <3>2. RecordsInv'
      BY <2>1, RecordsStep, CreatesStep DEF Next, RecordsInv, CoreInv
    <3> QED BY <3>1, <3>2
  <2>2. CASE UNCHANGED vars
    <3>1. UNCHANGED <<Rows, Slots, step, ownership, creates, threads>>
      BY <2>2 DEF vars, storeVars, birthVars, dispatchVars, evidenceVars, createVars, coordVars, ctlVars,
         nativeVars, Rows, Slots
    <3>2. WriteProtocol'
      BY <2>2 DEF vars, storeVars, birthVars, claimVars, dispatchVars, coordVars, nativeVars, WriteProtocol,
         ClaimedAndOwned
    <3>3. CoreInv'
      BY <3>1, QuietStep DEF RecordsInv, CoreInv
    <3>4. CreatesHold'
      BY <3>1 DEF RecordsInv, CreatesHold, CreateHolds
    <3> QED BY <2>2, <3>2, <3>3, <3>4, TypeStep DEF RecordsInv, CoreInv
  <2> QED BY <2>1, <2>2
<1> QED BY <1>1, <1>2, PTL DEF Spec

\* What the store says was not written, was refused, has ended or owns a thread is
\* so at the native server, over every crash, recovery and reconciliation: a refusal
\* that permits another attempt and a terminal that re-arms are never wrong.
THEOREM RecordsAreTrue == Spec => []RecordsTruthful
BY RecordsInvariant, RecordsMean, PTL

\* A turn the server may run is on record at every instant, as an open reservation or
\* as evidence with the reference under which it is reconciled: also between the
\* write and its conclusion, when recover_authority_state reads it as ambiguous.
THEOREM EffectsAreAccounted == Spec => []EffectAccounted
BY RecordsInvariant, RecordsMean, PTL

-----------------------------------------------------------------------------
\* What no operation withdraws of an attempt.
Hardens(a) ==
    /\ turn_facts[a] \subseteq turn_facts'[a]
    /\ a \in revoked => a \in revoked'
    /\ prewrite[a] # "none" => prewrite'[a] = prewrite[a]
    /\ reservations[a] = "concluded" => reservations'[a] = "concluded"
    /\ write_evidence[a] # NoEvidence => write_evidence'[a] \in {write_evidence[a], UnknownEvidence}
    /\ reconciliations[a] \notin {"none", "Unknown"} => reconciliations'[a] = reconciliations[a]

\* A conclusion, a fact and a decided reconciliation are recorded once; only evidence
\* may be put in doubt again.
LEMMA HardensStep ==
    ASSUME TypeOK, Operation, NEW a \in Attempts PROVE Hardens(a)
<1> USE DEF TypeOK, StoreTypeOK
<1>1. CASE UNCHANGED <<turn_facts, revoked, prewrite, reservations, write_evidence, reconciliations>>
  BY <1>1 DEF Hardens
<1>2. CASE \E x \in Attempts : RevokeAttachment(x)
  BY <1>2 DEF Hardens, RevokeAttachment, RevokeAttachmentRow, dispatchVars, evidenceVars
<1>3. CASE AuthorizeProbeActive \/ AuthorizeProbeUnproven \/ AuthorizeProbeIdle
  BY <1>3 DEF Hardens, AuthorizeProbeActive, AuthorizeProbeUnproven, AuthorizeProbeIdle, RecordActiveHold,
     RecordPrewriteConclusion, ReserveNativeTurnWrite, claimVars, evidenceVars
<1>4. CASE ConcludeEpochInvalidated \/ ConcludeEvidence
  BY <1>4 DEF Hardens, ConcludeEpochInvalidated, ConcludeEvidence, RecordPrewriteConclusion,
     RecordNativeWriteEvidence, EvidenceRecordable, claimVars, dispatchVars, evidenceVars
<1>5. ASSUME NEW x, NEW f, NEW turn, RecordNativeTurnFact(x, f, turn) PROVE Hardens(a)
  BY <1>5 DEF Hardens, RecordNativeTurnFact, claimVars, dispatchVars
<1>6. CASE RecordReconciliation
  BY <1>6 DEF Hardens, RecordReconciliation, RecordReconciliationFact, claimVars, dispatchVars
<1>7. CASE RecoverAuthorityState
  BY <1>7 DEF Hardens, RecoverAuthorityState, RecoveredEvidence, RecoveredFacts, Interrupted, Unresolved,
     claimVars, dispatchVars
<1>8. CASE \/ ConcludeFact \/ RecordReconciledFact
           \/ \E f \in Facts : PollAndRecordExact(f)
  BY <1>5, <1>8 DEF ConcludeFact, RecordReconciledFact, PollAndRecordExact
<1>9. Operation =>
         \/ UNCHANGED <<turn_facts, revoked, prewrite, reservations, write_evidence, reconciliations>>
         \/ \E x \in Attempts : RevokeAttachment(x)
         \/ AuthorizeProbeActive \/ AuthorizeProbeUnproven \/ AuthorizeProbeIdle
         \/ ConcludeEpochInvalidated \/ ConcludeEvidence
         \/ ConcludeFact \/ RecordReconciledFact
         \/ \E f \in Facts : PollAndRecordExact(f)
         \/ RecordReconciliation
         \/ RecoverAuthorityState
  BY DEF Operation, RegisterManagedArm, PersistArm, ReserveControllerBirth, ReserveBirthRow, ResolveThreadCreate,
     ResolveCreateRow, LeaseExpires, ThreadProgress, CreateOwned, ReceiveLate, AdmitClaim, AdmitClaimRow, Prepare,
     RecordDispatchPrepared, NativeProgress, AuthorizeProbeRefused, WriteNothing, WriteReservedTurn,
     ConcludeRefused, StoreCallFails, PollRefused, ReconcileCodex, ReconcileScripted, ReconcileCodexRejected,
     Crash, Recover, storeVars, claimVars, dispatchVars, evidenceVars
<1> QED BY <1>1, <1>2, <1>3, <1>4, <1>6, <1>7, <1>8, <1>9

\* A durable conclusion, fact, revocation or reservation is never withdrawn, evidence
\* only degrades to ambiguous, and a reconciliation that decided is final.
THEOREM EvidenceDegrades == Spec => EvidenceOnlyDegrades
<1>1. TypeOK /\ [Next]_vars => [\A a \in Attempts : Hardens(a)]_vars
  BY HardensStep DEF Next
<1>2. (\A a \in Attempts : Hardens(a)) <=>
         \A a \in Attempts :
            /\ turn_facts[a] \subseteq turn_facts'[a]
            /\ a \in revoked => a \in revoked'
            /\ prewrite[a] # "none" => prewrite'[a] = prewrite[a]
            /\ reservations[a] = "concluded" => reservations'[a] = "concluded"
            /\ write_evidence[a] # NoEvidence => write_evidence'[a] \in {write_evidence[a], UnknownEvidence}
            /\ reconciliations[a] \notin {"none", "Unknown"} => reconciliations'[a] = reconciliations[a]
  BY DEF Hardens
<1> QED BY <1>1, <1>2, TypeCorrect, PTL DEF Spec, EvidenceOnlyDegrades
=============================================================================
