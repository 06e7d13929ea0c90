------------------------ MODULE NativeContractProofs ------------------------
(***************************************************************************)
(* Machine-checked proof that the managed native path implements           *)
(* DispatchContract, for every set of arms, generations and requests,      *)
(* every bound on attempts and both controllers; that its follow-ups are   *)
(* coherent; and that a restart takes up every turn that has not ended,    *)
(* but for the two kinds that are named Stranded.                          *)
(***************************************************************************)
EXTENDS NativeDispatchProofs

\* The rows of an attempt are written in the order of its dispatch.
RowsOrdered(a) ==
    /\ a \in prepared => attachments[a] # NoBirth
    /\ a \notin prepared => prewrite[a] = "none" /\ reservations[a] = "none"
    /\ reservations[a] = "none" =>
          write_evidence[a] = NoEvidence /\ turn_facts[a] = {} /\ reconciliations[a] = "none"

\* An accepted turn runs or has run.
AcceptedHolds(a) ==
    write_evidence[a].kind \in {"WriterAccepted", "ExactResponse"} => native[a] \in {"running", "finished"}

\* What is followed up was reserved and not refused.
FollowedUp(a) ==
    /\ reservations[a] # "none"
    /\ write_evidence[a].kind \in {"WriterAccepted", "ExactResponse", "Unknown"}

FollowupsHold ==
    /\ observing # NoScope => FollowedUp(observing.attempt)
    /\ reconciling # NoScope => FollowedUp(reconciling.attempt)
    /\ step.at = "conclude" => writing = NoAttempt /\ FollowedUp(step.attempt)

\* The attempt in writing is not followed up yet, and no more than a doubt is
\* recorded of it.
WritingApart ==
    writing # NoAttempt =>
        /\ writing # observing.attempt /\ writing # reconciling.attempt
        /\ prewrite[writing] = "none" /\ turn_facts[writing] = {} /\ reconciliations[writing] = "none"
        /\ write_evidence[writing] \in {NoEvidence, UnknownEvidence}

\* A positive answer is of a turn that runs, and the epoch moved before a write.
OutcomeHolds ==
    writing # NoAttempt =>
        /\ outcome.kind \in {"WriterAccepted", "ExactResponse"} => native[writing] \in {"running", "finished"}
        /\ outcome.kind = "IdleEpochInvalidated" => native[writing] = "none"

DownEmpty == status = "down" => writing = NoAttempt

PhasesInv ==
    /\ \A a \in Attempts : RowsOrdered(a) /\ AcceptedHolds(a)
    /\ FollowupsHold /\ WritingApart /\ OutcomeHolds

Dispatch == <<attachments, prepared, prewrite, reservations, write_evidence, turn_facts, reconciliations>>
Followups == <<observing, reconciling>>

LEMMA PhasesInit == Init => PhasesInv
BY DEF Init, StoreInit, PhasesInv, RowsOrdered, AcceptedHolds, FollowupsHold, WritingApart, OutcomeHolds, NoEvidence,
   EvidenceOf, Idle

\* Operations on births and arms, and answers that nothing has been recorded of.
LEMMA PhasesQuiet ==
    ASSUME TypeOK, PhasesInv, UNCHANGED <<Dispatch, Slots, Followups, native>>, step'.at = "conclude" => step' = step
    PROVE  PhasesInv'
<1>1. \A a \in Attempts : RowsOrdered(a)' /\ AcceptedHolds(a)'
  BY DEF PhasesInv, Dispatch, RowsOrdered, AcceptedHolds
<1>2. FollowupsHold'
  BY DEF PhasesInv, Dispatch, Slots, Followups, FollowupsHold, FollowedUp
<1>3. WritingApart' /\ OutcomeHolds'
  BY DEF PhasesInv, Dispatch, Slots, Followups, WritingApart, OutcomeHolds
<1> QED BY <1>1, <1>2, <1>3 DEF PhasesInv

\* The claim that is admitted is of an attempt that nothing is recorded of.
LEMMA PhasesAdmit ==
    ASSUME TypeOK, PhasesInv, NEW r \in Requests, NEW m \in Arms, AdmitClaim(r, m)
    PROVE  PhasesInv'
<1>1. /\ \A a \in Attempts : attachments[a] # NoBirth => attachments'[a] = attachments[a]
      /\ UNCHANGED <<prepared, prewrite, reservations, write_evidence, turn_facts, reconciliations, Slots, Followups,
                     native, step>>
  BY DEF AdmitClaim, AdmitClaimRow, dispatchVars, evidenceVars, coordVars, nativeVars, Slots, Followups, TypeOK,
     StoreTypeOK
<1>2. \A a \in Attempts : RowsOrdered(a)' /\ AcceptedHolds(a)'
  BY <1>1 DEF PhasesInv, RowsOrdered, AcceptedHolds
<1>3. FollowupsHold'
  BY <1>1 DEF PhasesInv, Slots, Followups, FollowupsHold, FollowedUp
<1>4. WritingApart' /\ OutcomeHolds'
  BY <1>1 DEF PhasesInv, Slots, Followups, WritingApart, OutcomeHolds
<1> QED BY <1>2, <1>3, <1>4 DEF PhasesInv

LEMMA PhasesPrepare ==
    ASSUME TypeOK, PhasesInv, NEW x \in Attempts, Prepare(x) PROVE PhasesInv'
<1>1. /\ prepared' \in {prepared, prepared \cup {x}} /\ (prepared' # prepared => attachments[x] # NoBirth)
      /\ UNCHANGED <<attachments, prewrite, reservations, write_evidence, turn_facts, reconciliations, writing, outcome,
                     Followups, native, step>>
  BY DEF Prepare, ValidAttachment, RecordDispatchPrepared, storeVars, claimVars, dispatchVars, evidenceVars, nativeVars,
     Followups
<1>2. \A a \in Attempts : RowsOrdered(a)' /\ AcceptedHolds(a)'
  BY <1>1 DEF PhasesInv, RowsOrdered, AcceptedHolds
<1>3. FollowupsHold'
  BY <1>1 DEF PhasesInv, Followups, FollowupsHold, FollowedUp
<1>4. WritingApart' /\ OutcomeHolds'
  BY <1>1 DEF PhasesInv, Followups, WritingApart, OutcomeHolds
<1> QED BY <1>2, <1>3, <1>4 DEF PhasesInv

\* A probe concerns an attempt without a reservation, so none that is followed up.
LEMMA PhasesProbe ==
    ASSUME TypeOK, WriteProtocol, CoreInv, PhasesInv,
           AuthorizeProbeRefused \/ AuthorizeProbeActive \/ AuthorizeProbeUnproven \/ AuthorizeProbeIdle
    PROVE  PhasesInv'
<1> USE DEF TypeOK, StoreTypeOK, HostTypeOK
<1>1. /\ probing \in Attempts /\ step = Idle /\ step' = Idle
      /\ UNCHANGED <<attachments, prepared, write_evidence, turn_facts, reconciliations, Followups, native>>
  BY DEF AuthorizeProbeRefused, AuthorizeProbeActive, AuthorizeProbeUnproven, AuthorizeProbeIdle, TakeProbing, Ready,
     RecordActiveHold, RecordPrewriteConclusion, ReserveNativeTurnWrite, storeVars, claimVars, dispatchVars,
     evidenceVars, nativeVars, Followups
<1>2. reservations[probing] = "none" /\ prewrite[probing] = "none" /\ probing \in prepared /\ probing # writing
  BY <1>1 DEF CoreInv, SlotsFresh, WriteProtocol, ClaimedAndOwned, Refuted, NoAttempt, Attempts
<1>3. /\ \A a \in Attempts : a # probing => prewrite'[a] = prewrite[a] /\ reservations'[a] = reservations[a]
      /\ reservations'[probing] \in {"none", "open"}
  BY <1>1, <1>2 DEF AuthorizeProbeRefused, AuthorizeProbeActive, AuthorizeProbeUnproven, AuthorizeProbeIdle,
     RecordActiveHold, RecordPrewriteConclusion, ReserveNativeTurnWrite, storeVars, dispatchVars
<1>4. \A a \in Attempts : RowsOrdered(a)' /\ AcceptedHolds(a)'
  BY <1>1, <1>2, <1>3 DEF PhasesInv, RowsOrdered, AcceptedHolds
<1>5. probing # observing.attempt /\ probing # reconciling.attempt
  BY <1>1, <1>2 DEF PhasesInv, FollowupsHold, FollowedUp, NoScope, Scope, NoAttempt, Attempts
<1>6. FollowupsHold'
  <2>1. /\ observing # NoScope => FollowedUp(observing.attempt)'
        /\ reconciling # NoScope => FollowedUp(reconciling.attempt)'
    BY <1>1, <1>3, <1>5, ScopeMembers DEF PhasesInv, FollowupsHold, FollowedUp, Followups
  <2> QED BY <1>1, <2>1 DEF FollowupsHold, Followups, Idle, FollowedUp
<1>7. WritingApart' /\ OutcomeHolds'
  <2>1. CASE UNCHANGED <<writing, outcome>>
    BY <2>1, <1>1, <1>2, <1>3 DEF PhasesInv, Followups, WritingApart, OutcomeHolds
  <2>2. CASE AuthorizeProbeIdle
    <3>1. writing' = probing /\ outcome' = NoOutcome /\ prewrite' = prewrite
      BY <2>2 DEF AuthorizeProbeIdle, ReserveNativeTurnWrite
    <3>2. RowsOrdered(probing)
      BY <1>1 DEF PhasesInv
    <3> QED BY <3>1, <3>2, <1>1, <1>2, <1>5 DEF RowsOrdered, Followups, WritingApart, OutcomeHolds, NoOutcome, EvidenceOf
  <2> QED BY <2>1, <2>2 DEF AuthorizeProbeRefused, AuthorizeProbeActive, AuthorizeProbeUnproven
<1> QED BY <1>4, <1>6, <1>7 DEF PhasesInv

LEMMA PhasesWriteNothing ==
    ASSUME TypeOK, WriteProtocol, CoreInv, PhasesInv, NEW o \in Outcomes, WriteNothing(o)
    PROVE  PhasesInv'
<1>1. /\ UNCHANGED <<Dispatch, probing, writing, Followups, native, step>>
      /\ outcome' = o /\ o.kind \notin {"WriterAccepted", "ExactResponse"} /\ writing \in Attempts /\ outcome = NoOutcome
  BY DEF WriteNothing, Dispatch, Followups, storeVars, claimVars, dispatchVars, evidenceVars, nativeVars, TypeOK,
     HostTypeOK
<1>2. native[writing] = "none"
  BY <1>1 DEF WriteNothing, WriteProtocol, CoreInv, RecordsHold, RecordHolds
<1>3. \A a \in Attempts : RowsOrdered(a)' /\ AcceptedHolds(a)'
  BY <1>1 DEF PhasesInv, Dispatch, RowsOrdered, AcceptedHolds
<1>4. FollowupsHold' /\ WritingApart' /\ OutcomeHolds'
  BY <1>1, <1>2 DEF PhasesInv, Dispatch, Followups, FollowupsHold, FollowedUp, WritingApart, OutcomeHolds
<1> QED BY <1>3, <1>4 DEF PhasesInv

\* A write is of an attempt that the server has not seen, and a positive answer says
\* that it runs.
LEMMA PhasesWrite ==
    ASSUME TypeOK, WriteProtocol, CoreInv, PhasesInv, NEW o \in Outcomes, NEW n \in NativeStates,
           WriteReservedTurn(o, n)
    PROVE  PhasesInv'
<1> USE DEF TypeOK, StoreTypeOK, HostTypeOK, NativeTypeOK
<1>1. /\ writing \in Attempts /\ writing # NoAttempt /\ outcome' = o /\ native' = [native EXCEPT ![writing] = n]
      /\ UNCHANGED <<Dispatch, probing, writing, Followups, step>>
  BY DEF WriteReservedTurn, Dispatch, Followups, claimVars, dispatchVars, evidenceVars
<1>2. /\ o.kind \in {"WriterAccepted", "ExactResponse"} => n \in {"running", "finished"}
      /\ o.kind # "IdleEpochInvalidated"
  BY DEF WriteReservedTurn, WriteAnswer
<1>3. \A a \in Attempts : RowsOrdered(a)' /\ AcceptedHolds(a)'
  <2> TAKE a \in Attempts
  <2>1. CASE a # writing
    BY <2>1, <1>1 DEF PhasesInv, Dispatch, RowsOrdered, AcceptedHolds
  <2>2. CASE a = writing
    <3>1. write_evidence[a] \in {NoEvidence, UnknownEvidence}
      BY <2>2, <1>1 DEF PhasesInv, WritingApart
    <3> QED BY <3>1, <1>1 DEF PhasesInv, Dispatch, RowsOrdered, AcceptedHolds, NoEvidence, UnknownEvidence, EvidenceOf
  <2> QED BY <2>1, <2>2
<1>4. FollowupsHold' /\ WritingApart' /\ OutcomeHolds'
  BY <1>1, <1>2 DEF PhasesInv, Dispatch, Followups, FollowupsHold, FollowedUp, WritingApart, OutcomeHolds
<1> QED BY <1>3, <1>4 DEF PhasesInv

\* What is concluded may be followed up from then on.
LEMMA PhasesConclude ==
    ASSUME TypeOK, WriteProtocol, CoreInv, PhasesInv, ConcludeRefused \/ ConcludeEpochInvalidated \/ ConcludeEvidence
    PROVE  PhasesInv'
<1> USE DEF TypeOK, StoreTypeOK, HostTypeOK
<1>1. /\ writing \in Attempts /\ writing # NoAttempt /\ writing' = NoAttempt /\ step = Idle
      /\ UNCHANGED <<attachments, prepared, turn_facts, reconciliations, native>>
  BY DEF ConcludeRefused, ConcludeEpochInvalidated, ConcludeEvidence, TakeWriting, Ready, RecordPrewriteConclusion,
     RecordNativeWriteEvidence, storeVars, claimVars, dispatchVars, evidenceVars, nativeVars
<1>2. reservations[writing] # "none" /\ writing \in prepared
  BY <1>1 DEF WriteProtocol, ClaimedAndOwned
<1>3. /\ \A a \in Attempts : a # writing =>
            /\ prewrite'[a] = prewrite[a] /\ reservations'[a] = reservations[a]
            /\ write_evidence'[a] = write_evidence[a]
      /\ reservations'[writing] # "none"
  BY <1>1, <1>2 DEF ConcludeRefused, ConcludeEpochInvalidated, ConcludeEvidence, RecordPrewriteConclusion,
     RecordNativeWriteEvidence, storeVars, dispatchVars, evidenceVars
<1>4. /\ writing # observing.attempt /\ writing # reconciling.attempt
      /\ outcome.kind \in {"WriterAccepted", "ExactResponse"} => native[writing] \in {"running", "finished"}
  BY <1>1 DEF PhasesInv, WritingApart, OutcomeHolds
<1>5. \A a \in Attempts : RowsOrdered(a)' /\ AcceptedHolds(a)'
  <2> TAKE a \in Attempts
  <2>1. CASE a # writing
    BY <2>1, <1>1, <1>3 DEF PhasesInv, RowsOrdered, AcceptedHolds
  <2>2. CASE a = writing
    <3>1. RowsOrdered(a)'
      BY <2>2, <1>1, <1>2, <1>3 DEF PhasesInv, RowsOrdered
    <3>2. write_evidence'[a] \in {write_evidence[a], outcome}
      BY <2>2 DEF ConcludeRefused, ConcludeEpochInvalidated, ConcludeEvidence, RecordPrewriteConclusion,
         RecordNativeWriteEvidence, storeVars, evidenceVars
    <3> QED BY <3>1, <3>2, <2>2, <1>1, <1>4 DEF PhasesInv, AcceptedHolds
  <2> QED BY <2>1, <2>2
<1>6. FollowupsHold'
  <2>1. CASE UNCHANGED <<Followups, step>>
    <3>1. /\ observing # NoScope => FollowedUp(observing.attempt)'
          /\ reconciling # NoScope => FollowedUp(reconciling.attempt)'
      BY <2>1, <1>3, <1>4, ScopeMembers DEF PhasesInv, FollowupsHold, FollowedUp, Followups
    <3> QED BY <2>1, <3>1, <1>1 DEF FollowupsHold, FollowedUp, Followups, Idle
  <2>2. CASE ConcludeEpochInvalidated
    BY <2>2, <1>1 DEF ConcludeEpochInvalidated, FollowupsHold, Idle
  <2>3. CASE ConcludeEvidence
    <3>1. /\ outcome.kind \in {"ProvenNotAccepted", "WriterAccepted", "ExactResponse", "Unknown"}
          /\ write_evidence'[writing] = outcome
      BY <2>3, <1>1 DEF ConcludeEvidence, RecordNativeWriteEvidence
    <3>2. CASE outcome.kind \in {"WriterAccepted", "ExactResponse"}
      <4>1. /\ UNCHANGED Followups
            /\ write_evidence'[writing].kind \in {"WriterAccepted", "ExactResponse"}
            /\ step' = Continue("conclude", writing, IF outcome.kind = "WriterAccepted" THEN "Accepted" ELSE outcome.fact)
        BY <2>3, <3>1, <3>2 DEF ConcludeEvidence, Followups
      <4>2. /\ observing # NoScope => FollowedUp(observing.attempt)'
            /\ reconciling # NoScope => FollowedUp(reconciling.attempt)'
        BY <4>1, <1>3, <1>4, ScopeMembers DEF PhasesInv, FollowupsHold, FollowedUp, Followups
      <4> QED BY <4>1, <4>2, <1>1, <1>3 DEF FollowupsHold, FollowedUp, Followups, Continue
    <3>3. CASE outcome.kind \in {"ProvenNotAccepted", "Unknown"}
      <4>1. /\ observing' = NoScope /\ step' = Idle
            /\ reconciling' # NoScope => reconciling'.attempt = writing /\ outcome.kind = "Unknown"
        BY <2>3, <3>3, <1>1 DEF ConcludeEvidence, Scope
      <4> QED BY <4>1, <3>1, <1>1, <1>3 DEF FollowupsHold, FollowedUp, Idle
    <3> QED BY <3>1, <3>2, <3>3
  <2> QED BY <2>1, <2>2, <2>3 DEF ConcludeRefused, Followups
<1>7. WritingApart' /\ OutcomeHolds'
  BY <1>1 DEF WritingApart, OutcomeHolds
<1> QED BY <1>5, <1>6, <1>7 DEF PhasesInv

\* A fact is recorded of what is followed up, and puts at most its evidence in doubt.
LEMMA PhasesFactRecorded ==
    ASSUME TypeOK, PhasesInv, NEW x \in Attempts, NEW f, NEW turn, RecordNativeTurnFact(x, f, turn),
           FollowedUp(x), x # writing, UNCHANGED <<Slots, native>>,
           observing' \in {observing, NoScope} \/ observing'.attempt = x,
           reconciling' \in {reconciling, NoScope} \/ reconciling'.attempt = x,
           step' \in {step, Idle}
    PROVE  PhasesInv'
<1> USE DEF TypeOK, StoreTypeOK
<1>1. /\ UNCHANGED <<attachments, prepared, prewrite, reservations, reconciliations>>
      /\ \A a \in Attempts :
            /\ write_evidence'[a] \in {write_evidence[a], UnknownEvidence}
            /\ a # x => turn_facts'[a] = turn_facts[a] /\ write_evidence'[a] = write_evidence[a]
  BY DEF RecordNativeTurnFact, claimVars, dispatchVars
<1>2. UnknownEvidence.kind = "Unknown"
  BY DEF UnknownEvidence, EvidenceOf
<1>3. \A a \in Attempts : FollowedUp(a) => FollowedUp(a)'
  BY <1>1, <1>2 DEF FollowedUp
<1>4. \A a \in Attempts : RowsOrdered(a)' /\ AcceptedHolds(a)'
  <2> TAKE a \in Attempts
  <2>1. RowsOrdered(a)'
    BY <1>1 DEF PhasesInv, RowsOrdered, FollowedUp
  <2>2. AcceptedHolds(a)'
    BY <1>1, <1>2 DEF PhasesInv, AcceptedHolds
  <2> QED BY <2>1, <2>2
<1>5. FollowupsHold'
  <2>1. /\ observing' # NoScope => \E a \in Attempts : a = observing'.attempt /\ FollowedUp(a)
        /\ reconciling' # NoScope => \E a \in Attempts : a = reconciling'.attempt /\ FollowedUp(a)
    BY ScopeMembers DEF HostTypeOK, PhasesInv, FollowupsHold
  <2>2. step'.at = "conclude" =>
           writing' = NoAttempt /\ \E a \in Attempts : a = step'.attempt /\ FollowedUp(a)
    BY DEF HostTypeOK, Steps, Idle, PhasesInv, FollowupsHold, Slots
  <2> QED BY <1>3, <2>1, <2>2 DEF FollowupsHold, FollowedUp
<1>6. WritingApart'
  <2>1. writing # NoAttempt => writing \in Attempts /\ writing # observing'.attempt /\ writing # reconciling'.attempt
    BY DEF HostTypeOK, PhasesInv, WritingApart, NoScope, Scope
  <2> QED BY <1>1, <2>1 DEF PhasesInv, WritingApart, Slots
<1>7. OutcomeHolds'
  BY DEF PhasesInv, OutcomeHolds, Slots
<1> QED BY <1>4, <1>5, <1>6, <1>7 DEF PhasesInv

LEMMA PhasesFact ==
    ASSUME TypeOK, PhasesInv,
           \/ ConcludeFact \/ RecordReconciledFact
           \/ \E f \in Facts : PollAndRecordExact(f)
    PROVE  PhasesInv'
<1>1. CASE ConcludeFact
  <2>1. /\ step.at = "conclude" /\ step \in Steps
        /\ RecordNativeTurnFact(step.attempt, step.item, step.item \in TurnFacts)
        /\ UNCHANGED <<Slots, native>> /\ reconciling' = NoScope /\ observing'.attempt = step.attempt /\ step' = Idle
    BY <1>1 DEF ConcludeFact, TypeOK, HostTypeOK, nativeVars, Slots, Scope
  <2>2. step.attempt \in Attempts /\ FollowedUp(step.attempt) /\ step.attempt # writing
    BY <2>1 DEF Steps, Idle, PhasesInv, FollowupsHold, NoAttempt, Attempts
  <2>3. \E turn : RecordNativeTurnFact(step.attempt, step.item, turn)
    BY <2>1
  <2> QED BY <2>1, <2>2, <2>3, PhasesFactRecorded
<1>2. CASE RecordReconciledFact
  <2>1. /\ step.at = "reconcileFact" /\ reconciling # NoScope /\ reconciling.attempt = step.attempt
        /\ reconciling \in Scopes
        /\ RecordNativeTurnFact(step.attempt, step.item, TRUE)
        /\ UNCHANGED <<Slots, native>> /\ reconciling' = NoScope /\ step' = Idle
        /\ observing' = observing \/ observing'.attempt = step.attempt
    BY <1>2 DEF RecordReconciledFact, TypeOK, HostTypeOK, nativeVars, Slots, Scope
  <2>2. step.attempt \in Attempts /\ FollowedUp(step.attempt) /\ step.attempt # writing
    BY <2>1, ScopeMembers DEF PhasesInv, FollowupsHold, WritingApart, NoAttempt, Attempts
  <2> QED BY <2>1, <2>2, PhasesFactRecorded
<1>3. ASSUME NEW f \in Facts, PollAndRecordExact(f) PROVE PhasesInv'
  <2>1. /\ observing # NoScope /\ observing \in Scopes
        /\ RecordNativeTurnFact(observing.attempt, f, observing.turn)
        /\ UNCHANGED <<Slots, native, step>> /\ observing' \in {observing, NoScope}
        /\ reconciling' \in {observing, NoScope}
    BY <1>3 DEF PollAndRecordExact, TypeOK, HostTypeOK, nativeVars, Slots
  <2>2. observing.attempt \in Attempts /\ FollowedUp(observing.attempt) /\ observing.attempt # writing
    BY <2>1, ScopeMembers DEF PhasesInv, FollowupsHold, WritingApart, NoAttempt, Attempts
  <2> QED BY <2>1, <2>2, PhasesFactRecorded
<1> QED BY <1>1, <1>2, <1>3

\* Recovery follows up what it finds ambiguous or accepted, while nothing waits for a
\* write.
LEMMA PhasesRecovered ==
    ASSUME TypeOK, PhasesInv, RecoverAuthorityState, UNCHANGED <<Slots, native>>,
           \/ UNCHANGED Followups
           \/ /\ writing = NoAttempt
              /\ observing' # NoScope => \E a \in Attempts : observing'.attempt = a /\ FollowedUp(a)'
              /\ reconciling' # NoScope => \E a \in Attempts : reconciling'.attempt = a /\ FollowedUp(a)',
           step'.at = "conclude" => step' = step
    PROVE  PhasesInv'
<1> USE DEF TypeOK, StoreTypeOK
<1>1. /\ UNCHANGED <<attachments, prepared, prewrite, reconciliations>>
      /\ \A a \in Attempts :
            /\ write_evidence'[a] = RecoveredEvidence(a) /\ turn_facts'[a] = RecoveredFacts(a)
            /\ reservations'[a] = IF Unresolved(a) THEN "concluded" ELSE reservations[a]
  BY DEF RecoverAuthorityState, claimVars, dispatchVars
<1>2. UnknownEvidence.kind = "Unknown" /\ NoEvidence.kind = "none"
  BY DEF UnknownEvidence, NoEvidence, EvidenceOf
<1>3. \A a \in Attempts : FollowedUp(a) => FollowedUp(a)'
  BY <1>1, <1>2 DEF FollowedUp, RecoveredEvidence, Unresolved
<1>4. \A a \in Attempts : RowsOrdered(a)' /\ AcceptedHolds(a)'
  <2> TAKE a \in Attempts
  <2>1. RowsOrdered(a)'
    BY <1>1, <1>2 DEF PhasesInv, RowsOrdered, RecoveredEvidence, RecoveredFacts, Interrupted, Unresolved
  <2>2. AcceptedHolds(a)'
    BY <1>1, <1>2 DEF PhasesInv, AcceptedHolds, RecoveredEvidence
  <2> QED BY <2>1, <2>2
<1>5. FollowupsHold'
  <2>1. /\ observing' # NoScope => \E a \in Attempts : a = observing'.attempt /\ FollowedUp(a)'
        /\ reconciling' # NoScope => \E a \in Attempts : a = reconciling'.attempt /\ FollowedUp(a)'
    BY <1>3, ScopeMembers DEF HostTypeOK, PhasesInv, FollowupsHold, Followups
  <2>2. step'.at = "conclude" =>
           writing' = NoAttempt /\ \E a \in Attempts : a = step'.attempt /\ FollowedUp(a)'
    BY <1>3 DEF HostTypeOK, Steps, Idle, PhasesInv, FollowupsHold, Slots
  <2> QED BY <2>1, <2>2 DEF FollowupsHold, FollowedUp
<1>6. WritingApart' /\ OutcomeHolds'
  <2>1. writing \in Attempts /\ write_evidence[writing] \in {NoEvidence, UnknownEvidence} =>
           /\ write_evidence'[writing] \in {NoEvidence, UnknownEvidence}
           /\ turn_facts'[writing] = turn_facts[writing]
    BY <1>1, <1>2 DEF RecoveredEvidence, RecoveredFacts
  <2> QED BY <1>1, <2>1 DEF HostTypeOK, PhasesInv, WritingApart, OutcomeHolds, Slots, Followups
<1> QED BY <1>4, <1>5, <1>6 DEF PhasesInv

LEMMA PhasesRecover ==
    ASSUME TypeOK, PhasesInv, DownEmpty,
           \/ \E d \in Reconciliations : ReconcileCodex(d)
           \/ ReconcileCodexRejected \/ Recover
    PROVE  PhasesInv'
<1>1. CASE ReconcileCodexRejected \/ \E d \in Reconciliations : ReconcileCodex(d)
  <2>1. /\ RecoverAuthorityState /\ UNCHANGED <<Slots, native>> /\ UNCHANGED Followups
        /\ step'.at = "conclude" => step' = step
    BY <1>1 DEF ReconcileCodex, ReconcileCodexRejected, coordVars, nativeVars, Slots, Followups, Continue
  <2> QED BY <2>1, PhasesRecovered
<1>2. CASE Recover
  <2>1. RecoverAuthorityState /\ UNCHANGED <<Slots, native>> /\ step' = step /\ writing = NoAttempt
    BY <1>2 DEF Recover, DownEmpty, nativeVars, Slots
  <2>2. ASSUME NEW a \in Attempts, RecoveredObserving(a) \/ RecoveredReconciling(a) PROVE FollowedUp(a)'
    <3>1. /\ write_evidence'[a] = RecoveredEvidence(a)
          /\ reservations'[a] = IF Unresolved(a) THEN "concluded" ELSE reservations[a]
      BY <2>1 DEF RecoverAuthorityState
    <3>2. RecoveredEvidence(a).kind \in {"WriterAccepted", "ExactResponse", "Unknown"}
      BY <2>2 DEF RecoveredObserving, RecoveredReconciling, UnknownEvidence, EvidenceOf
    <3>3. Unresolved(a) \/ write_evidence[a] # NoEvidence
      BY <3>2 DEF RecoveredEvidence, NoEvidence, EvidenceOf
    <3>4. RowsOrdered(a)
      BY DEF PhasesInv
    <3> QED BY <3>1, <3>2, <3>3, <3>4 DEF FollowedUp, RowsOrdered
  <2>3. /\ \A s \in ObservationScopes : \E a \in Attempts : s.attempt = a /\ RecoveredObserving(a)
        /\ \A s \in ReconciliationScopes : \E a \in Attempts : s.attempt = a /\ RecoveredReconciling(a)
    BY DEF ObservationScopes, ReconciliationScopes, Scope
  <2>4. CASE UNCHANGED Followups
    BY <2>1, <2>4, PhasesRecovered
  <2>5. CASE /\ observing' # NoScope => observing' \in ObservationScopes
             /\ reconciling' # NoScope => reconciling' \in ReconciliationScopes
    <3>1. /\ observing' # NoScope => \E a \in Attempts : observing'.attempt = a /\ FollowedUp(a)'
          /\ reconciling' # NoScope => \E a \in Attempts : reconciling'.attempt = a /\ FollowedUp(a)'
      BY <2>2, <2>3, <2>5
    <3> QED BY <2>1, <3>1, PhasesRecovered
  <2> QED BY <1>2, <2>4, <2>5 DEF Recover, Followups
<1> QED BY <1>1, <1>2

LEMMA PhasesReconciliation ==
    ASSUME TypeOK, PhasesInv, RecordReconciliation PROVE PhasesInv'
<1> USE DEF TypeOK, StoreTypeOK, HostTypeOK
<1>1. /\ RecordReconciliationFact(reconciling, step.item)
      /\ reconciling # NoScope /\ reconciling' \in {reconciling, NoScope} /\ observing' = observing
      /\ step'.at # "conclude" /\ UNCHANGED <<Slots, native>>
  BY DEF RecordReconciliation, Slots, nativeVars, Idle, Continue
<1>2. /\ reconciling.attempt \in Attempts /\ reservations[reconciling.attempt] # "none"
      /\ reconciling.attempt # writing
  BY <1>1, ScopeMembers DEF PhasesInv, FollowupsHold, FollowedUp, WritingApart, NoAttempt, Attempts
<1>3. /\ UNCHANGED <<attachments, prepared, prewrite, reservations, write_evidence, turn_facts>>
      /\ \A a \in Attempts : a # reconciling.attempt => reconciliations'[a] = reconciliations[a]
  BY <1>1, <1>2 DEF RecordReconciliationFact, claimVars, dispatchVars
<1>4. \A a \in Attempts : RowsOrdered(a)' /\ AcceptedHolds(a)'
  BY <1>1, <1>2, <1>3 DEF PhasesInv, RowsOrdered, AcceptedHolds
<1>5. FollowupsHold'
  BY <1>1, <1>3 DEF PhasesInv, FollowupsHold, FollowedUp
<1>6. WritingApart'
  <2>1. writing # NoAttempt => writing \in Attempts /\ writing # reconciling'.attempt
    BY <1>1 DEF PhasesInv, WritingApart, NoScope, Scope
  <2> QED BY <1>1, <1>2, <1>3, <2>1 DEF PhasesInv, WritingApart, Slots
<1>7. OutcomeHolds'
  BY <1>1 DEF PhasesInv, OutcomeHolds, Slots
<1> QED BY <1>4, <1>5, <1>6, <1>7 DEF PhasesInv

LEMMA PhasesCrash ==
    ASSUME TypeOK, PhasesInv, Crash PROVE PhasesInv'
<1>1. /\ UNCHANGED <<Dispatch, native>> /\ writing' = NoAttempt /\ step' = Idle
      /\ observing' = NoScope /\ reconciling' = NoScope
  BY DEF Crash, LoseMemory, storeVars, claimVars, dispatchVars, evidenceVars, nativeVars, Dispatch
<1>2. \A a \in Attempts : RowsOrdered(a)' /\ AcceptedHolds(a)'
  BY <1>1 DEF PhasesInv, Dispatch, RowsOrdered, AcceptedHolds
<1> QED BY <1>1, <1>2 DEF PhasesInv, FollowupsHold, WritingApart, OutcomeHolds, Idle

LEMMA PhasesProgress ==
    ASSUME TypeOK, PhasesInv, NEW x \in Attempts, NativeProgress(x) PROVE PhasesInv'
<1>1. /\ UNCHANGED <<Dispatch, Slots, Followups, step>>
      /\ \A a \in Attempts :
            /\ native[a] \in {"running", "finished"} => native'[a] \in {"running", "finished"}
            /\ native[a] = "none" => native'[a] = "none"
  BY DEF NativeProgress, storeVars, claimVars, dispatchVars, evidenceVars, coordVars, Dispatch, Slots, Followups,
     TypeOK, NativeTypeOK
<1>2. \A a \in Attempts : RowsOrdered(a)' /\ AcceptedHolds(a)'
  BY <1>1 DEF PhasesInv, Dispatch, RowsOrdered, AcceptedHolds
<1>3. FollowupsHold' /\ WritingApart'
  BY <1>1 DEF PhasesInv, Dispatch, Slots, Followups, FollowupsHold, FollowedUp, WritingApart
<1>4. OutcomeHolds'
  BY <1>1 DEF PhasesInv, Slots, OutcomeHolds, TypeOK, HostTypeOK
<1> QED BY <1>2, <1>3, <1>4 DEF PhasesInv

\* Nothing is put in writing while the host is down.
LEMMA DownStaysEmpty ==
    ASSUME TypeOK, DownEmpty, Operation PROVE DownEmpty'
<1>1. CASE status' = "up" \/ writing' = NoAttempt \/ (writing' = writing /\ status = "down")
           \/ UNCHANGED <<writing, status>>
  BY <1>1 DEF DownEmpty
<1>2. CASE Crash \/ Recover
  BY <1>2, <1>1 DEF Crash, LoseMemory, Recover
<1>3. ASSUME status' = status, status = "up" PROVE DownEmpty'
  BY <1>3, <1>1
<1>4. ASSUME NEW b \in Births, LeaseExpires(b) \/ ThreadProgress(b) PROVE DownEmpty'
  BY <1>4, <1>1 DEF LeaseExpires, ThreadProgress, coordVars
<1>5. ASSUME NEW a \in Attempts, NativeProgress(a) PROVE DownEmpty'
  BY <1>5, <1>1 DEF NativeProgress, coordVars
<1>6. Operation =>
         \/ Crash \/ Recover
         \/ status' = status /\ status = "up"
         \/ \E b \in Births : LeaseExpires(b) \/ ThreadProgress(b)
         \/ \E a \in Attempts : NativeProgress(a)
  BY DEF Operation, Ready, RegisterManagedArm, ReserveControllerBirth, ResolveThreadCreate, CreateOwned, ReceiveLate,
     AdmitClaim, Prepare, RevokeAttachment, AuthorizeProbeRefused, AuthorizeProbeActive, AuthorizeProbeUnproven,
     AuthorizeProbeIdle, TakeProbing, WriteNothing, WriteReservedTurn, ConcludeRefused, ConcludeEpochInvalidated,
     ConcludeEvidence, TakeWriting, ConcludeFact, StoreCallFails, PollAndRecordExact, PollRefused, ReconcileCodex,
     ReconcileScripted, ReconcileCodexRejected, RecordReconciliation, RecordReconciledFact
<1> QED BY <1>2, <1>3, <1>4, <1>5, <1>6

LEMMA PhasesStep ==
    ASSUME TypeOK, WriteProtocol, CoreInv, PhasesInv, DownEmpty, Operation PROVE PhasesInv'
<1> DEFINE Quiet == UNCHANGED <<Dispatch, Slots, Followups, native>> /\ (step'.at = "conclude" => step' = step)
<1>1. Quiet => PhasesInv'
  BY PhasesQuiet
<1>2. ASSUME NEW b \in Births,
             \/ ReserveControllerBirth(b) \/ ResolveThreadCreate(b) \/ LeaseExpires(b) \/ ThreadProgress(b)
             \/ \E result \in CreateResults : CreateOwned(b, result) \/ ReceiveLate(b, result)
      PROVE  Quiet
  <2>1. CASE ReserveControllerBirth(b) \/ ResolveThreadCreate(b)
    BY <2>1 DEF ReserveControllerBirth, ReserveBirthRow, ResolveThreadCreate, ResolveCreateRow, Dispatch, Slots,
       Followups, storeVars, claimVars, dispatchVars, evidenceVars, coordVars, nativeVars
  <2>2. CASE LeaseExpires(b) \/ ThreadProgress(b)
    BY <2>2 DEF LeaseExpires, ThreadProgress, Dispatch, Slots, Followups, storeVars, claimVars, dispatchVars,
       evidenceVars, coordVars
  <2>3. CASE \E result \in CreateResults : CreateOwned(b, result) \/ ReceiveLate(b, result)
    BY <2>3 DEF CreateOwned, ReceiveLate, Dispatch, Slots, Followups, storeVars, claimVars, dispatchVars, evidenceVars,
       coordVars, nativeVars
  <2> QED BY <1>2, <2>1, <2>2, <2>3
<1>3. ASSUME \/ \E m \in Arms, g \in Gens : RegisterManagedArm(m, g)
             \/ \E a \in Attempts : RevokeAttachment(a)
             \/ StoreCallFails
      PROVE  Quiet
  BY <1>3 DEF RegisterManagedArm, PersistArm, RevokeAttachment, RevokeAttachmentRow, StoreCallFails, Dispatch, Slots,
     Followups, storeVars, claimVars, dispatchVars, evidenceVars, coordVars, nativeVars, Idle
<1>4. ASSUME \/ \E f \in Facts : PollRefused(f)
             \/ \E d \in Reconciliations : ReconcileScripted(d)
      PROVE  Quiet
  BY <1>4 DEF PollRefused, ReconcileScripted, Dispatch, Slots, Followups, storeVars, claimVars, dispatchVars,
     evidenceVars, coordVars, nativeVars, Continue
<1>5. CASE \/ \E r \in Requests, m \in Arms : AdmitClaim(r, m)
           \/ \E a \in Attempts : Prepare(a) \/ NativeProgress(a)
  BY <1>5, PhasesAdmit, PhasesPrepare, PhasesProgress
<1>6. CASE \/ \E o \in Outcomes : WriteNothing(o)
           \/ \E o \in Outcomes, n \in NativeStates : WriteReservedTurn(o, n)
  BY <1>6, PhasesWriteNothing, PhasesWrite
<1>7. Operation =>
         \/ \E b \in Births :
               \/ ReserveControllerBirth(b) \/ ResolveThreadCreate(b) \/ LeaseExpires(b) \/ ThreadProgress(b)
               \/ \E result \in CreateResults : CreateOwned(b, result) \/ ReceiveLate(b, result)
         \/ \E m \in Arms, g \in Gens : RegisterManagedArm(m, g)
         \/ \E a \in Attempts : RevokeAttachment(a)
         \/ StoreCallFails
         \/ \E f \in Facts : PollRefused(f)
         \/ \E d \in Reconciliations : ReconcileScripted(d)
         \/ \E r \in Requests, m \in Arms : AdmitClaim(r, m)
         \/ \E a \in Attempts : Prepare(a) \/ NativeProgress(a)
         \/ \E o \in Outcomes : WriteNothing(o)
         \/ \E o \in Outcomes, n \in NativeStates : WriteReservedTurn(o, n)
         \/ AuthorizeProbeRefused \/ AuthorizeProbeActive \/ AuthorizeProbeUnproven \/ AuthorizeProbeIdle
         \/ ConcludeRefused \/ ConcludeEpochInvalidated \/ ConcludeEvidence
         \/ ConcludeFact \/ RecordReconciledFact
         \/ \E f \in Facts : PollAndRecordExact(f)
         \/ \E d \in Reconciliations : ReconcileCodex(d)
         \/ ReconcileCodexRejected \/ Recover
         \/ RecordReconciliation \/ Crash
  BY DEF Operation
<1> HIDE DEF Quiet
<1> QED BY <1>1, <1>2, <1>3, <1>4, <1>5, <1>6, <1>7, PhasesProbe, PhasesConclude, PhasesFact, PhasesRecover,
           PhasesReconciliation, PhasesCrash

PathInv == TypeOK /\ WriteProtocol /\ CoreInv /\ PhasesInv /\ DownEmpty

LEMMA PathInvariant == Spec => []PathInv
<1>1. Init => PathInv
  BY TypeInit, WriteProtocolInit, RecordsInit, PhasesInit DEF PathInv, RecordsInv, CoreInv, DownEmpty, Init
<1>2. PathInv /\ [Next]_vars => PathInv'
  <2> SUFFICES ASSUME PathInv, [Next]_vars PROVE PathInv'
    OBVIOUS
  <2>1. CASE Next
    <3>1. TypeOK' /\ WriteProtocol'
      BY <2>1, TypeStep, WriteProtocolStep DEF Next, PathInv
    <3> QED BY <2>1, <3>1, RecordsStep, PhasesStep, DownStaysEmpty DEF Next, PathInv
  <2>2. CASE UNCHANGED vars
    <3>1. UNCHANGED <<Rows, Slots, Dispatch, Followups, native, step, status>>
      BY <2>2 DEF vars, storeVars, claimVars, dispatchVars, evidenceVars, coordVars, ctlVars, nativeVars, Rows, Slots,
         Dispatch, Followups
    <3>2. WriteProtocol'
      BY <2>2 DEF vars, storeVars, birthVars, claimVars, dispatchVars, coordVars, nativeVars, WriteProtocol,
         ClaimedAndOwned, PathInv
    <3>3. CoreInv' /\ PhasesInv'
      BY <3>1, QuietStep, PhasesQuiet DEF PathInv
    <3>4. DownEmpty'
      BY <3>1 DEF PathInv, DownEmpty, Slots
    <3> QED BY <2>2, <3>2, <3>3, <3>4, TypeStep DEF PathInv
  <2> QED BY <2>1, <2>2
<1> QED BY <1>1, <1>2, PTL DEF Spec

-----------------------------------------------------------------------------
(* Every step is one of the contract *)

\* The step of what is known about one attempt.
Learns(a) == Phase(a)' = Phase(a) \/ Contract!May(Phase(a), Phase(a)', native[a])

LEMMA PhaseStays ==
    ASSUME NEW a \in Attempts, attachments'[a] = attachments[a], (a \in prepared') = (a \in prepared),
           prewrite'[a] = prewrite[a], reservations'[a] = reservations[a], write_evidence'[a] = write_evidence[a],
           turn_facts'[a] = turn_facts[a], reconciliations'[a] = reconciliations[a]
    PROVE  Phase(a)' = Phase(a)
BY DEF Phase

\* The phase of an attempt with a reservation and nothing refuted or ended.
LEMMA OpenPhase ==
    ASSUME TypeOK, WriteProtocol, NEW a \in Attempts, reservations[a] # "none", prewrite[a] = "none",
           "Terminal" \notin turn_facts[a], write_evidence[a].kind # "ProvenNotAccepted",
           reconciliations[a] # "ProvenNotAccepted"
    PROVE  /\ write_evidence[a] = NoEvidence => Phase(a) = "reserved"
           /\ write_evidence[a] = UnknownEvidence => Phase(a) = "ambiguous"
           /\ write_evidence[a] \notin {NoEvidence, UnknownEvidence} => Phase(a) = "accepted"
BY EvidenceMembers DEF WriteProtocol, ClaimedAndOwned, Phase

LEMMA LearnsClaim ==
    ASSUME TypeOK, PhasesInv, NEW a \in Attempts,
           \/ \E r \in Requests, m \in Arms : AdmitClaim(r, m)
           \/ \E x \in Attempts : Prepare(x)
    PROVE  Learns(a)
<1>1. ASSUME NEW r \in Requests, NEW m \in Arms, AdmitClaim(r, m) PROVE Learns(a)
  <2>1. /\ UNCHANGED <<prepared, prewrite, reservations, write_evidence, turn_facts, reconciliations>>
        /\ attachments'[a] # attachments[a] => attachments[a] = NoBirth /\ attachments'[a] # NoBirth
    BY <1>1 DEF AdmitClaim, AdmitClaimRow, dispatchVars, evidenceVars, TypeOK, StoreTypeOK, NoBirth
  <2>2. CASE attachments'[a] # attachments[a]
    <3>1. /\ a \notin prepared /\ prewrite[a] = "none" /\ reservations[a] = "none"
          /\ write_evidence[a] = NoEvidence /\ turn_facts[a] = {} /\ reconciliations[a] = "none"
      BY <2>1, <2>2 DEF PhasesInv, RowsOrdered
    <3>2. Phase(a) = "unclaimed" /\ Phase(a)' = "claimed"
      BY <2>1, <2>2, <3>1, EvidenceMembers DEF Phase, NoEvidence, EvidenceOf
    <3> QED BY <3>2 DEF Learns, Contract!May, Contract!Before
  <2> QED BY <2>1, <2>2, PhaseStays DEF Learns
<1>2. ASSUME NEW x \in Attempts, Prepare(x) PROVE Learns(a)
  <2>1. /\ prepared' \in {prepared, prepared \cup {x}} /\ (prepared' # prepared => attachments[x] # NoBirth)
        /\ UNCHANGED <<attachments, prewrite, reservations, write_evidence, turn_facts, reconciliations>>
    BY <1>2 DEF Prepare, ValidAttachment, RecordDispatchPrepared, storeVars, claimVars, dispatchVars, evidenceVars
  <2>2. CASE a \notin prepared /\ a \in prepared'
    <3>1. /\ a = x /\ attachments[a] # NoBirth /\ prewrite[a] = "none" /\ reservations[a] = "none"
          /\ write_evidence[a] = NoEvidence /\ turn_facts[a] = {} /\ reconciliations[a] = "none"
      BY <2>1, <2>2 DEF PhasesInv, RowsOrdered
    <3>2. Phase(a) = "claimed" /\ Phase(a)' = "prepared"
      BY <2>1, <2>2, <3>1, EvidenceMembers DEF Phase, NoEvidence, EvidenceOf
    <3> QED BY <3>2 DEF Learns, Contract!May, Contract!Before
  <2>3. CASE (a \in prepared') = (a \in prepared)
    BY <2>1, <2>3, PhaseStays DEF Learns
  <2> QED BY <2>1, <2>2, <2>3
<1> QED BY <1>1, <1>2

LEMMA LearnsProbe ==
    ASSUME TypeOK, WriteProtocol, CoreInv, PhasesInv, NEW a \in Attempts,
           AuthorizeProbeRefused \/ AuthorizeProbeActive \/ AuthorizeProbeUnproven \/ AuthorizeProbeIdle
    PROVE  Learns(a)
<1> USE DEF TypeOK, StoreTypeOK, HostTypeOK, NativeTypeOK
<1>1. /\ probing \in Attempts /\ probing # NoAttempt
      /\ UNCHANGED <<attachments, prepared, write_evidence, turn_facts, reconciliations>>
  BY DEF AuthorizeProbeRefused, AuthorizeProbeActive, AuthorizeProbeUnproven, AuthorizeProbeIdle, TakeProbing,
     RecordActiveHold, RecordPrewriteConclusion, ReserveNativeTurnWrite, storeVars, claimVars, dispatchVars,
     evidenceVars
<1>2. /\ reservations[probing] = "none" /\ prewrite[probing] = "none" /\ probing \in prepared
      /\ attachments[probing] # NoBirth /\ native[probing] = "none"
  BY <1>1 DEF CoreInv, SlotsFresh, WriteProtocol, ClaimedAndOwned, Refuted, RecordsHold, RecordHolds
<1>3. write_evidence[probing] = NoEvidence /\ turn_facts[probing] = {} /\ reconciliations[probing] = "none"
  BY <1>1, <1>2 DEF PhasesInv, RowsOrdered
<1>4. \/ UNCHANGED <<prewrite, reservations>>
      \/ /\ reservations' = reservations
         /\ \E c \in Conclusions \ {"none"} : prewrite' = [prewrite EXCEPT ![probing] = c]
      \/ prewrite' = prewrite /\ reservations' = [reservations EXCEPT ![probing] = "open"]
  <2>1. CASE AuthorizeProbeRefused
    BY <2>1 DEF AuthorizeProbeRefused, storeVars, dispatchVars
  <2>2. CASE AuthorizeProbeActive
    BY <2>2 DEF AuthorizeProbeActive, RecordActiveHold, Conclusions
  <2>3. CASE AuthorizeProbeUnproven
    <3>1. reservations' = reservations
      BY <2>3, <1>1, <1>2 DEF AuthorizeProbeUnproven, RecordPrewriteConclusion
    <3> QED BY <2>3, <3>1 DEF AuthorizeProbeUnproven, RecordPrewriteConclusion, Conclusions
  <2>4. CASE AuthorizeProbeIdle
    BY <2>4 DEF AuthorizeProbeIdle, ReserveNativeTurnWrite
  <2> QED BY <2>1, <2>2, <2>3, <2>4
<1>5. CASE a # probing
  BY <1>1, <1>4, <1>5, PhaseStays DEF Learns
<1>6. CASE a = probing
  <2>1. Phase(a) = "prepared"
    BY <1>6, <1>2, <1>3, EvidenceMembers DEF Phase, NoEvidence, EvidenceOf
  <2>2. Phase(a)' \in {"prepared", "held", "reserved"}
    BY <1>6, <1>1, <1>2, <1>3, <1>4, EvidenceMembers DEF Phase, NoEvidence, EvidenceOf
  <2> QED BY <2>1, <2>2, <1>2, <1>6 DEF Learns, Contract!May, Contract!Before, Contract!Excluded
<1> QED BY <1>5, <1>6

LEMMA LearnsConclude ==
    ASSUME TypeOK, WriteProtocol, CoreInv, PhasesInv, NEW a \in Attempts,
           ConcludeRefused \/ ConcludeEpochInvalidated \/ ConcludeEvidence
    PROVE  Learns(a)
<1> USE DEF TypeOK, StoreTypeOK, HostTypeOK
<1>1. /\ writing \in Attempts /\ writing # NoAttempt
      /\ UNCHANGED <<attachments, prepared, turn_facts, reconciliations>>
  BY DEF ConcludeRefused, ConcludeEpochInvalidated, ConcludeEvidence, TakeWriting, RecordPrewriteConclusion,
     RecordNativeWriteEvidence, storeVars, claimVars, dispatchVars, evidenceVars
<1>2. /\ reservations[writing] # "none" /\ attachments[writing] # NoBirth
      /\ prewrite[writing] = "none" /\ turn_facts[writing] = {} /\ reconciliations[writing] = "none"
      /\ write_evidence[writing] \in {NoEvidence, UnknownEvidence}
  BY <1>1 DEF WriteProtocol, ClaimedAndOwned, PhasesInv, WritingApart
<1>3. NoEvidence.kind = "none" /\ UnknownEvidence.kind = "Unknown"
  BY DEF NoEvidence, UnknownEvidence, EvidenceOf
<1>4. /\ write_evidence[writing] = NoEvidence => Phase(writing) = "reserved"
      /\ Phase(writing) \in {"reserved", "ambiguous"}
  BY <1>1, <1>2, <1>3, OpenPhase
<1>5. CASE a # writing
  <2>1. /\ prewrite'[a] = prewrite[a] /\ reservations'[a] = reservations[a]
        /\ write_evidence'[a] = write_evidence[a]
    BY <1>1, <1>5 DEF ConcludeRefused, ConcludeEpochInvalidated, ConcludeEvidence, RecordPrewriteConclusion,
       RecordNativeWriteEvidence, storeVars, dispatchVars, evidenceVars
  <2> QED BY <2>1, <1>1, PhaseStays DEF Learns
<1>6. CASE a = writing /\ ConcludeRefused
  BY <1>6, <1>1, PhaseStays DEF ConcludeRefused, storeVars, dispatchVars, evidenceVars, Learns
<1>7. CASE a = writing /\ ConcludeEpochInvalidated
  <2>1. prewrite'[a] = "IdleEpochInvalidated" /\ native[a] = "none"
    BY <1>1, <1>7 DEF ConcludeEpochInvalidated, RecordPrewriteConclusion, PhasesInv, OutcomeHolds
  <2>2. Phase(a)' = "held"
    BY <2>1, <1>1, <1>2, <1>7 DEF Phase
  <2> QED BY <2>1, <2>2, <1>4, <1>7 DEF Learns, Contract!May, Contract!Excluded
<1>8. CASE a = writing /\ ConcludeEvidence
  <2>1. /\ prewrite' = prewrite /\ write_evidence'[a] = outcome /\ write_evidence[a] = NoEvidence
        /\ outcome.kind \in {"ProvenNotAccepted", "WriterAccepted", "ExactResponse", "Unknown"}
    BY <1>1, <1>8 DEF ConcludeEvidence, RecordNativeWriteEvidence, EvidenceRecordable, dispatchVars
  <2>2. /\ outcome.kind = "ProvenNotAccepted" => native[a] \in {"none", "refused"}
        /\ outcome.kind \in {"WriterAccepted", "ExactResponse"} => native[a] \in {"running", "finished"}
    BY <1>1, <1>8 DEF CoreInv, AnswersHold, PhasesInv, OutcomeHolds
  <2>3. outcome.kind = "Unknown" => outcome = UnknownEvidence
    BY DEF Outcomes, UnknownEvidence, EvidenceOf, ExactResponse
  <2>4. /\ outcome.kind = "ProvenNotAccepted" => Phase(a)' = "refused"
        /\ outcome.kind = "Unknown" => Phase(a)' = "ambiguous"
        /\ outcome.kind \in {"WriterAccepted", "ExactResponse"} => Phase(a)' = "accepted"
    BY <2>1, <2>3, <1>1, <1>2, <1>3, <1>8 DEF Phase
  <2>5. Phase(a) = "reserved"
    BY <2>1, <1>4, <1>8
  <2> QED BY <2>1, <2>2, <2>4, <2>5 DEF Learns, Contract!May, Contract!Excluded, Contract!Doubted, Contract!Proven
<1> QED BY <1>5, <1>6, <1>7, <1>8

\* A fact ends a turn that has finished, or puts an accepted one in doubt.
LEMMA LearnsFactRecorded ==
    ASSUME TypeOK, WriteProtocol, CoreInv, PhasesInv, NEW a \in Attempts, NEW x \in Attempts, NEW f, NEW turn,
           RecordNativeTurnFact(x, f, turn), FollowedUp(x), f = "Terminal" => native[x] = "finished"
    PROVE  Learns(a)
<1> USE DEF TypeOK, StoreTypeOK
<1>1. /\ UNCHANGED <<attachments, prepared, prewrite, reservations, reconciliations>>
      /\ \/ UNCHANGED <<turn_facts, write_evidence>>
         \/ /\ turn_facts' = [turn_facts EXCEPT ![x] = @ \cup {f}]
            /\ \/ write_evidence' = write_evidence
               \/ write_evidence' = [write_evidence EXCEPT ![x] = UnknownEvidence]
  BY DEF RecordNativeTurnFact, claimVars, dispatchVars
<1>2. CASE a # x \/ UNCHANGED <<turn_facts, write_evidence>>
  BY <1>1, <1>2, PhaseStays DEF Learns
<1>3. CASE a = x /\ turn_facts' = [turn_facts EXCEPT ![x] = @ \cup {f}]
  <2>1. /\ attachments[a] # NoBirth /\ write_evidence[a] # NoEvidence /\ write_evidence'[a] # NoEvidence
        /\ write_evidence[a].kind # "ProvenNotAccepted" /\ write_evidence'[a].kind # "ProvenNotAccepted"
        /\ write_evidence'[a] \in {write_evidence[a], UnknownEvidence}
    BY <1>1, <1>3 DEF FollowedUp, WriteProtocol, ClaimedAndOwned, NoEvidence, UnknownEvidence, EvidenceOf
  <2>2. CASE prewrite[a] # "none" \/ "Terminal" \in turn_facts[a]
    BY <2>1, <2>2, <1>1, <1>3 DEF Phase, Learns
  <2>3. CASE prewrite[a] = "none" /\ "Terminal" \notin turn_facts[a] /\ f = "Terminal"
    <3>1. native[a] = "finished" /\ reconciliations[a] # "ProvenNotAccepted"
      BY <2>3, <1>3 DEF CoreInv, RecordsHold, RecordHolds, Refuted
    <3>2. Phase(a) \in {"ambiguous", "accepted"} /\ Phase(a)' = "terminal"
      BY <2>1, <2>3, <3>1, <1>1, <1>3 DEF Phase
    <3> QED BY <3>1, <3>2 DEF Learns, Contract!May, Contract!Proven
  <2>4. CASE prewrite[a] = "none" /\ "Terminal" \notin turn_facts[a] /\ f # "Terminal"
    <3>1. CASE reconciliations[a] = "ProvenNotAccepted"
      BY <2>1, <2>4, <3>1, <1>1, <1>3 DEF Phase, Learns
    <3>2. CASE reconciliations[a] # "ProvenNotAccepted"
      <4>1. /\ Phase(a) = IF write_evidence[a] = UnknownEvidence THEN "ambiguous" ELSE "accepted"
            /\ Phase(a)' = IF write_evidence'[a] = UnknownEvidence THEN "ambiguous" ELSE "accepted"
        BY <2>1, <2>4, <3>2, <1>1, <1>3 DEF Phase
      <4> QED BY <2>1, <4>1 DEF Learns, Contract!May, Contract!Doubted
    <3> QED BY <3>1, <3>2
  <2> QED BY <2>2, <2>3, <2>4
<1> QED BY <1>1, <1>2, <1>3

LEMMA LearnsFact ==
    ASSUME TypeOK, WriteProtocol, CoreInv, PhasesInv, NEW a \in Attempts,
           \/ ConcludeFact \/ RecordReconciledFact
           \/ \E f \in Facts : PollAndRecordExact(f)
    PROVE  Learns(a)
<1>1. CASE ConcludeFact
  <2>1. /\ step.at = "conclude" /\ step \in Steps
        /\ RecordNativeTurnFact(step.attempt, step.item, step.item \in TurnFacts)
    BY <1>1 DEF ConcludeFact, TypeOK, HostTypeOK
  <2>2. /\ step.attempt \in Attempts /\ FollowedUp(step.attempt)
        /\ step.item = "Terminal" => native[step.attempt] = "finished"
    BY <2>1 DEF Steps, Idle, PhasesInv, FollowupsHold, CoreInv, AnswersHold
  <2>3. \E turn : RecordNativeTurnFact(step.attempt, step.item, turn)
    BY <2>1
  <2> QED BY <2>2, <2>3, LearnsFactRecorded
<1>2. CASE RecordReconciledFact
  <2>1. /\ reconciling # NoScope /\ reconciling.attempt = step.attempt /\ reconciling \in Scopes
        /\ RecordNativeTurnFact(step.attempt, step.item, TRUE)
    BY <1>2 DEF RecordReconciledFact, TypeOK, HostTypeOK
  <2>2. /\ step.attempt \in Attempts /\ FollowedUp(step.attempt)
        /\ step.item = "Terminal" => native[step.attempt] = "finished"
    BY <2>1, ScopeMembers DEF PhasesInv, FollowupsHold, CoreInv, AnswersHold
  <2> QED BY <2>1, <2>2, LearnsFactRecorded
<1>3. ASSUME NEW f \in Facts, PollAndRecordExact(f) PROVE Learns(a)
  <2>1. /\ observing # NoScope /\ observing \in Scopes
        /\ RecordNativeTurnFact(observing.attempt, f, observing.turn)
        /\ IF port = "codex" THEN CodexObserves(observing.attempt, f) ELSE ScriptedObserves(observing.attempt, f)
    BY <1>3 DEF PollAndRecordExact, TypeOK, HostTypeOK
  <2>2. observing.attempt \in Attempts /\ FollowedUp(observing.attempt)
    BY <2>1, ScopeMembers DEF PhasesInv, FollowupsHold
  <2>3. f = "Terminal" => native[observing.attempt] = "finished"
    BY <2>1, <2>2, ReportsHold
  <2> QED BY <2>1, <2>2, <2>3, LearnsFactRecorded
<1> QED BY <1>1, <1>2, <1>3

\* Recovery doubts what was reserved or accepted without its fact, and takes over a
\* terminal that an exact response reported.
LEMMA LearnsRecovered ==
    ASSUME TypeOK, CoreInv, PhasesInv, NEW a \in Attempts, RecoverAuthorityState
    PROVE  Learns(a)
<1> USE DEF TypeOK, StoreTypeOK
<1>1. /\ UNCHANGED <<attachments, prepared, prewrite, reconciliations>>
      /\ write_evidence'[a] = RecoveredEvidence(a) /\ turn_facts'[a] = RecoveredFacts(a)
      /\ reservations'[a] = IF Unresolved(a) THEN "concluded" ELSE reservations[a]
  BY DEF RecoverAuthorityState, claimVars, dispatchVars
<1>2. NoEvidence.kind = "none" /\ UnknownEvidence.kind = "Unknown" /\ NoEvidence # UnknownEvidence
  BY DEF NoEvidence, UnknownEvidence, EvidenceOf
<1>3. RecordHolds(a) /\ RowsOrdered(a) /\ AcceptedHolds(a)
  BY DEF CoreInv, RecordsHold, PhasesInv
<1>4. CASE attachments[a] = NoBirth \/ prewrite[a] # "none"
  BY <1>1, <1>4 DEF Phase, Learns
<1>5. CASE "Terminal" \in turn_facts[a]
  <2>1. turn_facts'[a] = turn_facts[a]
    BY <1>1, <1>5 DEF RecoveredFacts, Interrupted
  <2> QED BY <2>1, <1>1, <1>5 DEF Phase, Learns
<1> DEFINE Open == attachments[a] # NoBirth /\ prewrite[a] = "none" /\ "Terminal" \notin turn_facts[a]
<1>6. CASE Open /\ "ProvenNotAccepted" \in {write_evidence[a].kind, reconciliations[a]}
  <2>1. native[a] \in {"none", "refused"}
    BY <1>3, <1>6 DEF RecordHolds, Refuted
  <2>2. write_evidence[a].kind \notin {"WriterAccepted", "ExactResponse"}
    BY <2>1, <1>3 DEF AcceptedHolds
  <2>3. /\ turn_facts'[a] = turn_facts[a]
        /\ write_evidence[a].kind = "ProvenNotAccepted" => write_evidence'[a] = write_evidence[a]
    BY <2>2, <1>1, <1>2 DEF RecoveredFacts, RecoveredEvidence, Unresolved
  <2> QED BY <2>3, <1>1, <1>6 DEF Phase, Learns
<1>7. CASE Open /\ "ProvenNotAccepted" \notin {write_evidence[a].kind, reconciliations[a]}
  <2>1. CASE write_evidence[a] = NoEvidence
    <3>1. turn_facts'[a] = turn_facts[a]
      BY <2>1, <1>1 DEF RecoveredFacts, Interrupted
    <3>2. CASE Unresolved(a)
      <4>1. Phase(a) = "reserved" /\ Phase(a)' = "ambiguous"
        BY <2>1, <3>1, <3>2, <1>1, <1>2, <1>7 DEF Phase, RecoveredEvidence, Unresolved
      <4> QED BY <4>1 DEF Learns, Contract!May, Contract!Doubted
    <3>3. CASE ~Unresolved(a)
      <4>1. write_evidence'[a] = write_evidence[a]
        BY <2>1, <3>3, <1>1 DEF RecoveredEvidence, Interrupted
      <4> QED BY <3>1, <3>3, <4>1, <1>1, PhaseStays DEF Learns
    <3> QED BY <3>2, <3>3
  <2>2. CASE write_evidence[a] = UnknownEvidence
    <3>1. write_evidence'[a] = write_evidence[a] /\ turn_facts'[a] = turn_facts[a]
      BY <2>2, <1>1, <1>2 DEF RecoveredFacts, RecoveredEvidence
    <3>2. reservations'[a] = reservations[a]
      BY <2>2, <1>1, <1>2 DEF Unresolved
    <3> QED BY <3>1, <3>2, <1>1, PhaseStays DEF Learns
  <2>3. CASE write_evidence[a] \notin {NoEvidence, UnknownEvidence}
    <3>1. Phase(a) = "accepted"
      BY <2>3, <1>7 DEF Phase
    <3>2. CASE "Terminal" \in turn_facts'[a]
      <4>1. Ended(a)
        BY <3>2, <1>1, <1>7 DEF RecoveredFacts, Ended
      <4>2. Phase(a)' = "terminal" /\ native[a] = "finished"
        BY <3>2, <4>1, <1>1, <1>3, <1>7 DEF Phase, RecordHolds
      <4> QED BY <3>1, <4>2 DEF Learns, Contract!May, Contract!Proven
    <3>3. CASE "Terminal" \notin turn_facts'[a]
      <4>1. write_evidence'[a] \in {write_evidence[a], UnknownEvidence}
        BY <1>1 DEF RecoveredEvidence
      <4>2. Phase(a)' \in {"accepted", "ambiguous"}
        BY <2>3, <3>3, <4>1, <1>1, <1>2, <1>7 DEF Phase
      <4> QED BY <3>1, <4>2 DEF Learns, Contract!May, Contract!Doubted
    <3> QED BY <3>2, <3>3
  <2> QED BY <2>1, <2>2, <2>3
<1> QED BY <1>4, <1>5, <1>6, <1>7

\* A reconciliation that refuses is of an ambiguous write that the server refused.
LEMMA LearnsReconciliation ==
    ASSUME TypeOK, WriteProtocol, CoreInv, PhasesInv, NEW a \in Attempts, RecordReconciliation
    PROVE  Learns(a)
<1> USE DEF TypeOK, StoreTypeOK, HostTypeOK
<1>1. /\ RecordReconciliationFact(reconciling, step.item)
      /\ reconciling # NoScope /\ reconciling.attempt = step.attempt /\ step.at = "reconcile"
  BY DEF RecordReconciliation
<1>2. /\ UNCHANGED <<attachments, prepared, prewrite, reservations, write_evidence, turn_facts>>
      /\ reconciliations' = [reconciliations EXCEPT ![step.attempt] = step.item]
      /\ reservations[step.attempt] # "none" /\ write_evidence[step.attempt] = UnknownEvidence
      /\ reconciliations[step.attempt] \in {"none", "Unknown", step.item}
  BY <1>1 DEF RecordReconciliationFact, ReconciliationBound, claimVars, dispatchVars
<1>3. CASE a # step.attempt \/ reconciliations'[a] = reconciliations[a]
  BY <1>2, <1>3, PhaseStays DEF Learns
<1>4. CASE a = step.attempt /\ step.item # "ProvenNotAccepted"
  BY <1>2, <1>4 DEF Phase, Learns
<1>5. CASE a = step.attempt /\ step.item = "ProvenNotAccepted" /\ reconciliations'[a] # reconciliations[a]
  <2>1. native[a] = "refused" /\ attachments[a] # NoBirth
    BY <1>1, <1>2, <1>5 DEF CoreInv, AnswersHold, WriteProtocol, ClaimedAndOwned
  <2>2. UnknownEvidence.kind = "Unknown" /\ UnknownEvidence # NoEvidence
    BY DEF UnknownEvidence, NoEvidence, EvidenceOf
  <2>3. CASE prewrite[a] # "none" \/ "Terminal" \in turn_facts[a]
    BY <2>3, <1>2, <1>5 DEF Phase, Learns
  <2>4. CASE prewrite[a] = "none" /\ "Terminal" \notin turn_facts[a]
    <3>1. Phase(a) \in {"ambiguous", "refused"} /\ Phase(a)' = "refused"
      BY <2>1, <2>2, <2>4, <1>2, <1>5 DEF Phase
    <3> QED BY <3>1, <2>1 DEF Learns, Contract!May, Contract!Excluded
  <2> QED BY <2>3, <2>4
<1> QED BY <1>3, <1>4, <1>5

LEMMA LearnMaps ==
    ASSUME UNCHANGED <<native, native_writes>>, \A a \in Attempts : Learns(a)
    PROVE  Contract!Learn
<1>1. \A a \in Attempts : Phase(a)' \in Contract!Phases
  BY DEF Phase, Contract!Phases, Contract!Closed
<1> QED BY <1>1 DEF Contract!Learn, Learns

\* The bytes go out for an attempt that is reserved, or that a recovery doubted
\* before they did.
LEMMA WriteMaps ==
    ASSUME TypeOK, WriteProtocol, CoreInv, PhasesInv, NEW o \in Outcomes, NEW n \in NativeStates,
           WriteReservedTurn(o, n)
    PROVE  \E a \in Attempts : Contract!Write(a)
<1> USE DEF TypeOK, StoreTypeOK, HostTypeOK, NativeTypeOK
<1>1. /\ writing \in Attempts /\ writing # NoAttempt /\ outcome = NoOutcome
      /\ native' = [native EXCEPT ![writing] = n]
      /\ native_writes' = [native_writes EXCEPT ![writing] = @ + 1]
      /\ UNCHANGED Dispatch /\ n # "none"
  BY DEF WriteReservedTurn, WriteAnswer, Dispatch, claimVars, dispatchVars, evidenceVars
<1>2. native_writes[writing] = 0 /\ reservations[writing] # "none"
  BY <1>1 DEF WriteProtocol
<1>3. Phase(writing) \in {"reserved", "ambiguous"}
  <2>1. /\ prewrite[writing] = "none" /\ turn_facts[writing] = {} /\ reconciliations[writing] = "none"
        /\ write_evidence[writing] \in {NoEvidence, UnknownEvidence}
    BY <1>1 DEF PhasesInv, WritingApart
  <2>2. NoEvidence.kind = "none" /\ UnknownEvidence.kind = "Unknown"
    BY DEF NoEvidence, UnknownEvidence, EvidenceOf
  <2> QED BY <1>1, <1>2, <2>1, <2>2, OpenPhase
<1>4. \A a \in Attempts : Phase(a)' = Phase(a)
  BY <1>1, PhaseStays DEF Dispatch
<1>5. native_writes' = [native_writes EXCEPT ![writing] = 1]
  <2>1. native_writes[writing] + 1 = 1
    BY <1>2
  <2> HIDE DEF TypeOK
  <2> QED BY <1>1, <2>1
<1>6. Contract!Write(writing)
  <2>1. n \in Contract!Wire \ {"none"}
    BY <1>1 DEF Contract!Wire, NativeStates
  <2>2. [a \in Attempts |-> Phase(a)]' = [a \in Attempts |-> Phase(a)]
    BY <1>4
  <2> HIDE DEF TypeOK
  <2> QED BY <1>1, <1>2, <1>3, <1>5, <2>1, <2>2 DEF Contract!Write
<1> QED BY <1>1, <1>6

LEMMA ServeMaps ==
    ASSUME TypeOK, NEW a \in Attempts, NativeProgress(a)
    PROVE  Contract!Serve(a)
<1>1. UNCHANGED <<Dispatch, native_writes>>
  BY DEF NativeProgress, Dispatch, storeVars, claimVars, dispatchVars, evidenceVars
<1>2. \A x \in Attempts : Phase(x)' = Phase(x)
  BY <1>1, PhaseStays DEF Dispatch
<1> QED BY <1>1, <1>2 DEF NativeProgress, Contract!Serve

LEMMA ContractStep ==
    ASSUME PathInv, Operation PROVE Contract!Next
<1> USE DEF PathInv
<1>1. CASE \E o \in Outcomes, n \in NativeStates : WriteReservedTurn(o, n)
  BY <1>1, WriteMaps DEF Contract!Next
<1>2. CASE \E a \in Attempts : NativeProgress(a)
  BY <1>2, ServeMaps DEF Contract!Next
<1> DEFINE Learning == UNCHANGED <<native, native_writes>> /\ \A a \in Attempts : Learns(a)
<1>3. Learning => Contract!Next
  BY LearnMaps DEF Contract!Next
<1>4. ASSUME UNCHANGED <<Dispatch, native, native_writes>> PROVE Learning
  BY <1>4, PhaseStays DEF Dispatch, Learns
<1>5. ASSUME \/ \E b \in Births :
                   \/ ReserveControllerBirth(b) \/ ResolveThreadCreate(b) \/ LeaseExpires(b) \/ ThreadProgress(b)
                   \/ \E result \in CreateResults : CreateOwned(b, result) \/ ReceiveLate(b, result)
             \/ \E m \in Arms, g \in Gens : RegisterManagedArm(m, g)
             \/ \E a \in Attempts : RevokeAttachment(a)
      PROVE  UNCHANGED <<Dispatch, native, native_writes>>
  BY <1>5 DEF ReserveControllerBirth, ReserveBirthRow, ResolveThreadCreate, ResolveCreateRow, LeaseExpires,
     ThreadProgress, CreateOwned, ReceiveLate, RegisterManagedArm, PersistArm, RevokeAttachment, RevokeAttachmentRow,
     Dispatch, storeVars, claimVars, dispatchVars, evidenceVars, nativeVars
<1>6. ASSUME \/ StoreCallFails \/ Crash
             \/ \E o \in Outcomes : WriteNothing(o)
             \/ \E f \in Facts : PollRefused(f)
             \/ \E d \in Reconciliations : ReconcileScripted(d)
      PROVE  UNCHANGED <<Dispatch, native, native_writes>>
  BY <1>6 DEF StoreCallFails, Crash, WriteNothing, PollRefused, ReconcileScripted, Dispatch, storeVars, claimVars,
     dispatchVars, evidenceVars, nativeVars
<1>7. ASSUME \/ \E r \in Requests, m \in Arms : AdmitClaim(r, m)
             \/ \E a \in Attempts : Prepare(a)
      PROVE  Learning
  BY <1>7, LearnsClaim DEF AdmitClaim, Prepare, nativeVars
<1>8. ASSUME AuthorizeProbeRefused \/ AuthorizeProbeActive \/ AuthorizeProbeUnproven \/ AuthorizeProbeIdle
      PROVE  Learning
  BY <1>8, LearnsProbe DEF AuthorizeProbeRefused, AuthorizeProbeActive, AuthorizeProbeUnproven, AuthorizeProbeIdle,
     TakeProbing, nativeVars
<1>9. ASSUME ConcludeRefused \/ ConcludeEpochInvalidated \/ ConcludeEvidence PROVE Learning
  BY <1>9, LearnsConclude DEF ConcludeRefused, ConcludeEpochInvalidated, ConcludeEvidence, TakeWriting, nativeVars
<1>10. ASSUME \/ ConcludeFact \/ RecordReconciledFact
              \/ \E f \in Facts : PollAndRecordExact(f)
       PROVE  Learning
  BY <1>10, LearnsFact DEF ConcludeFact, RecordReconciledFact, PollAndRecordExact, nativeVars
<1>11. ASSUME \/ \E d \in Reconciliations : ReconcileCodex(d)
              \/ ReconcileCodexRejected \/ Recover
       PROVE  Learning
  BY <1>11, LearnsRecovered DEF ReconcileCodex, ReconcileCodexRejected, Recover, nativeVars
<1>12. ASSUME RecordReconciliation PROVE Learning
  BY <1>12, LearnsReconciliation DEF RecordReconciliation, nativeVars
<1> HIDE DEF Learning
<1> QED BY <1>1, <1>2, <1>3, <1>4, <1>5, <1>6, <1>7, <1>8, <1>9, <1>10, <1>11, <1>12 DEF Operation

\* The managed native path implements its contract: over all crashes, store failures,
\* recoveries and reconciliations no attempt is written twice or before its
\* reservation, nothing recorded contradicts the server, and an attempt that was
\* held, refused or has ended never reopens.
THEOREM ImplementsContract == Spec => ContractSpec
<1>1. Init => Contract!Init
  BY DEF Init, StoreInit, Contract!Init, Phase
<1>2. PathInv /\ [Next]_vars => [Contract!Next]_(Contract!vars)
  <2> SUFFICES ASSUME PathInv, [Next]_vars PROVE Contract!Next \/ UNCHANGED Contract!vars
    OBVIOUS
  <2>1. CASE Next
    BY <2>1, ContractStep DEF Next
  <2>2. CASE UNCHANGED vars
    <3>1. UNCHANGED <<Dispatch, native, native_writes>>
      BY <2>2 DEF vars, storeVars, claimVars, dispatchVars, evidenceVars, nativeVars, Dispatch
    <3>2. \A a \in Attempts : Phase(a)' = Phase(a)
      BY <3>1, PhaseStays DEF Dispatch
    <3> QED BY <3>1, <3>2 DEF Contract!vars
  <2> QED BY <2>1, <2>2
<1> QED BY <1>1, <1>2, PathInvariant, PTL DEF Spec, ContractSpec, Contract!Spec

-----------------------------------------------------------------------------
(* What is followed up is what the store accepts *)

\* A degraded fact put the evidence in doubt, or was taken over by a recovery from an
\* exact response that names no turn.
DoubtsHold ==
    \A a \in Attempts :
        turn_facts[a] \cap DegradedFacts # {} =>
            \/ write_evidence[a] = UnknownEvidence
            \/ write_evidence[a].kind = "ExactResponse" /\ turn_facts[a] \subseteq DegradedFacts

\* An observed turn is ambiguous or its facts name it; a conclusion has no fact yet.
ObservedHolds ==
    /\ observing # NoScope =>
          \/ write_evidence[observing.attempt] = UnknownEvidence
          \/ /\ turn_facts[observing.attempt] # {}
             /\ turn_facts[observing.attempt] \cap DegradedFacts = {}
    /\ step.at = "conclude" =>
          write_evidence_refs[step.attempt] = "conclude" /\ turn_facts[step.attempt] = {}

CoherentInv == FollowupsCoherent /\ DoubtsHold /\ ObservedHolds

Told == <<write_evidence, write_evidence_refs, turn_facts>>

\* The operations that neither record evidence or a fact nor move a follow-up.
LEMMA CoherentQuiet ==
    ASSUME TypeOK, CoherentInv, UNCHANGED <<Told, observing>>,
           reconciling' \in {reconciling, NoScope}, step'.at = "conclude" => step' = step
    PROVE  CoherentInv'
<1>1. FollowupsCoherent'
  BY DEF CoherentInv, FollowupsCoherent, Told
<1>2. DoubtsHold' /\ ObservedHolds'
  BY DEF CoherentInv, DoubtsHold, ObservedHolds, Told
<1> QED BY <1>1, <1>2 DEF CoherentInv

LEMMA CoherentConclude ==
    ASSUME TypeOK, PhasesInv, CoherentInv, ConcludeEvidence PROVE CoherentInv'
<1> USE DEF TypeOK, StoreTypeOK, HostTypeOK
<1>1. /\ writing \in Attempts /\ writing # NoAttempt /\ step = Idle /\ UNCHANGED turn_facts
      /\ write_evidence' = [write_evidence EXCEPT ![writing] = outcome]
      /\ write_evidence_refs' = [write_evidence_refs EXCEPT ![writing] = "conclude"]
  BY DEF ConcludeEvidence, TakeWriting, Ready, RecordNativeWriteEvidence
<1>2. turn_facts[writing] = {} /\ writing # observing.attempt /\ writing # reconciling.attempt
  BY <1>1 DEF PhasesInv, WritingApart
<1>3. DoubtsHold'
  BY <1>1, <1>2 DEF CoherentInv, DoubtsHold
<1>4. CASE outcome.kind \in {"WriterAccepted", "ExactResponse"}
  <2>1. /\ UNCHANGED Followups
        /\ step' = Continue("conclude", writing, IF outcome.kind = "WriterAccepted" THEN "Accepted" ELSE outcome.fact)
    BY <1>4 DEF ConcludeEvidence, Followups
  <2>2. /\ observing # NoScope => observing.attempt \in Attempts
        /\ reconciling # NoScope => reconciling.attempt \in Attempts
    BY ScopeMembers
  <2>3. FollowupsCoherent'
    BY <1>1, <1>2, <2>1, <2>2 DEF CoherentInv, FollowupsCoherent, Followups
  <2>4. ObservedHolds'
    BY <1>1, <1>2, <2>1, <2>2 DEF CoherentInv, ObservedHolds, Followups, Continue
  <2> QED BY <1>3, <2>3, <2>4 DEF CoherentInv
<1>5. CASE outcome.kind \in {"ProvenNotAccepted", "Unknown"}
  <2>1. /\ observing' = NoScope /\ step' = Idle
        /\ reconciling' = IF outcome.kind = "Unknown" THEN Scope(writing, FALSE, "conclude") ELSE NoScope
    BY <1>1, <1>5 DEF ConcludeEvidence
  <2>2. outcome.kind = "Unknown" => outcome = UnknownEvidence
    BY DEF Outcomes, UnknownEvidence, EvidenceOf, ExactResponse
  <2>3. FollowupsCoherent' /\ ObservedHolds'
    BY <1>1, <2>1, <2>2 DEF FollowupsCoherent, ObservedHolds, Idle, Scope
  <2> QED BY <1>3, <2>3 DEF CoherentInv
<1> QED BY <1>4, <1>5 DEF ConcludeEvidence

\* A fact is recorded of an attempt that is ambiguous or has no degraded fact.
LEMMA CoherentFactRecorded ==
    ASSUME TypeOK, CoherentInv, NEW x \in Attempts, NEW f \in Facts, NEW turn, RecordNativeTurnFact(x, f, turn),
           write_evidence[x] = UnknownEvidence \/ turn_facts[x] \cap DegradedFacts = {}
    PROVE  /\ write_evidence_refs' = write_evidence_refs
           /\ DoubtsHold'
           /\ \A a \in Attempts : a # x => turn_facts'[a] = turn_facts[a] /\ write_evidence'[a] = write_evidence[a]
           /\ write_evidence[x] = UnknownEvidence => write_evidence'[x] = UnknownEvidence
           /\ f \in DegradedFacts => write_evidence'[x] = UnknownEvidence
           /\ f \notin DegradedFacts =>
                 \/ write_evidence'[x] = UnknownEvidence
                 \/ turn_facts'[x] # {} /\ turn_facts'[x] \cap DegradedFacts = {}
<1> USE DEF TypeOK, StoreTypeOK
<1>1. /\ write_evidence_refs' = write_evidence_refs
      /\ turn_facts' = [turn_facts EXCEPT ![x] = @ \cup {f}]
      /\ \A a \in Attempts : a # x => turn_facts'[a] = turn_facts[a] /\ write_evidence'[a] = write_evidence[a]
      /\ write_evidence'[x] \in {write_evidence[x], UnknownEvidence}
      /\ f \in DegradedFacts /\ f \notin turn_facts[x] => write_evidence'[x] = UnknownEvidence
  BY DEF RecordNativeTurnFact
<1>2. f \in DegradedFacts => write_evidence'[x] = UnknownEvidence
  BY <1>1
<1>3. write_evidence'[x] = UnknownEvidence \/ turn_facts'[x] \cap DegradedFacts = {}
  BY <1>1, <1>2
<1>4. DoubtsHold'
  BY <1>1, <1>3 DEF CoherentInv, DoubtsHold
<1> QED BY <1>1, <1>2, <1>3, <1>4

LEMMA CoherentFact ==
    ASSUME TypeOK, PhasesInv, CoherentInv,
           \/ ConcludeFact \/ RecordReconciledFact
           \/ \E f \in Facts : PollAndRecordExact(f)
    PROVE  CoherentInv'
<1>1. CASE ConcludeFact
  <2>1. /\ step.at = "conclude" /\ step \in Steps /\ step' = Idle
        /\ RecordNativeTurnFact(step.attempt, step.item, step.item \in TurnFacts)
        /\ reconciling' = NoScope /\ observing'.attempt = step.attempt /\ observing'.ref = "conclude"
    BY <1>1 DEF ConcludeFact, TypeOK, HostTypeOK, Scope
  <2>2. /\ step.attempt \in Attempts /\ step.item \in Facts
        /\ write_evidence_refs[step.attempt] = "conclude" /\ turn_facts[step.attempt] = {}
    BY <2>1 DEF Steps, Idle, CoherentInv, ObservedHolds
  <2>3. \E turn : RecordNativeTurnFact(step.attempt, step.item, turn)
    BY <2>1
  <2>4. /\ write_evidence_refs' = write_evidence_refs /\ DoubtsHold'
        /\ \/ write_evidence'[step.attempt] = UnknownEvidence
           \/ turn_facts'[step.attempt] # {} /\ turn_facts'[step.attempt] \cap DegradedFacts = {}
    BY <2>2, <2>3, CoherentFactRecorded
  <2> QED BY <2>1, <2>2, <2>4 DEF CoherentInv, FollowupsCoherent, ObservedHolds, Idle
<1>2. CASE RecordReconciledFact
  <2>1. /\ step.at = "reconcileFact" /\ step \in Steps /\ reconciling # NoScope /\ reconciling.attempt = step.attempt
        /\ RecordNativeTurnFact(step.attempt, step.item, TRUE)
        /\ reconciling' = NoScope /\ step' = Idle
        /\ \/ observing' = observing
           \/ step.item = "Accepted" /\ observing'.attempt = step.attempt /\ observing'.ref = reconciling.ref
    BY <1>2 DEF RecordReconciledFact, TypeOK, HostTypeOK, Scope
  <2>2. /\ step.attempt \in Attempts /\ step.item \in Facts /\ observing = NoScope
        /\ write_evidence[step.attempt] = UnknownEvidence /\ write_evidence_refs[step.attempt] = reconciling.ref
    BY <2>1 DEF Steps, Idle, Facts, TurnFacts, CoherentInv, FollowupsCoherent
  <2>3. /\ write_evidence_refs' = write_evidence_refs /\ DoubtsHold'
        /\ write_evidence'[step.attempt] = UnknownEvidence
    BY <2>1, <2>2, CoherentFactRecorded
  <2> QED BY <2>1, <2>2, <2>3 DEF CoherentInv, FollowupsCoherent, ObservedHolds, Idle
<1>3. ASSUME NEW f \in Facts, PollAndRecordExact(f) PROVE CoherentInv'
  <2>1. /\ observing # NoScope /\ observing \in Scopes /\ step = Idle /\ step' = Idle
        /\ RecordNativeTurnFact(observing.attempt, f, observing.turn)
        /\ observing' = IF f \in DegradedFacts \cup {"Terminal"} THEN NoScope ELSE observing
        /\ reconciling' = IF f \in DegradedFacts THEN observing ELSE NoScope
    BY <1>3 DEF PollAndRecordExact, Ready, TypeOK, HostTypeOK
  <2>2. /\ observing.attempt \in Attempts /\ write_evidence_refs[observing.attempt] = observing.ref
        /\ \/ write_evidence[observing.attempt] = UnknownEvidence
           \/ turn_facts[observing.attempt] \cap DegradedFacts = {}
    BY <2>1, ScopeMembers DEF CoherentInv, FollowupsCoherent, ObservedHolds
  <2>3. /\ write_evidence_refs' = write_evidence_refs /\ DoubtsHold'
        /\ f \in DegradedFacts => write_evidence'[observing.attempt] = UnknownEvidence
        /\ f \notin DegradedFacts =>
              \/ write_evidence'[observing.attempt] = UnknownEvidence
              \/ turn_facts'[observing.attempt] # {} /\ turn_facts'[observing.attempt] \cap DegradedFacts = {}
    BY <2>1, <2>2, CoherentFactRecorded
  <2> QED BY <2>1, <2>2, <2>3 DEF CoherentInv, FollowupsCoherent, ObservedHolds, Idle
<1> QED BY <1>1, <1>2, <1>3

LEMMA CoherentRecovered ==
    ASSUME TypeOK, PhasesInv, CoherentInv, RecoverAuthorityState, step'.at # "conclude",
           \/ UNCHANGED Followups
           \/ /\ \A s, t \in ObservationScopes \cup ReconciliationScopes : s = t
              /\ observing' # NoScope => observing' \in ObservationScopes
              /\ reconciling' # NoScope => reconciling' \in ReconciliationScopes
    PROVE  CoherentInv'
<1> USE DEF TypeOK, StoreTypeOK, HostTypeOK
<1>1. \A a \in Attempts :
         /\ write_evidence'[a] = RecoveredEvidence(a) /\ turn_facts'[a] = RecoveredFacts(a)
         /\ write_evidence_refs'[a] = RecoveredRef(a)
  BY DEF RecoverAuthorityState
<1>2. NoEvidence.kind = "none" /\ UnknownEvidence.kind = "Unknown"
  BY DEF NoEvidence, UnknownEvidence, EvidenceOf
<1>3. DoubtsHold'
  <2> SUFFICES ASSUME NEW a \in Attempts, turn_facts'[a] \cap DegradedFacts # {}
               PROVE  \/ write_evidence'[a] = UnknownEvidence
                      \/ write_evidence'[a].kind = "ExactResponse" /\ turn_facts'[a] \subseteq DegradedFacts
    BY DEF DoubtsHold
  <2>1. CASE Interrupted(a) /\ write_evidence[a].kind = "ExactResponse"
    <3>1. write_evidence'[a] = write_evidence[a]
      BY <2>1, <1>1, <1>2 DEF RecoveredEvidence, Unresolved
    <3>2. turn_facts'[a] = {write_evidence[a].fact}
      BY <2>1, <1>1 DEF RecoveredFacts
    <3>3. turn_facts'[a] \subseteq DegradedFacts
      BY <3>2
    <3> QED BY <2>1, <3>1, <3>3
  <2>2. CASE ~(Interrupted(a) /\ write_evidence[a].kind = "ExactResponse")
    <3>1. turn_facts'[a] = turn_facts[a]
      BY <2>2, <1>1 DEF RecoveredFacts
    <3>2. \/ write_evidence[a] = UnknownEvidence
          \/ write_evidence[a].kind = "ExactResponse" /\ turn_facts[a] \subseteq DegradedFacts
      BY <3>1 DEF CoherentInv, DoubtsHold
    <3> QED BY <3>1, <3>2, <1>1, <1>2 DEF RecoveredEvidence
  <2> QED BY <2>1, <2>2
<1>4. CASE UNCHANGED Followups
  <2>1. /\ observing # NoScope => observing.attempt \in Attempts /\ FollowedUp(observing.attempt)
        /\ reconciling # NoScope => reconciling.attempt \in Attempts /\ FollowedUp(reconciling.attempt)
    BY ScopeMembers DEF PhasesInv, FollowupsHold
  <2>2. \A a \in Attempts : FollowedUp(a) => ~Unresolved(a) /\ write_evidence_refs'[a] = write_evidence_refs[a]
    BY <1>1, <1>2 DEF FollowedUp, Unresolved, RecoveredRef
  <2>3. \A a \in Attempts : write_evidence[a] = UnknownEvidence => write_evidence'[a] = UnknownEvidence
    BY <1>1, <1>2 DEF RecoveredEvidence
  <2>4. \A a \in Attempts : turn_facts[a] # {} => turn_facts'[a] = turn_facts[a]
    BY <1>1 DEF RecoveredFacts, Interrupted
  <2>5. FollowupsCoherent'
    BY <1>4, <2>1, <2>2, <2>3 DEF CoherentInv, FollowupsCoherent, Followups
  <2>6. ObservedHolds'
    BY <1>4, <2>1, <2>3, <2>4 DEF CoherentInv, ObservedHolds, Followups
  <2> QED BY <1>3, <2>5, <2>6 DEF CoherentInv
<1>5. CASE /\ \A s, t \in ObservationScopes \cup ReconciliationScopes : s = t
           /\ observing' # NoScope => observing' \in ObservationScopes
           /\ reconciling' # NoScope => reconciling' \in ReconciliationScopes
  <2>1. \A s \in ObservationScopes :
           \E a \in Attempts : s.attempt = a /\ s.ref = RecoveredRef(a) /\ RecoveredObserving(a)
    BY DEF ObservationScopes, Scope
  <2>2. \A s \in ReconciliationScopes :
           \E a \in Attempts : s.attempt = a /\ s.ref = RecoveredRef(a) /\ RecoveredReconciling(a)
    BY DEF ReconciliationScopes, Scope
  <2>3. \A a \in Attempts : ~(RecoveredObserving(a) /\ RecoveredReconciling(a))
    BY <1>2 DEF RecoveredObserving, RecoveredReconciling
  <2>4. observing' = NoScope \/ reconciling' = NoScope
    BY <1>5, <2>1, <2>2, <2>3
  <2>5. FollowupsCoherent'
    <3>1. reconciling' # NoScope => /\ write_evidence'[reconciling'.attempt] = UnknownEvidence
                                    /\ write_evidence_refs'[reconciling'.attempt] = reconciling'.ref
      BY <1>1, <1>5, <2>2 DEF RecoveredReconciling
    <3>2. observing' # NoScope => write_evidence_refs'[observing'.attempt] = observing'.ref
      BY <1>1, <1>5, <2>1
    <3> QED BY <2>4, <3>1, <3>2 DEF FollowupsCoherent
  <2>6. ASSUME NEW a \in Attempts, RecoveredObserving(a)
        PROVE  \/ write_evidence'[a] = UnknownEvidence
               \/ turn_facts'[a] # {} /\ turn_facts'[a] \cap DegradedFacts = {}
    <3>1. CASE turn_facts'[a] \cap {"Accepted", "Started"} # {}
      BY <3>1, <1>3 DEF DoubtsHold, DegradedFacts
    <3>2. CASE write_evidence'[a] = UnknownEvidence
      BY <3>2
    <3> QED BY <2>6, <3>1, <3>2, <1>1 DEF RecoveredObserving
  <2>7. observing' # NoScope =>
           \/ write_evidence'[observing'.attempt] = UnknownEvidence
           \/ turn_facts'[observing'.attempt] # {} /\ turn_facts'[observing'.attempt] \cap DegradedFacts = {}
    BY <1>5, <2>1, <2>6
  <2> QED BY <1>3, <2>5, <2>7 DEF CoherentInv, ObservedHolds
<1> QED BY <1>4, <1>5

LEMMA CoherentStep ==
    ASSUME PathInv, CoherentInv, Operation PROVE CoherentInv'
<1> USE DEF PathInv
<1> DEFINE Quiet == /\ UNCHANGED <<Told, observing>> /\ reconciling' \in {reconciling, NoScope}
                    /\ step'.at = "conclude" => step' = step
<1>1. Quiet => CoherentInv'
  BY CoherentQuiet
<1>2. ASSUME \/ \E b \in Births :
                   \/ ReserveControllerBirth(b) \/ ResolveThreadCreate(b) \/ LeaseExpires(b) \/ ThreadProgress(b)
                   \/ \E result \in CreateResults : CreateOwned(b, result) \/ ReceiveLate(b, result)
             \/ \E m \in Arms, g \in Gens : RegisterManagedArm(m, g)
             \/ \E r \in Requests, m \in Arms : AdmitClaim(r, m)
      PROVE  Quiet
  BY <1>2 DEF ReserveControllerBirth, ReserveBirthRow, ResolveThreadCreate, ResolveCreateRow, LeaseExpires,
     ThreadProgress, CreateOwned, ReceiveLate, RegisterManagedArm, PersistArm, AdmitClaim, AdmitClaimRow, Told,
     storeVars, evidenceVars, coordVars
<1>3. ASSUME \/ \E a \in Attempts : Prepare(a) \/ RevokeAttachment(a) \/ NativeProgress(a)
             \/ AuthorizeProbeRefused \/ AuthorizeProbeActive \/ AuthorizeProbeUnproven \/ AuthorizeProbeIdle
             \/ ConcludeRefused
      PROVE  Quiet
  BY <1>3 DEF Prepare, RecordDispatchPrepared, RevokeAttachment, RevokeAttachmentRow, NativeProgress,
     AuthorizeProbeRefused, AuthorizeProbeActive, AuthorizeProbeUnproven, AuthorizeProbeIdle, TakeProbing,
     RecordActiveHold, RecordPrewriteConclusion, ReserveNativeTurnWrite, ConcludeRefused, Told, storeVars,
     evidenceVars, coordVars
<1>4. ASSUME \/ \E o \in Outcomes : WriteNothing(o)
             \/ \E o \in Outcomes, n \in NativeStates : WriteReservedTurn(o, n)
             \/ StoreCallFails \/ RecordReconciliation
             \/ \E f \in Facts : PollRefused(f)
             \/ \E d \in Reconciliations : ReconcileScripted(d)
      PROVE  Quiet
  BY <1>4 DEF WriteNothing, WriteReservedTurn, StoreCallFails, RecordReconciliation, RecordReconciliationFact,
     PollRefused, ReconcileScripted, Told, storeVars, evidenceVars, coordVars, Idle, Continue
<1>5. CASE ConcludeEpochInvalidated \/ Crash
  <2>1. UNCHANGED Told /\ observing' = NoScope /\ reconciling' = NoScope /\ step'.at # "conclude"
    BY <1>5 DEF ConcludeEpochInvalidated, TakeWriting, Ready, RecordPrewriteConclusion, Crash, LoseMemory, Told,
       storeVars, evidenceVars, Idle
  <2> QED BY <2>1 DEF CoherentInv, FollowupsCoherent, DoubtsHold, ObservedHolds, Told
<1>6. CASE ReconcileCodexRejected \/ \E d \in Reconciliations : ReconcileCodex(d)
  <2>1. RecoverAuthorityState /\ UNCHANGED Followups /\ step'.at # "conclude"
    BY <1>6 DEF ReconcileCodexRejected, ReconcileCodex, Ready, coordVars, Followups, Idle, Continue
  <2> QED BY <2>1, CoherentRecovered
<1>7. CASE Recover
  <2>1. /\ RecoverAuthorityState /\ step' = step /\ step = Idle
        /\ \/ UNCHANGED Followups
           \/ /\ \A s, t \in ObservationScopes \cup ReconciliationScopes : s = t
              /\ observing' # NoScope => observing' \in ObservationScopes
              /\ reconciling' # NoScope => reconciling' \in ReconciliationScopes
    BY <1>7 DEF Recover, Followups, TypeOK, HostTypeOK
  <2> QED BY <2>1, CoherentRecovered DEF Idle
<1> HIDE DEF Quiet
<1> QED BY <1>1, <1>2, <1>3, <1>4, <1>5, <1>6, <1>7, CoherentConclude, CoherentFact DEF Operation

LEMMA CoherentInvariant == Spec => [](PathInv /\ CoherentInv)
<1>1. Init => CoherentInv
  BY DEF Init, StoreInit, CoherentInv, FollowupsCoherent, DoubtsHold, ObservedHolds, Idle
<1>2. PathInv /\ CoherentInv /\ [Next]_vars => CoherentInv'
  <2> SUFFICES ASSUME PathInv, CoherentInv, [Next]_vars PROVE CoherentInv'
    OBVIOUS
  <2>1. CASE Next
    BY <2>1, CoherentStep DEF Next
  <2>2. CASE UNCHANGED vars
    <3>1. UNCHANGED <<Told, observing, reconciling, step>>
      BY <2>2 DEF vars, storeVars, evidenceVars, coordVars, Told
    <3> QED BY <3>1, CoherentQuiet DEF PathInv
  <2> QED BY <2>1, <2>2
<1> QED BY <1>1, <1>2, PathInvariant, PTL DEF Spec

\* What the coordinator follows up after an answer, a fact or a restart is what the
\* store will accept: one turn at a time, under the reference of its evidence, and a
\* reconciliation only while the write is ambiguous.
THEOREM FollowupsAreCoherent == Spec => []FollowupsCoherent
<1>1. CoherentInv => FollowupsCoherent
  BY DEF CoherentInv
<1> QED BY <1>1, CoherentInvariant, PTL

-----------------------------------------------------------------------------
(* What is resumed after a restart *)

\* Evidence has the reference under which it is followed up.
RefsHold == \A a \in Attempts : write_evidence[a] # NoEvidence => write_evidence_refs[a] # "none"

\* The Codex controller answers a write and a reconciliation with an acceptance, a
\* refusal or a doubt, never with the end of the turn.
CodexPlain ==
    port = "codex" =>
        /\ outcome.kind # "ExactResponse"
        /\ step.at \in {"reconcile", "reconcileFact"} => step.item # "Terminal"
        /\ \A a \in Attempts : write_evidence[a].kind # "ExactResponse" /\ reconciliations[a] # "Terminal"

LEMMA RefsStep ==
    ASSUME PathInv, CoherentInv, RefsHold, Operation PROVE RefsHold'
<1> USE DEF PathInv, TypeOK, StoreTypeOK
<1>1. CASE UNCHANGED <<write_evidence, write_evidence_refs>>
  BY <1>1 DEF RefsHold
<1>2. ASSUME NEW x, NEW e, RecordNativeWriteEvidence(x, e) PROVE RefsHold'
  BY <1>2 DEF RefsHold, RecordNativeWriteEvidence
<1>3. ASSUME NEW x \in Attempts, NEW f, NEW turn, RecordNativeTurnFact(x, f, turn),
             f \in DegradedFacts => write_evidence_refs[x] # "none"
      PROVE  RefsHold'
  BY <1>3 DEF RefsHold, RecordNativeTurnFact
<1>4. CASE ConcludeFact
  <2>1. /\ step.at = "conclude" /\ step \in Steps
        /\ RecordNativeTurnFact(step.attempt, step.item, step.item \in TurnFacts)
    BY <1>4 DEF ConcludeFact, HostTypeOK
  <2>2. step.attempt \in Attempts /\ write_evidence_refs[step.attempt] # "none"
    BY <2>1 DEF Steps, Idle, CoherentInv, ObservedHolds
  <2> QED BY <2>1, <2>2, <1>3
<1>5. CASE RecordReconciledFact
  <2>1. /\ step.at = "reconcileFact" /\ step \in Steps
        /\ RecordNativeTurnFact(step.attempt, step.item, TRUE)
    BY <1>5 DEF RecordReconciledFact, HostTypeOK
  <2>2. step.attempt \in Attempts /\ step.item \notin DegradedFacts
    BY <2>1 DEF Steps, Idle, DegradedFacts
  <2> QED BY <2>1, <2>2, <1>3
<1>6. ASSUME NEW f \in Facts, PollAndRecordExact(f) PROVE RefsHold'
  <2>1. observing # NoScope /\ RecordNativeTurnFact(observing.attempt, f, observing.turn)
    BY <1>6 DEF PollAndRecordExact
  <2>2. observing.attempt \in Attempts
    BY <2>1, ScopeMembers DEF HostTypeOK
  <2>3. write_evidence_refs[observing.attempt] # "none"
    BY <2>1, <2>2 DEF PhasesInv, FollowupsHold, FollowedUp, RefsHold, NoEvidence, EvidenceOf
  <2> QED BY <2>1, <2>2, <2>3, <1>3
<1>7. CASE RecoverAuthorityState
  BY <1>7 DEF RefsHold, RecoverAuthorityState, RecoveredEvidence, RecoveredRef, Interrupted
<1>8. Operation =>
         \/ UNCHANGED <<write_evidence, write_evidence_refs>>
         \/ \E x, e : RecordNativeWriteEvidence(x, e)
         \/ ConcludeFact \/ RecordReconciledFact
         \/ \E f \in Facts : PollAndRecordExact(f)
         \/ RecoverAuthorityState
  BY DEF Operation, RegisterManagedArm, PersistArm, ReserveControllerBirth, ReserveBirthRow, ResolveThreadCreate,
     ResolveCreateRow, LeaseExpires, ThreadProgress, CreateOwned, ReceiveLate, AdmitClaim, AdmitClaimRow, Prepare,
     RecordDispatchPrepared, NativeProgress, AuthorizeProbeRefused, AuthorizeProbeActive, AuthorizeProbeUnproven,
     AuthorizeProbeIdle, RecordActiveHold, RecordPrewriteConclusion, ReserveNativeTurnWrite, RevokeAttachment,
     RevokeAttachmentRow, WriteNothing, WriteReservedTurn, ConcludeRefused, ConcludeEpochInvalidated,
     ConcludeEvidence, StoreCallFails, PollRefused, ReconcileCodex, ReconcileScripted, ReconcileCodexRejected,
     RecordReconciliation, RecordReconciliationFact, Crash, Recover, storeVars, evidenceVars
<1> QED BY <1>1, <1>2, <1>4, <1>5, <1>6, <1>7, <1>8

\* A turn no restart follows up: its reconciliation ended it without its fact being
\* recorded, or an exact response says of it only that the view of it was lost.
Stranded(a) ==
    \/ reconciliations[a] = "Terminal"
    \/ write_evidence[a].kind = "ExactResponse" /\ RecoveredFacts(a) \subseteq DegradedFacts

Unended(a) == native[a] \in {"sent", "running", "finished"} /\ "Terminal" \notin turn_facts'[a]

\* What the server may run is read by a recovery as a turn to observe or to reconcile.
LEMMA RecoveredFollowed ==
    ASSUME TypeOK, RecordsHold, RefsHold, DoubtsHold, RecoverAuthorityState, NEW a \in Attempts, Unended(a),
           ~Stranded(a)
    PROVE  RecoveredObserving(a) \/ RecoveredReconciling(a)
<1> USE DEF TypeOK, StoreTypeOK
<1>1. "Terminal" \notin RecoveredFacts(a)
  BY DEF Unended, RecoverAuthorityState
<1>2. Accounted(a) /\ ~Refuted(a)
  BY DEF RecordsHold, RecordHolds, Unended
<1>3. turn_facts[a] \subseteq Facts /\ reconciliations[a] \in {"none", "Unknown", "Accepted"}
  BY <1>2 DEF Refuted, Stranded, Reconciliations
<1>4. write_evidence[a] # NoEvidence =>
         \/ write_evidence[a].kind \in {"WriterAccepted", "ExactResponse"}
         \/ write_evidence[a] = UnknownEvidence
  BY <1>2 DEF Refuted, Evidence, NoEvidence, UnknownEvidence, EvidenceOf, ExactResponse
<1>5. UnknownEvidence.kind = "Unknown" /\ NoEvidence.kind = "none"
  BY DEF UnknownEvidence, NoEvidence, EvidenceOf
<1>6. write_evidence[a] = NoEvidence => Unresolved(a)
  BY <1>2, <1>5 DEF Accounted, Unresolved
<1>7. RecoveredRef(a) # "none"
  BY <1>6 DEF RecoveredRef, RefsHold
<1>8. CASE RecoveredEvidence(a) = UnknownEvidence
  BY <1>1, <1>3, <1>7, <1>8 DEF RecoveredObserving, RecoveredReconciling
<1>9. CASE RecoveredEvidence(a) # UnknownEvidence
  <2>1. /\ RecoveredEvidence(a) = write_evidence[a] /\ write_evidence[a].kind \in {"WriterAccepted", "ExactResponse"}
        /\ ~(Interrupted(a) /\ write_evidence[a].kind = "WriterAccepted")
    BY <1>4, <1>6, <1>9 DEF RecoveredEvidence
  <2>2. CASE write_evidence[a].kind = "WriterAccepted"
    <3>1. turn_facts[a] # {} /\ turn_facts[a] \cap DegradedFacts = {} /\ RecoveredFacts(a) = turn_facts[a]
      BY <1>5, <2>1, <2>2, <1>9 DEF DoubtsHold, Interrupted, RecoveredFacts
    <3>2. RecoveredFacts(a) \cap {"Accepted", "Started"} # {}
      BY <1>1, <1>3, <3>1 DEF Facts, TurnFacts
    <3> QED BY <1>1, <1>7, <2>1, <3>2 DEF RecoveredObserving
  <2>3. CASE write_evidence[a].kind = "ExactResponse"
    <3>1. PICK f \in RecoveredFacts(a) : f \notin DegradedFacts
      BY <2>3 DEF Stranded
    <3>2. RecoveredFacts(a) \subseteq Facts
      <4>1. write_evidence[a].fact \in Facts
        BY <2>3 DEF Evidence, EvidenceOf, ExactResponse
      <4> QED BY <4>1, <1>3 DEF RecoveredFacts
    <3>3. f \in {"Accepted", "Started"}
      BY <1>1, <3>1, <3>2 DEF Facts, TurnFacts
    <3> QED BY <1>1, <1>7, <2>1, <3>1, <3>3 DEF RecoveredObserving
  <2> QED BY <2>1, <2>2, <2>3
<1> QED BY <1>8, <1>9

LEMMA PlainStep ==
    ASSUME PathInv, CodexPlain, Operation, port = "codex", port' = port PROVE CodexPlain'
<1> USE DEF PathInv, TypeOK, StoreTypeOK
<1> DEFINE Kinds == \A a \in Attempts : write_evidence[a].kind # "ExactResponse" /\ reconciliations[a] # "Terminal"
           Answer == outcome.kind # "ExactResponse"
           Item == step.at \in {"reconcile", "reconcileFact"} => step.item # "Terminal"
<1>1. Kinds /\ Answer /\ Item
  BY DEF CodexPlain
<1>2. UNCHANGED <<write_evidence, reconciliations>> => Kinds'
  BY <1>1
<1>3. Answer'
  <2>1. NoOutcome.kind # "ExactResponse"
    BY DEF NoOutcome, EvidenceOf
  <2>2. outcome' \in {outcome, NoOutcome} => Answer'
    BY <1>1, <2>1
  <2>3. (\E o \in Outcomes : WriteNothing(o)) \/ (\E o \in Outcomes, n \in NativeStates : WriteReservedTurn(o, n)) => Answer'
    BY DEF WriteNothing, WriteReservedTurn, WriteAnswer
  <2>4. \/ outcome' \in {outcome, NoOutcome}
        \/ (\E o \in Outcomes : WriteNothing(o)) \/ (\E o \in Outcomes, n \in NativeStates : WriteReservedTurn(o, n))
    BY DEF Operation, RegisterManagedArm, ReserveControllerBirth, ResolveThreadCreate, LeaseExpires, ThreadProgress,
       CreateOwned, ReceiveLate, AdmitClaim, Prepare, NativeProgress, AuthorizeProbeRefused, AuthorizeProbeActive,
       AuthorizeProbeUnproven, AuthorizeProbeIdle, RevokeAttachment, ConcludeRefused, ConcludeEpochInvalidated,
       ConcludeEvidence, TakeWriting, ConcludeFact, StoreCallFails, PollAndRecordExact, PollRefused, ReconcileCodex,
       ReconcileScripted, ReconcileCodexRejected, RecordReconciliation, RecordReconciledFact, Crash, LoseMemory,
       Recover, coordVars
  <2> HIDE DEF Answer
  <2> QED BY <2>2, <2>3, <2>4
<1>4. Item'
  <2>1. step' \in {step, Idle} => Item'
    BY <1>1 DEF Idle
  <2>2. ConcludeEvidence => Item'
    <3>1. ConcludeEvidence => step' = step \/ \E f : step' = [at |-> "conclude", attempt |-> writing, item |-> f]
      BY DEF ConcludeEvidence, Continue
    <3> QED BY <1>1, <3>1
  <2>3. (\E d \in Reconciliations : ReconcileCodex(d)) => Item'
    BY DEF ReconcileCodex, Continue
  <2>4. RecordReconciliation => Item'
    BY <1>1 DEF RecordReconciliation, Continue, Idle
  <2>5. \/ step' \in {step, Idle} \/ ConcludeEvidence \/ (\E d \in Reconciliations : ReconcileCodex(d))
        \/ RecordReconciliation
    BY DEF Operation, RegisterManagedArm, ReserveControllerBirth, ResolveThreadCreate, LeaseExpires, ThreadProgress,
       CreateOwned, ReceiveLate, AdmitClaim, Prepare, NativeProgress, AuthorizeProbeRefused, AuthorizeProbeActive,
       AuthorizeProbeUnproven, AuthorizeProbeIdle, TakeProbing, RevokeAttachment, WriteNothing, WriteReservedTurn,
       ConcludeRefused, ConcludeEpochInvalidated, ConcludeFact, StoreCallFails, PollAndRecordExact, PollRefused,
       ReconcileScripted, ReconcileCodexRejected, RecordReconciledFact, Crash, LoseMemory, Recover
  <2> HIDE DEF Item
  <2> QED BY <2>1, <2>2, <2>3, <2>4, <2>5
<1>5. Kinds'
  <2>1. UnknownEvidence.kind # "ExactResponse"
    BY DEF UnknownEvidence, EvidenceOf
  <2>2. ASSUME ConcludeEvidence PROVE Kinds'
    <3>1. /\ \E x : write_evidence' = [write_evidence EXCEPT ![x] = outcome]
          /\ reconciliations' = reconciliations
      BY <2>2 DEF ConcludeEvidence, RecordNativeWriteEvidence
    <3> QED BY <1>1, <3>1
  <2>3. ASSUME NEW x, NEW f, NEW turn, RecordNativeTurnFact(x, f, turn) PROVE Kinds'
    <3>1. /\ \/ write_evidence' = write_evidence
             \/ write_evidence' = [write_evidence EXCEPT ![x] = UnknownEvidence]
          /\ reconciliations' = reconciliations
      BY <2>3 DEF RecordNativeTurnFact
    <3> QED BY <1>1, <2>1, <3>1
  <2>4. ASSUME RecoverAuthorityState PROVE Kinds'
    <3>1. \A a \in Attempts : write_evidence'[a] \in {write_evidence[a], UnknownEvidence}
      BY <2>4 DEF RecoverAuthorityState, RecoveredEvidence
    <3> QED BY <1>1, <2>1, <2>4, <3>1 DEF RecoverAuthorityState
  <2>5. ASSUME RecordReconciliation PROVE Kinds'
    <3>1. /\ \E x : reconciliations' = [reconciliations EXCEPT ![x] = step.item]
          /\ write_evidence' = write_evidence /\ step.item # "Terminal"
      BY <1>1, <2>5 DEF RecordReconciliation, RecordReconciliationFact
    <3> QED BY <1>1, <3>1
  <2>6. \/ UNCHANGED <<write_evidence, reconciliations>>
        \/ ConcludeEvidence
        \/ \E x, f, turn : RecordNativeTurnFact(x, f, turn)
        \/ RecoverAuthorityState
        \/ RecordReconciliation
    BY DEF Operation, RegisterManagedArm, PersistArm, ReserveControllerBirth, ReserveBirthRow, ResolveThreadCreate,
       ResolveCreateRow, LeaseExpires, ThreadProgress, CreateOwned, ReceiveLate, AdmitClaim, AdmitClaimRow, Prepare,
       RecordDispatchPrepared, NativeProgress, AuthorizeProbeRefused, AuthorizeProbeActive, AuthorizeProbeUnproven,
       AuthorizeProbeIdle, RecordActiveHold, RecordPrewriteConclusion, ReserveNativeTurnWrite, RevokeAttachment,
       RevokeAttachmentRow, WriteNothing, WriteReservedTurn, ConcludeRefused, ConcludeEpochInvalidated,
       ConcludeFact, RecordReconciledFact, PollAndRecordExact, StoreCallFails, PollRefused, ReconcileCodex,
       ReconcileScripted, ReconcileCodexRejected, Crash, Recover, storeVars, evidenceVars
  <2> HIDE DEF Kinds
  <2> QED BY <1>2, <2>2, <2>3, <2>4, <2>5, <2>6
<1> QED BY <1>3, <1>4, <1>5 DEF CodexPlain

\* The follow-ups a restart installs are the scopes it reads off the store.
LEMMA ResumeStep ==
    ASSUME PathInv, CoherentInv, RefsHold, Operation, status = "down", status' = "up",
           NEW a \in Attempts, Unended(a), ~Stranded(a)
    PROVE  a \in {observing'.attempt, reconciling'.attempt}
<1>1. Recover
  BY DEF Operation, RegisterManagedArm, ReserveControllerBirth, ResolveThreadCreate, LeaseExpires, ThreadProgress,
     CreateOwned, ReceiveLate, AdmitClaim, Prepare, NativeProgress, AuthorizeProbeRefused, AuthorizeProbeActive,
     AuthorizeProbeUnproven, AuthorizeProbeIdle, TakeProbing, RevokeAttachment, WriteNothing, WriteReservedTurn,
     ConcludeRefused, ConcludeEpochInvalidated, ConcludeEvidence, TakeWriting, ConcludeFact, StoreCallFails,
     PollAndRecordExact, PollRefused, ReconcileCodex, ReconcileScripted, ReconcileCodexRejected,
     RecordReconciliation, RecordReconciledFact, Crash, Ready
<1>2. /\ RecoverAuthorityState
      /\ \A s, t \in ObservationScopes \cup ReconciliationScopes : s = t
      /\ ObservationScopes # {} => observing' \in ObservationScopes
      /\ ReconciliationScopes # {} => reconciling' \in ReconciliationScopes
  BY <1>1 DEF Recover
<1>3. RecoveredObserving(a) \/ RecoveredReconciling(a)
  BY <1>2, RecoveredFollowed DEF PathInv, CoreInv, CoherentInv
<1>4. CASE RecoveredObserving(a)
  <2>1. Scope(a, TRUE, RecoveredRef(a)) \in ObservationScopes
    BY <1>4 DEF ObservationScopes
  <2>2. observing' = Scope(a, TRUE, RecoveredRef(a))
    BY <1>2, <2>1
  <2> QED BY <2>2 DEF Scope
<1>5. CASE RecoveredReconciling(a)
  <2>1. Scope(a, a \in turn_refs, RecoveredRef(a)) \in ReconciliationScopes
    BY <1>5 DEF ReconciliationScopes
  <2>2. reconciling' = Scope(a, a \in turn_refs, RecoveredRef(a))
    BY <1>2, <2>1
  <2>3. reconciling'.attempt = a
    BY <2>2, Zenon DEF Scope
  <2> QED BY <2>3
<1> QED BY <1>3, <1>4, <1>5

LEMMA ResumeInvariant == Spec => [](PathInv /\ CoherentInv /\ RefsHold)
<1>1. Init => RefsHold
  BY DEF Init, StoreInit, RefsHold
<1>2. PathInv /\ CoherentInv /\ RefsHold /\ [Next]_vars => RefsHold'
  <2> SUFFICES ASSUME PathInv, CoherentInv, RefsHold, [Next]_vars PROVE RefsHold'
    OBVIOUS
  <2>1. CASE Next
    BY <2>1, RefsStep DEF Next
  <2>2. CASE UNCHANGED vars
    BY <2>2 DEF vars, storeVars, evidenceVars, RefsHold
  <2> QED BY <2>1, <2>2
<1> QED BY <1>1, <1>2, PathInvariant, CoherentInvariant, PTL DEF Spec

\* A restart that succeeds follows up every turn the server may run and whose end is
\* not on record, behind either controller, but for the two kinds it has no scope for:
\* a reconciliation that ended the turn and lost its fact, and an exact response that
\* degraded.
THEOREM RestartResumes ==
    Spec => [][ status = "down" /\ status' = "up" =>
                  \A a \in Attempts :
                     Unended(a) /\ ~Stranded(a) => a \in {observing'.attempt, reconciling'.attempt} ]_vars
<1>1. PathInv /\ CoherentInv /\ RefsHold /\ [Next]_vars =>
         [ status = "down" /\ status' = "up" =>
              \A a \in Attempts :
                 Unended(a) /\ ~Stranded(a) => a \in {observing'.attempt, reconciling'.attempt} ]_vars
  BY ResumeStep DEF Next
<1> QED BY <1>1, ResumeInvariant, PTL DEF Spec

\* The Codex controller has neither kind, so a host with it takes every such turn up
\* again: a crash between the write, its evidence, its fact and a reconciliation drops
\* none.
THEOREM CodexResumes == Spec /\ port = "codex" => RecoveryResumes
<1> DEFINE Codex == port = "codex" /\ CodexPlain
<1>1. Init /\ port = "codex" => Codex
  BY DEF Init, StoreInit, CodexPlain, NoOutcome, NoEvidence, EvidenceOf, Idle
<1>2. PathInv /\ Codex /\ [Next]_vars => Codex'
  <2> SUFFICES ASSUME PathInv, Codex, [Next]_vars PROVE Codex'
    OBVIOUS
  <2>1. CASE Next
    BY <2>1, PlainStep DEF Next
  <2>2. CASE UNCHANGED vars
    BY <2>2 DEF vars, storeVars, evidenceVars, coordVars, CodexPlain
  <2> QED BY <2>1, <2>2
<1>3. PathInv /\ CoherentInv /\ RefsHold /\ Codex /\ [Next]_vars =>
         [ status = "down" /\ status' = "up" =>
              \A a \in Attempts :
                 /\ native[a] \in {"sent", "running", "finished"}
                 /\ "Terminal" \notin turn_facts'[a]
                 => a \in {observing'.attempt, reconciling'.attempt} ]_vars
  <2>1. Codex => \A a \in Attempts : ~Stranded(a)
    BY DEF CodexPlain, Stranded
  <2> QED BY <2>1, ResumeStep DEF Next, Unended
<1> HIDE DEF Codex
<1> QED BY <1>1, <1>2, <1>3, ResumeInvariant, PTL DEF Spec, RecoveryResumes
=============================================================================
