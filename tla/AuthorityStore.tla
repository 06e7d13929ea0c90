--------------------------- MODULE AuthorityStore ---------------------------
(***************************************************************************)
(* The durable half of the managed native path: the sections of the        *)
(* semantic store (gearwit-host/src/persist.rs, FakePersist) that claim an *)
(* attempt, own a controller thread and account for its one native write.  *)
(*                                                                         *)
(* The store is a single writer and every port method is one atomic        *)
(* transition.  A method is given here as the condition under which it     *)
(* succeeds and the action it then takes; a method that fails changes      *)
(* nothing.  Random identities are abstracted by what they identify: a     *)
(* controller birth by the arm and generation it was reserved for (the     *)
(* authority reserves one for each), a turn correlation and the probe      *)
(* minted with it by the attempt, a native turn reference by the attempt   *)
(* whose one native turn it names, a write-evidence reference by the call  *)
(* that minted it.  Digests, signal and seat identities and verifiers are  *)
(* functions of the attempt and are left out.                              *)
(***************************************************************************)
EXTENDS Integers

CONSTANTS Arms,        \* managed arms
          Gens,        \* generations an arm may be registered at
          Requests,    \* claim request ids
          MaxAttempt   \* bound on attempt_seq

ASSUME StoreAssumption ==
    /\ Gens \subseteq Nat \ {0}
    /\ MaxAttempt \in Nat

Births == Arms \X Gens
NoBirth == <<>>
NoGen == 0
Attempts == 1..MaxAttempt
NoAttempt == 0

Ownership == {"Absent", "Reserved", "Unknown", "ProvenNotAccepted", "Owned"}

\* Facts that name the native turn, and facts that say only that the view of
\* it was lost.
TurnFacts == {"Accepted", "Started", "Terminal"}
DegradedFacts == {"DegradedTerminalObservation", "ControllerLost", "Unknown"}
Facts == TurnFacts \cup DegradedFacts

Conclusions == {"none", "HeldBeforeNativeWrite", "IdleStateUnproven",
                "IdleEpochInvalidated"}

EvidenceOf(k) == [kind |-> k, fact |-> "none"]
ExactResponse(f) == [kind |-> "ExactResponse", fact |-> f]
NoEvidence == EvidenceOf("none")
UnknownEvidence == EvidenceOf("Unknown")
Evidence == {EvidenceOf(k) : k \in {"none", "ProvenNotAccepted", "WriterAccepted", "Unknown"}}
            \cup {ExactResponse(f) : f \in Facts}

EvidenceRefs == {"none", "conclude", "recover"}
Reconciliations == {"none", "Unknown", "Accepted", "Terminal", "ProvenNotAccepted"}

VARIABLES
    arms,             \* registered generation of each arm
    ownership,        \* thread ownership of each controller birth
    claim_attempts,   \* the attempt each claim request was admitted as
    attachments,      \* the birth each attempt is attached to
    attempt_seq,
    revoked,          \* attempts whose attachment is revoked
    prepared,         \* attempts with a prepared dispatch correlation
    consumed_probes,
    prewrite,         \* durable zero-write conclusion of each attempt
    reservations,     \* native write reservation: "none", "open", "concluded"
    turn_refs,        \* attempts whose correlation carries its turn_ref
    sealed,           \* attempts with a sealed native turn coordinate
    write_evidence,
    write_evidence_refs,
    turn_facts,
    reconciliations

birthVars == <<arms, ownership>>
claimVars == <<claim_attempts, attachments, attempt_seq, revoked>>
dispatchVars == <<prepared, consumed_probes, prewrite>>
evidenceVars == <<write_evidence, write_evidence_refs, turn_facts, reconciliations>>
storeVars == <<birthVars, claimVars, dispatchVars, reservations, turn_refs, sealed,
               evidenceVars>>

StoreTypeOK ==
    /\ arms \in [Arms -> Gens \cup {NoGen}]
    /\ ownership \in [Births -> Ownership]
    /\ claim_attempts \in [Requests -> Attempts \cup {NoAttempt}]
    /\ attachments \in [Attempts -> Births \cup {NoBirth}]
    /\ attempt_seq \in 0..MaxAttempt
    /\ revoked \subseteq Attempts
    /\ prepared \subseteq Attempts
    /\ consumed_probes \subseteq Attempts
    /\ prewrite \in [Attempts -> Conclusions]
    /\ reservations \in [Attempts -> {"none", "open", "concluded"}]
    /\ turn_refs \subseteq Attempts
    /\ sealed \subseteq Attempts
    /\ write_evidence \in [Attempts -> Evidence]
    /\ write_evidence_refs \in [Attempts -> EvidenceRefs]
    /\ turn_facts \in [Attempts -> SUBSET Facts]
    /\ reconciliations \in [Attempts -> Reconciliations]

StoreInit ==
    /\ arms = [m \in Arms |-> NoGen]
    /\ ownership = [b \in Births |-> "Absent"]
    /\ claim_attempts = [r \in Requests |-> NoAttempt]
    /\ attachments = [a \in Attempts |-> NoBirth]
    /\ attempt_seq = 0
    /\ revoked = {}
    /\ prepared = {}
    /\ consumed_probes = {}
    /\ prewrite = [a \in Attempts |-> "none"]
    /\ reservations = [a \in Attempts |-> "none"]
    /\ turn_refs = {}
    /\ sealed = {}
    /\ write_evidence = [a \in Attempts |-> NoEvidence]
    /\ write_evidence_refs = [a \in Attempts |-> "none"]
    /\ turn_facts = [a \in Attempts |-> {}]
    /\ reconciliations = [a \in Attempts |-> "none"]

-----------------------------------------------------------------------------
(* Arms, births and claims *)

\* persist_arm overwrites whatever was registered for the arm.
PersistArm(m, g) ==
    /\ arms' = [arms EXCEPT ![m] = g]
    /\ UNCHANGED <<ownership, claimVars, dispatchVars, reservations, turn_refs, sealed,
                   evidenceVars>>

ReserveBirthRow(b) ==
    /\ ownership[b] = "Absent"
    /\ ownership' = [ownership EXCEPT ![b] = "Reserved"]
    /\ UNCHANGED <<arms, claimVars, dispatchVars, reservations, turn_refs, sealed,
                   evidenceVars>>

\* A create resolves once; an unknown create may still resolve exactly.  The
\* same state under a new evidence reference is a conflict.
CreateResolvable(b, next) ==
    \/ ownership[b] = "Reserved"
    \/ ownership[b] = "Unknown" /\ next \in {"Owned", "ProvenNotAccepted"}

ResolveCreateRow(b, next) ==
    /\ CreateResolvable(b, next)
    /\ ownership' = [ownership EXCEPT ![b] = next]
    /\ UNCHANGED <<arms, claimVars, dispatchVars, reservations, turn_refs, sealed,
                   evidenceVars>>

\* One claim for each request id and one for each arm and generation.  A
\* replay of an admitted request returns the recorded attempt and changes
\* nothing, as does every conflict.
AdmitClaimRow(r, b) ==
    LET a == attempt_seq + 1 IN
    /\ claim_attempts[r] = NoAttempt
    /\ \A x \in Attempts : attachments[x] # b
    /\ a \in Attempts /\ attachments[a] = NoBirth
    /\ claim_attempts' = [claim_attempts EXCEPT ![r] = a]
    /\ attachments' = [attachments EXCEPT ![a] = b]
    /\ attempt_seq' = a
    /\ UNCHANGED <<revoked, birthVars, dispatchVars, reservations, turn_refs, sealed,
                   evidenceVars>>

RevokeAttachmentRow(a) ==
    /\ attachments[a] # NoBirth
    /\ revoked' = revoked \cup {a}
    /\ UNCHANGED <<claim_attempts, attachments, attempt_seq, birthVars, dispatchVars,
                   reservations, turn_refs, sealed, evidenceVars>>

-----------------------------------------------------------------------------
(* Preparation, zero-write conclusions and the write reservation *)

RecordDispatchPrepared(a) ==
    /\ a \notin prepared
    /\ prepared' = prepared \cup {a}
    /\ UNCHANGED <<consumed_probes, prewrite, birthVars, claimVars, reservations,
                   turn_refs, sealed, evidenceVars>>

\* An equal conclusion is a replay; a different one is a conflict.
RecordPrewriteConclusion(a, c) ==
    /\ prewrite[a] = "none"
    /\ prewrite' = [prewrite EXCEPT ![a] = c]
    /\ reservations' = [reservations EXCEPT ![a] = IF @ = "none" THEN @ ELSE "concluded"]
    /\ UNCHANGED <<prepared, consumed_probes, birthVars, claimVars, turn_refs, sealed,
                   evidenceVars>>

RecordActiveHold(a) ==
    /\ attachments[a] # NoBirth /\ a \notin revoked /\ a \in prepared
    /\ ownership[attachments[a]] = "Owned"
    /\ prewrite[a] = "none"
    /\ a \notin consumed_probes
    /\ consumed_probes' = consumed_probes \cup {a}
    /\ prewrite' = [prewrite EXCEPT ![a] = "HeldBeforeNativeWrite"]
    /\ UNCHANGED <<prepared, birthVars, claimVars, reservations, turn_refs, sealed,
                   evidenceVars>>

\* Mutant: the reservation is recorded as if its write were concluded.
ReserveNativeTurnWriteConcluded(a) ==
    /\ a \notin consumed_probes
    /\ reservations[a] = "none"
    /\ attachments[a] # NoBirth /\ a \notin revoked
    /\ consumed_probes' = consumed_probes \cup {a}
    /\ reservations' = [reservations EXCEPT ![a] = "concluded"]
    /\ UNCHANGED <<prepared, prewrite, birthVars, claimVars, turn_refs, sealed,
                   evidenceVars>>

ReserveNativeTurnWrite(a) ==
    /\ a \notin consumed_probes
    /\ reservations[a] = "none"
    /\ attachments[a] # NoBirth /\ a \notin revoked
    /\ consumed_probes' = consumed_probes \cup {a}
    /\ reservations' = [reservations EXCEPT ![a] = "open"]
    /\ UNCHANGED <<prepared, prewrite, birthVars, claimVars, turn_refs, sealed,
                   evidenceVars>>

-----------------------------------------------------------------------------
(* Native write evidence, turn facts, reconciliation *)

\* validate_coordinate_scope for a turn: the correlation must be reserved, the
\* attachment unrevoked, and the turn reference absent (sealing) or exactly the
\* one presented (opening, or sealing the same coordinate again).
CanSealTurn(a) ==
    /\ reservations[a] # "none" /\ a \notin revoked
    /\ a \in turn_refs => a \in sealed

CanOpenTurn(a) ==
    /\ reservations[a] # "none" /\ a \notin revoked
    /\ a \in turn_refs /\ a \in sealed

\* The evidence commit presents the correlation as it was prepared, without a
\* turn reference.
EvidenceRecordable(a) ==
    /\ reservations[a] # "none" /\ a \notin turn_refs
    /\ write_evidence[a] = NoEvidence

RecordNativeWriteEvidence(a, e) ==
    /\ EvidenceRecordable(a)
    /\ write_evidence' = [write_evidence EXCEPT ![a] = e]
    /\ write_evidence_refs' = [write_evidence_refs EXCEPT ![a] = "conclude"]
    /\ reservations' = [reservations EXCEPT ![a] = "concluded"]
    /\ UNCHANGED <<turn_facts, reconciliations, birthVars, claimVars, dispatchVars,
                   turn_refs, sealed>>

\* turn says whether the presented correlation carries the turn reference.
TurnFactRecordable(a, f, turn) ==
    /\ a \in prepared
    /\ f \in TurnFacts => turn /\ a \in sealed /\ reservations[a] # "none"

\* Mutant: a degraded fact leaves the evidence of the write as it was.
RecordNativeTurnFactUndoubted(a, f, turn) ==
    /\ TurnFactRecordable(a, f, turn)
    /\ turn_facts' = [turn_facts EXCEPT ![a] = @ \cup {f}]
    /\ turn_refs' = IF f \in TurnFacts THEN turn_refs \cup {a} ELSE turn_refs
    /\ UNCHANGED <<write_evidence, write_evidence_refs, reconciliations, birthVars,
                   claimVars, dispatchVars, reservations, sealed>>

\* A fact already recorded is a replay.  A degraded fact reopens the write as
\* ambiguous.
RecordNativeTurnFact(a, f, turn) ==
    /\ TurnFactRecordable(a, f, turn)
    /\ IF f \in turn_facts[a]
       THEN UNCHANGED <<turn_facts, turn_refs, write_evidence>>
       ELSE /\ turn_facts' = [turn_facts EXCEPT ![a] = @ \cup {f}]
            /\ turn_refs' = IF f \in TurnFacts THEN turn_refs \cup {a} ELSE turn_refs
            /\ write_evidence' = IF f \in DegradedFacts
                                 THEN [write_evidence EXCEPT ![a] = UnknownEvidence]
                                 ELSE write_evidence
    /\ UNCHANGED <<write_evidence_refs, reconciliations, birthVars, claimVars,
                   dispatchVars, reservations, sealed>>

\* The scope presented: an attempt, whether its correlation carries the turn
\* reference, and the evidence reference it was issued under.
ReconciliationBound(scope) ==
    /\ reservations[scope.attempt] # "none"
    /\ scope.turn = (scope.attempt \in turn_refs)
    /\ write_evidence[scope.attempt] = UnknownEvidence
    /\ write_evidence_refs[scope.attempt] = scope.ref

\* Mutant: a later answer replaces one that decided.
RecordReconciliationFactAnew(scope, d) ==
    /\ ReconciliationBound(scope)
    /\ reconciliations' = [reconciliations EXCEPT ![scope.attempt] = d]
    /\ UNCHANGED <<write_evidence, write_evidence_refs, turn_facts, birthVars, claimVars,
                   dispatchVars, reservations, turn_refs, sealed>>

RecordReconciliationFact(scope, d) ==
    /\ ReconciliationBound(scope)
    /\ reconciliations[scope.attempt] \in {"none", "Unknown", d}
    /\ reconciliations' = [reconciliations EXCEPT ![scope.attempt] = d]
    /\ UNCHANGED <<write_evidence, write_evidence_refs, turn_facts, birthVars, claimVars,
                   dispatchVars, reservations, turn_refs, sealed>>

-----------------------------------------------------------------------------
(* Recovery *)

\* Evidence whose turn fact was never recorded.
Interrupted(a) == write_evidence[a] # NoEvidence /\ turn_facts[a] = {}

\* A reservation nothing was ever concluded about.
Unresolved(a) == reservations[a] = "open" /\ write_evidence[a] = NoEvidence

RecoveredEvidence(a) ==
    IF Unresolved(a) \/ (Interrupted(a) /\ write_evidence[a].kind = "WriterAccepted")
    THEN UnknownEvidence
    ELSE write_evidence[a]

RecoveredFacts(a) ==
    IF Interrupted(a) /\ write_evidence[a].kind = "ExactResponse"
    THEN {write_evidence[a].fact}
    ELSE turn_facts[a]

RecoveredRef(a) == IF Unresolved(a) THEN "recover" ELSE write_evidence_refs[a]

\* recover_authority_state quarantines creates in flight, turns interrupted
\* facts and unresolved reservations into their durable reading, and leaves the
\* turn references of the correlations as they are.  It touches no sealed
\* coordinate; the caller says what else happens to those.
RecoverAuthorityState ==
    /\ ownership' = [b \in Births |-> IF ownership[b] = "Reserved" THEN "Unknown"
                                      ELSE ownership[b]]
    /\ write_evidence' = [a \in Attempts |-> RecoveredEvidence(a)]
    /\ write_evidence_refs' = [a \in Attempts |-> RecoveredRef(a)]
    /\ turn_facts' = [a \in Attempts |-> RecoveredFacts(a)]
    /\ reservations' = [a \in Attempts |-> IF Unresolved(a) THEN "concluded"
                                           ELSE reservations[a]]
    /\ UNCHANGED <<arms, claimVars, dispatchVars, turn_refs, reconciliations>>
=============================================================================
