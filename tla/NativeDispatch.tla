--------------------------- MODULE NativeDispatch ---------------------------
(***************************************************************************)
(* The managed native path over the durable store: the daemon authority    *)
(* (gearwit-host/src/authority.rs), the split-phase coordinator            *)
(* (coordinator.rs) and the controller port with its two implementations   *)
(* (codex_transport.rs, controller.rs), against a native application       *)
(* server that is not part of the repository.                              *)
(*                                                                         *)
(* The host calls one operation at a time.  An operation that makes two    *)
(* store calls keeps its continuation in step, so that a crash or a store  *)
(* failure can fall between them; nothing else runs in between.  A crash   *)
(* loses every variable of this module except the two that describe the    *)
(* native server and the clock.                                            *)
(*                                                                         *)
(* The authority's in-memory maps follow the store's sections (every       *)
(* mutation writes the store first and the map next, recovery rebuilds the *)
(* maps), so operations read the store.  The one exception, a birth that   *)
(* another arm's reconciliation quarantines behind the map's back, reads   *)
(* alike in both: no operation tells Reserved from Unknown by the map.  An *)
(* arm and generation keep one lease: a generation is not registered again *)
(* with another coverage.                                                  *)
(***************************************************************************)
EXTENDS AuthorityStore

CONSTANT Ports   \* the controllers a host may have behind its port

ASSUME PortAssumption == Ports \subseteq {"codex", "scripted"}

VARIABLES
    port,          \* the controller this host has, for good
    status,        \* "up", or "down" between a crash and a recovery
    step,          \* continuation of the operation in progress
    creates,       \* what the caller holds for each birth's thread create
    receipts,      \* admission receipts the caller still holds
    probing, writing,        \* the coordinator's prepared dispatches
    outcome,                 \* the controller's answer for the attempt in writing
    observing, reconciling,  \* the coordinator's follow-up scopes
    ctl_reconciling,  \* attempts whose controller remembers an unknown write
    ctl_pending,      \* attempts whose turn/start is unanswered on a live transport
    ctl_seen,         \* how far the controller has followed each turn
    expired,       \* births whose lease has passed
    native,        \* what the native server made of each attempt's turn
    native_writes, \* times the bytes of an attempt's turn were put on the wire
    threads        \* what the native server made of each birth's thread/start

createVars == <<creates, receipts>>
coordVars == <<probing, writing, outcome, observing, reconciling>>
ctlVars == <<ctl_reconciling, ctl_pending, ctl_seen>>
nativeVars == <<expired, native, native_writes, threads>>
vars == <<storeVars, port, status, step, createVars, coordVars, ctlVars, nativeVars>>

Scope(a, turn, ref) == [attempt |-> a, turn |-> turn, ref |-> ref]
NoScope == Scope(NoAttempt, FALSE, "none")
Scopes == [attempt : Attempts, turn : BOOLEAN, ref : EvidenceRefs] \cup {NoScope}

Idle == [at |-> "idle", attempt |-> NoAttempt, item |-> "none"]
Continue(at, a, item) == [at |-> at, attempt |-> a, item |-> item]
Steps == {Idle} \cup [at : {"conclude"}, attempt : Attempts, item : Facts]
                \cup [at : {"reconcile"}, attempt : Attempts, item : Reconciliations]
                \cup [at : {"reconcileFact"}, attempt : Attempts, item : {"Accepted", "Terminal"}]

\* What NativeWriteDisposition and ControllerWriteError can be; an exact
\* response carries the fact it reported.
Outcomes == {EvidenceOf(k) : k \in {"none", "ProvenNotAccepted", "WriterAccepted",
                                    "Unknown", "IdleEpochInvalidated", "BindingRejected"}}
            \cup {ExactResponse(f) : f \in Facts}
NoOutcome == EvidenceOf("none")

\* "sent": the bytes may have arrived and the server has not answered.
NativeStates == {"none", "sent", "running", "finished", "refused"}
Seen == {"none", "started", "terminalHeld", "reported"}
CreateStates == {"none", "reserved", "quarantined"}
CreateResults == {"none", "Owned", "ProvenNotAccepted", "Unknown"}

HostTypeOK ==
    /\ status \in {"up", "down"}
    /\ step \in Steps
    /\ creates \in [Births -> [held : CreateStates, result : CreateResults]]
    /\ receipts \subseteq Attempts
    /\ probing \in Attempts \cup {NoAttempt}
    /\ writing \in Attempts \cup {NoAttempt}
    /\ outcome \in Outcomes
    /\ observing \in Scopes
    /\ reconciling \in Scopes
    /\ step.at \in {"reconcile", "reconcileFact"} =>
          reconciling # NoScope /\ reconciling.attempt = step.attempt
    /\ status = "down" => step = Idle

ControllerTypeOK ==
    /\ ctl_reconciling \subseteq Attempts
    /\ ctl_pending \subseteq Attempts
    /\ ctl_seen \in [Attempts -> Seen]

NativeTypeOK ==
    /\ expired \subseteq Births
    /\ native \in [Attempts -> NativeStates]
    /\ native_writes \in [Attempts -> Nat]
    /\ threads \in [Births -> {"none", "sent", "started", "refused"}]

\* The store's rows, the host's memory, the controllers' and the server's.
TypeOK == port \in Ports /\ StoreTypeOK /\ HostTypeOK /\ ControllerTypeOK /\ NativeTypeOK

NoCreate == [held |-> "none", result |-> "none"]

Init ==
    /\ StoreInit
    /\ port \in Ports
    /\ status = "up"
    /\ step = Idle
    /\ creates = [b \in Births |-> NoCreate]
    /\ receipts = {}
    /\ probing = NoAttempt
    /\ writing = NoAttempt
    /\ outcome = NoOutcome
    /\ observing = NoScope
    /\ reconciling = NoScope
    /\ ctl_reconciling = {}
    /\ ctl_pending = {}
    /\ ctl_seen = [a \in Attempts |-> "none"]
    /\ expired = {}
    /\ native = [a \in Attempts |-> "none"]
    /\ native_writes = [a \in Attempts |-> 0]
    /\ threads = [b \in Births |-> "none"]

\* The host may call an operation.
Ready == status = "up" /\ step = Idle

-----------------------------------------------------------------------------
(* Arms, controller births and their one thread/start *)

RegisterManagedArm(m, g) ==
    /\ Ready
    /\ PersistArm(m, g)
    /\ UNCHANGED <<status, step, createVars, coordVars, ctlVars, nativeVars>>

ReserveControllerBirth(b) ==
    /\ Ready
    /\ arms[b[1]] = b[2] /\ b \notin expired
    /\ ReserveBirthRow(b)
    /\ creates' = [creates EXCEPT ![b] = [held |-> "reserved", result |-> "none"]]
    /\ UNCHANGED <<status, step, receipts, coordVars, ctlVars, nativeVars>>

\* What a thread/start can have done by the time its caller is told result.
CreateEffect(b, result) ==
    \/ result = "Owned" /\ threads' = [threads EXCEPT ![b] = "started"]
    \/ /\ result = "ProvenNotAccepted"
       /\ \/ UNCHANGED threads
          \/ threads' = [threads EXCEPT ![b] = "refused"]
    \/ /\ result = "Unknown"
       /\ \E s \in {"sent", "started"} : threads' = [threads EXCEPT ![b] = s]

\* create_owned refuses unless the store still says Reserved.
CreateOwned(b, result) ==
    /\ Ready
    /\ creates[b] = [held |-> "reserved", result |-> "none"]
    /\ ownership[b] = "Reserved"
    /\ CreateEffect(b, result)
    /\ creates' = [creates EXCEPT ![b].result = result]
    /\ UNCHANGED <<storeVars, status, step, receipts, coordVars, ctlVars, expired, native,
                   native_writes>>

\* receive_late polls the transport of a quarantined create: an answer settles
\* it, silence leaves it quarantined.
ReceiveLate(b, result) ==
    /\ Ready
    /\ creates[b] = [held |-> "quarantined", result |-> "none"]
    /\ ownership[b] = "Unknown"
    /\ \/ result = "Owned" /\ threads[b] = "started"
       \/ result = "ProvenNotAccepted" /\ threads[b] = "refused"
    /\ creates' = [creates EXCEPT ![b].result = result]
    /\ UNCHANGED <<storeVars, status, step, receipts, coordVars, ctlVars, nativeVars>>

\* The caller's reservation is consumed whatever the store answers.
ResolveThreadCreate(b) ==
    LET result == creates[b].result IN
    /\ Ready
    /\ creates[b].held # "none" /\ result # "none"
    /\ IF CreateResolvable(b, result)
       THEN /\ ResolveCreateRow(b, result)
            /\ creates' = [creates EXCEPT ![b] =
                              IF result = "Unknown"
                              THEN [held |-> "quarantined", result |-> "none"]
                              ELSE NoCreate]
       ELSE /\ creates' = [creates EXCEPT ![b] = NoCreate]
            /\ UNCHANGED storeVars
    /\ UNCHANGED <<status, step, receipts, coordVars, ctlVars, nativeVars>>

-----------------------------------------------------------------------------
(* Claims and dispatch preparation *)

AdmitClaim(r, m) ==
    LET b == <<m, arms[m]>> IN
    /\ Ready
    /\ arms[m] # NoGen
    /\ ownership[b] = "Owned" /\ b \notin expired
    /\ AdmitClaimRow(r, b)
    /\ receipts' = receipts \cup {attempt_seq + 1}
    /\ UNCHANGED <<status, step, creates, coordVars, ctlVars, nativeVars>>

\* The attachment is unrevoked, its lease runs and its generation is current.
ValidAttachment(a) ==
    LET b == attachments[a] IN
    /\ b # NoBirth
    /\ a \notin revoked
    /\ b \notin expired
    /\ arms[b[1]] = b[2]

\* The receipt is consumed even when preparation is refused.
Prepare(a) ==
    /\ Ready
    /\ a \in receipts
    /\ receipts' = receipts \ {a}
    /\ IF /\ probing = NoAttempt /\ writing = NoAttempt
          /\ ValidAttachment(a)
          /\ ownership[attachments[a]] = "Owned"
          /\ a \notin prepared
       THEN RecordDispatchPrepared(a) /\ probing' = a
       ELSE UNCHANGED <<storeVars, probing>>
    /\ UNCHANGED <<status, step, creates, writing, outcome, observing, reconciling, ctlVars,
                   nativeVars>>

-----------------------------------------------------------------------------
(* The idle probe and its authorization *)

\* The prepared dispatch is taken out of probing before anything can fail.
TakeProbing ==
    /\ Ready
    /\ probing # NoAttempt
    /\ probing' = NoAttempt
    /\ UNCHANGED <<status, step, createVars, observing, reconciling, ctlVars, nativeVars>>

\* A rejected, stale or mismatched probe, a lost authority or a failing store.
AuthorizeProbeRefused ==
    /\ TakeProbing
    /\ UNCHANGED <<storeVars, writing, outcome>>

AuthorizeProbeActive ==
    /\ TakeProbing
    /\ ValidAttachment(probing)
    /\ RecordActiveHold(probing)
    /\ UNCHANGED <<writing, outcome>>

AuthorizeProbeUnproven ==
    /\ TakeProbing
    /\ ValidAttachment(probing)
    /\ RecordPrewriteConclusion(probing, "IdleStateUnproven")
    /\ UNCHANGED <<writing, outcome>>

AuthorizeProbeIdle ==
    /\ TakeProbing
    /\ ValidAttachment(probing)
    /\ ReserveNativeTurnWrite(probing)
    /\ writing' = probing
    /\ outcome' = NoOutcome

-----------------------------------------------------------------------------
(* The native write *)

\* The controller answers without putting a byte on the wire: the lane or the
\* immutable binding is rejected, the frame cannot be prepared, the epoch moved,
\* or the lease has passed at the final check.
WriteNothing(o) ==
    /\ Ready
    /\ writing # NoAttempt /\ outcome = NoOutcome
    /\ o.kind \in {"BindingRejected", "IdleEpochInvalidated", "ProvenNotAccepted"}
    /\ outcome' = o
    /\ UNCHANGED <<storeVars, status, step, createVars, probing, writing, observing,
                   reconciling, ctlVars, nativeVars>>

\* Mutant: a write that failed halfway is taken for one that never arrived.
WriteAnswerPartialProven(a, o, n) ==
    \/ o.kind = "WriterAccepted" /\ n = "running" /\ CanSealTurn(a)
    \/ o.kind = "ProvenNotAccepted" /\ n \in {"refused", "sent"}
    \/ o.kind = "Unknown" /\ n = "running"

\* What the controller can answer once the bytes are out, given what the server
\* made of them.  An acceptance counts only when its turn id could be sealed.
WriteAnswer(a, o, n) ==
    \/ o.kind = "WriterAccepted" /\ n = "running" /\ CanSealTurn(a)
    \/ o.kind = "ProvenNotAccepted" /\ n = "refused"
    \/ o.kind = "Unknown" /\ n \in {"sent", "running"}
    \/ /\ port = "scripted"
       /\ o.kind = "ExactResponse"
       /\ \/ o.fact \in {"Accepted", "Started"} /\ n = "running" /\ CanSealTurn(a)
          \/ o.fact = "Terminal" /\ n = "finished" /\ CanSealTurn(a)
          \/ o.fact \in DegradedFacts /\ n = "running"

WriteReservedTurn(o, n) ==
    LET a == writing IN
    /\ Ready
    /\ a # NoAttempt /\ outcome = NoOutcome
    /\ attachments[a] \notin expired
    /\ WriteAnswer(a, o, n)
    /\ native' = [native EXCEPT ![a] = n]
    /\ native_writes' = [native_writes EXCEPT ![a] = @ + 1]
    /\ outcome' = o
    /\ sealed' = IF o.kind = "WriterAccepted" \/ o.fact \in TurnFacts
                 THEN sealed \cup {a} ELSE sealed
    /\ ctl_reconciling' = IF o.kind = "Unknown" THEN ctl_reconciling \cup {a}
                          ELSE ctl_reconciling \ {a}
    /\ ctl_pending' = IF o.kind = "Unknown" /\ n = "sent" THEN ctl_pending \cup {a}
                      ELSE ctl_pending
    /\ UNCHANGED <<birthVars, claimVars, dispatchVars, reservations, turn_refs, evidenceVars,
                   status, step, createVars, probing, writing, observing, reconciling,
                   ctl_seen, expired, threads>>

\* The dispatch is taken out of writing before anything can fail.
TakeWriting ==
    /\ Ready
    /\ writing # NoAttempt /\ outcome # NoOutcome
    /\ writing' = NoAttempt
    /\ outcome' = NoOutcome
    /\ UNCHANGED <<status, createVars, probing, ctlVars, nativeVars>>

\* The controller rejected the binding, the store refused the commit (it
\* already holds evidence for the attempt) or the store failed: the follow-up
\* scopes stay as they were.
ConcludeRefused ==
    /\ TakeWriting
    /\ UNCHANGED <<storeVars, step, observing, reconciling>>

ConcludeEpochInvalidated ==
    /\ TakeWriting
    /\ outcome.kind = "IdleEpochInvalidated"
    /\ RecordPrewriteConclusion(writing, "IdleEpochInvalidated")
    /\ observing' = NoScope
    /\ reconciling' = NoScope
    /\ UNCHANGED step

\* The first store call.  A final answer installs the follow-up scopes, both of
\* them, over whatever they held; an answer that carries a fact goes on to
\* record it.
ConcludeEvidence ==
    /\ TakeWriting
    /\ outcome.kind \in {"ProvenNotAccepted", "WriterAccepted", "ExactResponse", "Unknown"}
    /\ RecordNativeWriteEvidence(writing, outcome)
    /\ IF outcome.kind \in {"WriterAccepted", "ExactResponse"}
       THEN /\ step' = Continue("conclude", writing,
                                IF outcome.kind = "WriterAccepted" THEN "Accepted"
                                ELSE outcome.fact)
            /\ UNCHANGED <<observing, reconciling>>
       ELSE /\ observing' = NoScope
            /\ reconciling' = IF outcome.kind = "Unknown"
                              THEN Scope(writing, FALSE, "conclude") ELSE NoScope
            /\ UNCHANGED step

\* The second store call.
ConcludeFact ==
    LET a == step.attempt
        turn == step.item \in TurnFacts
    IN
    /\ status = "up" /\ step.at = "conclude"
    /\ RecordNativeTurnFact(a, step.item, turn)
    /\ step' = Idle
    /\ observing' = Scope(a, turn, "conclude")
    /\ reconciling' = NoScope
    /\ UNCHANGED <<status, createVars, probing, writing, outcome, ctlVars, nativeVars>>

\* A store call after the first one of an operation fails: the operation
\* returns the error and what the first call recorded stays.
StoreCallFails ==
    /\ status = "up" /\ step # Idle
    /\ step' = Idle
    /\ UNCHANGED <<storeVars, status, createVars, coordVars, ctlVars, nativeVars>>

-----------------------------------------------------------------------------
(* Observation of the written turn *)

\* What the Codex controller can report.  A terminal held back until the start
\* was seen comes first; otherwise it opens the sealed turn coordinate and
\* reports a degraded observation when the store refuses.  It reports the start
\* once, and a terminal once and only of a turn whose start it has seen.
CodexObserves(a, f) ==
    IF ctl_seen[a] = "terminalHeld" THEN f = "Terminal"
    ELSE \/ f = "DegradedTerminalObservation"
         \/ /\ CanOpenTurn(a)
            /\ \/ f \in {"ControllerLost", "Unknown"}
               \/ f = "Started" /\ ctl_seen[a] = "none" /\ native[a] \in {"running", "finished"}
               \/ f = "Terminal" /\ ctl_seen[a] = "started" /\ native[a] = "finished"

ScriptedObserves(a, f) ==
    \/ f \in DegradedFacts
    \/ f \in {"Accepted", "Started"} /\ native[a] \in {"running", "finished"}
    \/ f = "Terminal" /\ native[a] = "finished"

\* A start may be reported with the terminal that overtook it already in hand.
SeenAfter(a, f) ==
    IF port = "codex" /\ f = "Started"
    THEN {"started"} \cup (IF native[a] = "finished" THEN {"terminalHeld"} ELSE {})
    ELSE IF port = "codex" /\ f = "Terminal" THEN {"reported"} ELSE {ctl_seen[a]}

PollAndRecordExact(f) ==
    LET scope == observing
        a == scope.attempt
    IN
    /\ Ready
    /\ scope # NoScope
    /\ IF port = "codex" THEN CodexObserves(a, f) ELSE ScriptedObserves(a, f)
    /\ RecordNativeTurnFact(a, f, scope.turn)
    /\ \E seen \in SeenAfter(a, f) : ctl_seen' = [ctl_seen EXCEPT ![a] = seen]
    /\ observing' = IF f \in DegradedFacts \cup {"Terminal"} THEN NoScope ELSE scope
    /\ reconciling' = IF f \in DegradedFacts THEN scope ELSE NoScope
    /\ UNCHANGED <<status, step, createVars, probing, writing, outcome, ctl_reconciling,
                   ctl_pending, nativeVars>>

\* The store refuses the fact of an observation: the controller has reported it
\* all the same.
PollRefused(f) ==
    LET a == observing.attempt IN
    /\ Ready /\ port = "codex"
    /\ observing # NoScope
    /\ CodexObserves(a, f)
    /\ \E seen \in SeenAfter(a, f) : ctl_seen' = [ctl_seen EXCEPT ![a] = seen]
    /\ UNCHANGED <<storeVars, status, step, createVars, coordVars, ctl_reconciling,
                   ctl_pending, nativeVars>>

-----------------------------------------------------------------------------
(* Reconciliation of an ambiguous write *)

\* The controller accepts the scope: the store holds exactly this ambiguity,
\* and the correlation is the one the controller remembers, if it remembers one.
BindingAccepted(scope) ==
    /\ ReconciliationBound(scope)
    /\ scope.attempt \in ctl_reconciling => ~scope.turn

\* The Codex controller reads the store through recover_authority_state, which
\* also quarantines and concludes whatever else is in flight.  Only the answer
\* to a turn/start still pending on its own transport is conclusive.
ReconcileCodex(d) ==
    LET scope == reconciling
        a == scope.attempt
    IN
    /\ Ready /\ port = "codex" /\ scope # NoScope
    /\ BindingAccepted(scope)
    /\ \/ d = "Unknown" /\ UNCHANGED ctl_pending
       \/ /\ a \in ctl_pending
          /\ ctl_pending' = ctl_pending \ {a}
          /\ \/ d = "Accepted" /\ native[a] \in {"running", "finished"} /\ CanSealTurn(a)
             \/ d = "Unknown" /\ native[a] \in {"running", "finished"} /\ ~CanSealTurn(a)
             \/ d = "ProvenNotAccepted" /\ native[a] = "refused"
    /\ RecoverAuthorityState
    /\ sealed' = IF d = "Accepted" THEN sealed \cup {a} ELSE sealed
    /\ step' = Continue("reconcile", a, d)
    /\ UNCHANGED <<status, createVars, coordVars, ctl_reconciling, ctl_seen, nativeVars>>

\* A rejected binding records nothing, but the store was recovered to decide it.
ReconcileCodexRejected ==
    /\ Ready /\ port = "codex" /\ reconciling # NoScope
    /\ ~BindingAccepted(reconciling)
    /\ RecoverAuthorityState
    /\ UNCHANGED <<sealed, status, step, createVars, coordVars, ctlVars, nativeVars>>

\* The scripted controller answers what its script says; the script is truthful.
ReconcileScripted(d) ==
    LET a == reconciling.attempt IN
    /\ Ready /\ port = "scripted" /\ reconciling # NoScope
    /\ \/ d = "Unknown" /\ UNCHANGED sealed
       \/ d = "ProvenNotAccepted" /\ native[a] = "refused" /\ UNCHANGED sealed
       \/ /\ \/ d = "Accepted" /\ native[a] \in {"running", "finished"}
             \/ d = "Terminal" /\ native[a] = "finished"
          /\ CanSealTurn(a)
          /\ sealed' = sealed \cup {a}
    /\ step' = Continue("reconcile", a, d)
    /\ UNCHANGED <<birthVars, claimVars, dispatchVars, reservations, turn_refs, evidenceVars,
                   status, createVars, coordVars, ctlVars, nativeVars>>

\* The first store call of record_reconciliation.
RecordReconciliation ==
    LET d == step.item IN
    /\ status = "up" /\ step.at = "reconcile"
    /\ RecordReconciliationFact(reconciling, d)
    /\ step' = IF d \in {"Accepted", "Terminal"}
               THEN Continue("reconcileFact", step.attempt, d) ELSE Idle
    /\ reconciling' = IF d = "ProvenNotAccepted" THEN NoScope ELSE reconciling
    /\ UNCHANGED <<status, createVars, probing, writing, outcome, observing, ctlVars,
                   nativeVars>>

\* The second store call: an accepted turn is observed again, a terminal one is
\* closed.
RecordReconciledFact ==
    LET a == step.attempt IN
    /\ status = "up" /\ step.at = "reconcileFact"
    /\ RecordNativeTurnFact(a, step.item, TRUE)
    /\ step' = Idle
    /\ reconciling' = NoScope
    /\ observing' = IF step.item = "Accepted" THEN Scope(a, TRUE, reconciling.ref)
                    ELSE observing
    /\ UNCHANGED <<status, createVars, probing, writing, outcome, ctlVars, nativeVars>>

-----------------------------------------------------------------------------
(* Revocation, time, crash and recovery *)

RevokeAttachment(a) ==
    /\ Ready
    /\ RevokeAttachmentRow(a)
    /\ UNCHANGED <<status, step, createVars, coordVars, ctlVars, nativeVars>>

LeaseExpires(b) ==
    /\ b \notin expired
    /\ expired' = expired \cup {b}
    /\ UNCHANGED <<storeVars, status, step, createVars, coordVars, ctlVars, native,
                   native_writes, threads>>

\* The native server decides about bytes it received and finishes what it runs.
NativeProgress(a) ==
    /\ \/ native[a] = "sent" /\ \E n \in {"running", "refused"} :
                                    native' = [native EXCEPT ![a] = n]
       \/ native[a] = "running" /\ native' = [native EXCEPT ![a] = "finished"]
    /\ UNCHANGED <<storeVars, status, step, createVars, coordVars, ctlVars, expired,
                   native_writes, threads>>

ThreadProgress(b) ==
    /\ threads[b] = "sent"
    /\ \E t \in {"started", "refused"} : threads' = [threads EXCEPT ![b] = t]
    /\ UNCHANGED <<storeVars, status, step, createVars, coordVars, ctlVars, expired,
                   native, native_writes>>

\* Mutant: the dispatch in writing is rebuilt from its reservation.
LoseMemoryButWriting ==
    /\ step' = Idle
    /\ creates' = [b \in Births |-> NoCreate]
    /\ receipts' = {}
    /\ probing' = NoAttempt
    /\ writing' = writing
    /\ outcome' = NoOutcome
    /\ ctl_reconciling' = {}
    /\ ctl_pending' = {}
    /\ ctl_seen' = [a \in Attempts |-> "none"]

\* Mutant: the operation in progress outlives the crash.
LoseMemoryButStep ==
    /\ UNCHANGED step
    /\ creates' = [b \in Births |-> NoCreate]
    /\ receipts' = {}
    /\ probing' = NoAttempt
    /\ writing' = NoAttempt
    /\ outcome' = NoOutcome
    /\ ctl_reconciling' = {}
    /\ ctl_pending' = {}
    /\ ctl_seen' = [a \in Attempts |-> "none"]

LoseMemory ==
    /\ step' = Idle
    /\ creates' = [b \in Births |-> NoCreate]
    /\ receipts' = {}
    /\ probing' = NoAttempt
    /\ writing' = NoAttempt
    /\ outcome' = NoOutcome
    /\ ctl_reconciling' = {}
    /\ ctl_pending' = {}
    /\ ctl_seen' = [a \in Attempts |-> "none"]

Crash ==
    /\ status = "up"
    /\ status' = "down"
    /\ LoseMemory
    /\ observing' = NoScope
    /\ reconciling' = NoScope
    /\ UNCHANGED <<storeVars, nativeVars>>

\* recovery_followup_scopes over the recovered store: an attempt with no
\* terminal fact is reconciled while its write is ambiguous and observed once an
\* acceptance is on record.
RecoveredObserving(a) ==
    /\ RecoveredRef(a) # "none"
    /\ "Terminal" \notin RecoveredFacts(a)
    /\ \/ RecoveredEvidence(a) = UnknownEvidence /\ reconciliations[a] = "Accepted"
       \/ /\ RecoveredEvidence(a).kind \in {"WriterAccepted", "ExactResponse"}
          /\ RecoveredFacts(a) \cap {"Accepted", "Started"} # {}

\* Mutant: a reconciliation that stayed unknown is taken for a closed one.
RecoveredReconcilingOnce(a) ==
    /\ RecoveredRef(a) # "none"
    /\ "Terminal" \notin RecoveredFacts(a)
    /\ RecoveredEvidence(a) = UnknownEvidence
    /\ reconciliations[a] = "none"

RecoveredReconciling(a) ==
    /\ RecoveredRef(a) # "none"
    /\ "Terminal" \notin RecoveredFacts(a)
    /\ RecoveredEvidence(a) = UnknownEvidence
    /\ reconciliations[a] \in {"none", "Unknown"}

\* The correlation of a reconciled scope is the reservation's; an observed one
\* is given the turn reference the fact or the reconciliation names.
ObservationScopes ==
    {Scope(a, TRUE, RecoveredRef(a)) : a \in {x \in Attempts : RecoveredObserving(x)}}

ReconciliationScopes ==
    {Scope(a, a \in turn_refs, RecoveredRef(a)) :
        a \in {x \in Attempts : RecoveredReconciling(x)}}

\* HostCoordinator::recover refuses to start over more than one follow-up; the
\* store has been recovered by then.
Recover ==
    LET all == ObservationScopes \cup ReconciliationScopes IN
    /\ status = "down"
    /\ RecoverAuthorityState
    /\ IF \A s, t \in all : s = t
       THEN /\ status' = "up"
            /\ observing' \in IF ObservationScopes = {} THEN {NoScope} ELSE ObservationScopes
            /\ reconciling' \in IF ReconciliationScopes = {} THEN {NoScope}
                                ELSE ReconciliationScopes
       ELSE UNCHANGED <<status, observing, reconciling>>
    /\ UNCHANGED <<sealed, step, createVars, probing, writing, outcome, ctlVars, nativeVars>>

-----------------------------------------------------------------------------

Operation ==
    \/ \E m \in Arms, g \in Gens : RegisterManagedArm(m, g)
    \/ \E b \in Births : \/ ReserveControllerBirth(b)
                         \/ ResolveThreadCreate(b)
                         \/ LeaseExpires(b)
                         \/ ThreadProgress(b)
    \/ \E b \in Births, result \in CreateResults : CreateOwned(b, result)
                                                   \/ ReceiveLate(b, result)
    \/ \E r \in Requests, m \in Arms : AdmitClaim(r, m)
    \/ \E a \in Attempts : \/ Prepare(a)
                           \/ RevokeAttachment(a)
                           \/ NativeProgress(a)
    \/ AuthorizeProbeRefused
    \/ AuthorizeProbeActive
    \/ AuthorizeProbeUnproven
    \/ AuthorizeProbeIdle
    \/ \E o \in Outcomes : WriteNothing(o)
    \/ \E o \in Outcomes, n \in NativeStates : WriteReservedTurn(o, n)
    \/ ConcludeRefused
    \/ ConcludeEpochInvalidated
    \/ ConcludeEvidence
    \/ ConcludeFact
    \/ StoreCallFails
    \/ \E f \in Facts : PollAndRecordExact(f) \/ PollRefused(f)
    \/ \E d \in Reconciliations : ReconcileCodex(d) \/ ReconcileScripted(d)
    \/ ReconcileCodexRejected
    \/ RecordReconciliation
    \/ RecordReconciledFact
    \/ Crash
    \/ Recover

Next == Operation /\ UNCHANGED port
Spec == Init /\ [][Next]_vars

-----------------------------------------------------------------------------
(* Safety properties *)

\* Claim before dispatch, at most once: the bytes of an attempt's turn go on
\* the wire at most one time over all crashes, recoveries and reconciliations,
\* and when they do the claim, the preparation, the owned thread and the
\* reservation are already durable (architecture.md, "claim durably before
\* dispatch").
AtMostOnceAfterClaim ==
    \A a \in Attempts :
        native_writes[a] > 0 =>
            /\ native_writes[a] = 1
            /\ attachments[a] # NoBirth /\ ownership[attachments[a]] = "Owned"
            /\ a \in prepared
            /\ reservations[a] # "none"

\* What makes it inductive: a reservation was made of a prepared, attached and
\* owned attempt, a written attempt is reserved, and the coordinator's two slots
\* hold a prepared and a reserved attempt, the second not yet written while it
\* has no answer.
ClaimedAndOwned(a) ==
    /\ a \in prepared
    /\ attachments[a] # NoBirth /\ ownership[attachments[a]] = "Owned"

WriteProtocol ==
    /\ \A a \in Attempts : reservations[a] # "none" => ClaimedAndOwned(a)
    /\ \A a \in Attempts : native_writes[a] > 0 => native_writes[a] = 1 /\ reservations[a] # "none"
    /\ probing # NoAttempt => ClaimedAndOwned(probing)
    /\ writing # NoAttempt => reservations[writing] # "none"
    /\ writing # NoAttempt /\ outcome = NoOutcome => native_writes[writing] = 0

\* No false negative: whatever the store records as "nothing was written" or
\* "proven not accepted" (by a probe conclusion, by write evidence or by a
\* reconciliation), the native server indeed runs no turn for the attempt and
\* will never start one.  This is what permits a new attempt.
NegativeProofSound ==
    \A a \in Attempts :
        \/ prewrite[a] # "none"
        \/ write_evidence[a].kind = "ProvenNotAccepted"
        \/ reconciliations[a] = "ProvenNotAccepted"
        => native[a] \in {"none", "refused"}

\* Every native effect is durably accounted for at every instant, a crash
\* between the write and its conclusion included: a turn the server may run has
\* either an open reservation, which recovery reads as ambiguous, or positive or
\* ambiguous evidence with a reference to reconcile under.
EffectAccounted ==
    \A a \in Attempts :
        native[a] \in {"sent", "running", "finished"} =>
            \/ reservations[a] = "open"
            \/ /\ write_evidence[a].kind \in {"WriterAccepted", "ExactResponse", "Unknown"}
               /\ write_evidence_refs[a] # "none"

\* A recognized terminal, the fact that lets the arm re-arm, is never recorded
\* before the native turn has really finished.
TerminalFactSound ==
    \A a \in Attempts : "Terminal" \in turn_facts[a] => native[a] = "finished"

\* The coordinator never holds an observation and a reconciliation at once, and
\* a reconciliation it holds is one the store will not refuse for its evidence:
\* the write is ambiguous in the store under exactly that reference.
FollowupsCoherent ==
    /\ observing = NoScope \/ reconciling = NoScope
    /\ reconciling # NoScope =>
          /\ write_evidence[reconciling.attempt] = UnknownEvidence
          /\ write_evidence_refs[reconciling.attempt] = reconciling.ref
    /\ observing # NoScope =>
          write_evidence_refs[observing.attempt] = observing.ref

\* One thread/start for each controller birth: an owned thread was really
\* started, and a birth whose create was proven not accepted has none (an
\* unknown create is never resent).
OwnershipSound ==
    \A b \in Births :
        /\ ownership[b] = "Owned" => threads[b] = "started"
        /\ ownership[b] = "ProvenNotAccepted" => threads[b] \in {"none", "refused"}

\* What the store records of the native side is true of it: its refusals, the facts
\* of its turns and the owners of its threads.
RecordsTruthful == NegativeProofSound /\ TerminalFactSound /\ OwnershipSound

\* Evidence only hardens: a durable conclusion, fact, revocation or reservation
\* is never withdrawn, evidence once recorded only ever degrades to ambiguous,
\* and a reconciliation that decided is final.
EvidenceOnlyDegrades ==
    [][ \A a \in Attempts :
          /\ turn_facts[a] \subseteq turn_facts'[a]
          /\ a \in revoked => a \in revoked'
          /\ prewrite[a] # "none" => prewrite'[a] = prewrite[a]
          /\ reservations[a] = "concluded" => reservations'[a] = "concluded"
          /\ write_evidence[a] # NoEvidence =>
                write_evidence'[a] \in {write_evidence[a], UnknownEvidence}
          /\ reconciliations[a] \notin {"none", "Unknown"} =>
                reconciliations'[a] = reconciliations[a] ]_vars

\* Exact restart: when the host is up again, every turn the server may run or
\* has run, and whose terminal is not on record, has its follow-up scope back
\* (an observation of the accepted turn or a reconciliation of the ambiguous
\* one); none is dropped by what interrupted the first run.
RecoveryResumes ==
    [][ status = "down" /\ status' = "up" =>
          \A a \in Attempts :
             /\ native[a] \in {"sent", "running", "finished"}
             /\ "Terminal" \notin turn_facts'[a]
             => a \in {observing'.attempt, reconciling'.attempt} ]_vars

-----------------------------------------------------------------------------
(* The contract *)

\* What the store's rows say of an attempt.
Phase(a) ==
    LET concluded == {write_evidence[a].kind, reconciliations[a]} IN
    IF attachments[a] = NoBirth THEN "unclaimed"
    ELSE IF prewrite[a] # "none" THEN "held"
    ELSE IF "Terminal" \in turn_facts[a] THEN "terminal"
    ELSE IF "ProvenNotAccepted" \in concluded THEN "refused"
    ELSE IF write_evidence[a] = UnknownEvidence THEN "ambiguous"
    ELSE IF write_evidence[a] # NoEvidence THEN "accepted"
    ELSE IF reservations[a] # "none" THEN "reserved"
    ELSE IF a \in prepared THEN "prepared"
    ELSE "claimed"

Contract == INSTANCE DispatchContract WITH
    phase <- [a \in Attempts |-> Phase(a)], wire <- native, writes <- native_writes

\* The managed native path implements its contract: over all crashes, store
\* failures, recoveries and reconciliations no attempt is written twice or
\* before its reservation, no recorded conclusion contradicts the server, and
\* held, refused and terminal attempts never reopen.
ContractSpec == Contract!Spec

-----------------------------------------------------------------------------
(* What the documentation says and the code does not do *)

\* Exact restart reconstruction (ADR-0002): what a crash leaves behind is never
\* more than the host can resume.  The coordinator prepares a second attempt
\* while it follows the first one up, and recovery refuses two follow-ups.
RestartReconstructs ==
    \A s, t \in ObservationScopes \cup ReconciliationScopes : s = t
=============================================================================
