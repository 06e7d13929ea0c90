---------------------------- MODULE EvidenceLogs ----------------------------
(***************************************************************************)
(* The two receipt logs of the domain.  A doorbell attempt has a trace     *)
(* whose phases are ordered by their prerequisites; an interrupt lifecycle *)
(* has a log of independent facts.  Both take a receipt only from a source *)
(* that observes the phase itself, only with the next sequence number, and *)
(* only once per phase.  The sequence of a receipt is its place in the log.*)
(***************************************************************************)
EXTENDS Naturals, Sequences

CONSTANT Redelivered   \* how far the sequence of an offered receipt may be off

ASSUME EvidenceAssumption == Redelivered \in Nat

VARIABLE receipts      \* DoorbellAttemptTrace

-----------------------------------------------------------------------------
(* Phases, what they rest on, and who may claim them. *)

DoorbellPhases ==
    {"Observed", "Drained", "DurableClaimed", "DispatchPrepared", "NativeAccepted", "ExactTurnStarted",
     "ClaimedBatchRetrieved", "HandledAcknowledged", "HandledCursorRecorded", "ExactTerminalObserved",
     "SeatActed", "CoverageRearmed"}

\* Mutant: coverage is armed again when the batch is handled, whatever the turn does.
PrerequisitesOfHandling(phase) ==
    CASE phase = "Observed" -> {}
      [] phase = "Drained" -> {"Observed"}
      [] phase = "DurableClaimed" -> {"Drained"}
      [] phase = "DispatchPrepared" -> {"DurableClaimed"}
      [] phase = "NativeAccepted" -> {"DispatchPrepared"}
      [] phase = "ExactTurnStarted" -> {"NativeAccepted"}
      [] phase \in {"ClaimedBatchRetrieved", "ExactTerminalObserved"} -> {"ExactTurnStarted"}
      [] phase = "HandledAcknowledged" -> {"ClaimedBatchRetrieved"}
      [] OTHER -> {"HandledAcknowledged"}

Prerequisites(phase) ==
    CASE phase = "Observed" -> {}
      [] phase = "Drained" -> {"Observed"}
      [] phase = "DurableClaimed" -> {"Drained"}
      [] phase = "DispatchPrepared" -> {"DurableClaimed"}
      [] phase = "NativeAccepted" -> {"DispatchPrepared"}
      [] phase = "ExactTurnStarted" -> {"NativeAccepted"}
      [] phase \in {"ClaimedBatchRetrieved", "ExactTerminalObserved"} -> {"ExactTurnStarted"}
      [] phase = "HandledAcknowledged" -> {"ClaimedBatchRetrieved"}
      [] phase = "HandledCursorRecorded" -> {"HandledAcknowledged"}
      [] phase = "SeatActed" -> {"HandledCursorRecorded"}
      [] phase = "CoverageRearmed" -> {"HandledCursorRecorded", "ExactTerminalObserved"}

DoorbellSources == {"ControlPlane", "Provider", "Controller", "ClaimedBatchHelper", "Seat"}

Supports(source) ==
    CASE source = "ControlPlane" -> {"Observed", "Drained", "DurableClaimed", "DispatchPrepared",
                                     "HandledCursorRecorded", "CoverageRearmed"}
      [] source = "Provider" -> {"Observed", "Drained"}
      [] source = "Controller" -> {"NativeAccepted", "ExactTurnStarted", "ExactTerminalObserved"}
      [] source = "ClaimedBatchHelper" -> {"ClaimedBatchRetrieved", "HandledAcknowledged"}
      [] source = "Seat" -> {"SeatActed"}

InterruptPhases ==
    {"WaitArmed", "SignalMatched", "WaiterCompleted", "EventsDrained", "TurnStarted", "ModelObserved",
     "SeatActed", "HandledCursorRecorded", "CoverageRearmed", "CoverageEnded"}

LifecycleSupports(source) ==
    CASE source = "ControlPlane" -> InterruptPhases \ {"TurnStarted", "ModelObserved", "SeatActed"}
      [] source = "Provider" -> {"SignalMatched", "EventsDrained"}
      [] source = "WaiterProcess" -> {"WaitArmed", "WaiterCompleted", "CoverageRearmed", "CoverageEnded"}
      [] source \in {"Harness", "Controller"} -> {"TurnStarted", "ModelObserved"}
      [] source = "Seat" -> {"ModelObserved", "SeatActed", "HandledCursorRecorded", "CoverageRearmed"}
      [] source = "Operator" -> {"SeatActed"}

-----------------------------------------------------------------------------
(* Appending. *)

PhasesOf(log) == {log[k].phase : k \in DOMAIN log}

\* DoorbellAttemptReceipt::try_new and DoorbellAttemptTrace::append
Appendable(log, sequence, phase, source) ==
    /\ sequence # 0 /\ phase \in Supports(source)
    /\ sequence = Len(log) + 1
    /\ phase \notin PhasesOf(log)
    /\ Prerequisites(phase) \subseteq PhasesOf(log)

\* LifecycleReceipt::try_new and ReceiptLog::append: facts are [phase, detail].
NotALog == <<[phase |-> "error", detail |-> "none"]>>
Recorded(log, fact, source) ==
    IF log # NotALog /\ fact.phase \in LifecycleSupports(source) /\ fact.phase \notin PhasesOf(log)
    THEN Append(log, fact) ELSE NotALog

\* Receipts of every source arrive in any order, late, early or again; one that
\* does not fit is refused and changes nothing.
TraceInit == receipts = <<>>

AppendReceipt(phase, source) ==
    \E sequence \in Len(receipts)..(Len(receipts) + Redelivered) :
        /\ Appendable(receipts, sequence, phase, source)
        /\ receipts' = Append(receipts, [phase |-> phase, source |-> source])

TraceNext == \E phase \in DoorbellPhases, source \in DoorbellSources : AppendReceipt(phase, source)
TraceSpec == TraceInit /\ [][TraceNext]_receipts

-----------------------------------------------------------------------------
\* Types; and every receipt is of a source that observes the phase itself.
TraceTypeOK ==
    /\ receipts \in Seq([phase : DoorbellPhases, source : DoorbellSources])
    /\ \A k \in DOMAIN receipts : receipts[k].phase \in Supports(receipts[k].source)

PhasesBefore(k) == {receipts[j].phase : j \in 1..(k - 1)}

\* However receipts arrive, re-armed coverage stands behind the whole doorbell: the
\* claim and the preparation before the native effect, its exact start and end, and
\* the handled batch; and no receipt is counted twice.
RearmProven ==
    \A k \in DOMAIN receipts :
        /\ receipts[k].phase \notin PhasesBefore(k)
        /\ receipts[k].phase = "CoverageRearmed" =>
               DoorbellPhases \ {"SeatActed", "CoverageRearmed"} \subseteq PhasesBefore(k)

\* The helper reads a claimed batch, and the seat acts, only behind an exact turn
\* start that the controller itself reported, and that behind the durable claim.
ActionProven ==
    \A k \in DOMAIN receipts :
        receipts[k].phase \in {"ClaimedBatchRetrieved", "SeatActed"} =>
            \E i, j \in 1..(k - 1) :
                /\ i < j /\ receipts[i].phase = "DurableClaimed"
                /\ receipts[j] = [phase |-> "ExactTurnStarted", source |-> "Controller"]

\* A trace cannot claim more of a doorbell than its receipts add up to.
DoorbellProven == RearmProven /\ ActionProven
=============================================================================
