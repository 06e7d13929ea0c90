--------------------------- MODULE DeliveryLedger ---------------------------
(***************************************************************************)
(* The pending delivery of the waiter daemon (gearwit-host/src/deliver.rs) *)
(* and what its functions return.  The ledger is owned by the main loop;   *)
(* its functions are given as functions of the pending delivery.           *)
(***************************************************************************)
EXTENDS Integers

NoPending == [attempt |-> "none"]

TerminalOutcomes == {"return_completed", "return_failed"}

VARIABLES
    pending,       \* PendingDelivery, or NoPending
    deliveries     \* deliveries prepared so far; numbers the delivery ids

ledgerVars == <<pending, deliveries>>

LedgerInit == pending = NoPending /\ deliveries = 0
\* Mutant: a lost delivery is prepared anew.
ShouldRedeliverAwaiting(p) == p.attempt = "Awaiting"

ShouldRedeliver(p) == p.attempt \in {"Awaiting", "Lost"}
IsTerminal(p) == p.attempt \in TerminalOutcomes

\* prepare_delivery: refused while an earlier batch should be sent again.
Prepared(delivery, link, signal, batch) ==
    [delivery |-> delivery, link |-> link.link, generation |-> link.generation,
     signal |-> signal, batch |-> batch, attempt |-> "Awaiting"]

\* redeliver_pending: same delivery, same authority, new link.
RedeliverOk(p, link) == ShouldRedeliver(p) /\ p.generation = link.generation
Redelivered(p, link) == [p EXCEPT !.link = link.link, !.attempt = "Awaiting"]

\* The deliver_events message of a pending delivery.
Message(p) ==
    [delivery |-> p.delivery, link |-> p.link, generation |-> p.generation,
     signal |-> p.signal, batch |-> p.batch]

\* A delivery_result names the message it answers.
ResultOf(message, outcome) ==
    [delivery |-> message.delivery, link |-> message.link, signal |-> message.signal,
     outcome |-> outcome]

RecordOkFor(p, result) ==
    /\ p # NoPending
    /\ p.delivery = result.delivery
    /\ p.link = result.link
    /\ p.signal = result.signal
    /\ \/ p.attempt = "Awaiting"
       \/ p.attempt = "Lost" /\ result.outcome = "link_lost"
       \/ p.attempt = result.outcome

AfterResult(p, result) ==
    IF p.attempt # "Awaiting" THEN p
    ELSE [p EXCEPT !.attempt = IF result.outcome = "link_lost" THEN "Lost" ELSE result.outcome]

\* on_transport_loss: an attempted delivery that waits for its result is lost.
AfterLoss(p, attempted) ==
    IF attempted /\ p.attempt = "Awaiting" THEN [p EXCEPT !.attempt = "Lost"] ELSE p
=============================================================================
