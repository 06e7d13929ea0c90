------------------------------ MODULE AckStore ------------------------------
(***************************************************************************)
(* The handled-cursor recorder of the waiter daemon                        *)
(* (gearwit-host/src/ack.rs): which batch was claimed and delivered under  *)
(* which generation of the arm, and the exchange that records how far it   *)
(* was handled and closes it.  One method is one critical section under    *)
(* the daemon's ack lock; a method that fails changes nothing and is given *)
(* by the condition of its success.                                        *)
(*                                                                         *)
(* Events are numbered in drain order, so a list of event refs is a range  *)
(* <<after, newest>>.  The daemon delivers the whole drain snapshot, so    *)
(* `delivered' stands for both and nothing lies beyond it.  Signal ids are *)
(* numbered in claim order.  There is one arm; requests for another arm or *)
(* seat are refused and change nothing but their own history entry.        *)
(***************************************************************************)
EXTENDS Integers, Sequences

CONSTANTS MaxEvent,      \* bound on the provider's events
          AckRequests    \* request ids that a client may use again

NoBatch == <<0, 0>>
Batches == {b \in (0..MaxEvent) \X (0..MaxEvent) : b[1] < b[2]}
InBatch(event, batch) == batch[1] < event /\ event <= batch[2]

\* An id that is not used again leaves an entry that nothing reads.
FreshRequest == "fresh"
NoEntry == [reply |-> "none"]

VARIABLES
    generation,     \* generation of the recorder's arm
    signals,        \* batch recorded for each signal
    ack_history     \* request and reply of each reusable request id

ackVars == <<generation, signals, ack_history>>

AckInit ==
    /\ generation = 1
    /\ signals = <<>>
    /\ ack_history = [id \in AckRequests |-> NoEntry]

-----------------------------------------------------------------------------
(* Claims and deliveries, noted by the main loop. *)
OpenElsewhere(s) ==
    \E t \in DOMAIN signals \ {s} :
        signals[t].generation = generation /\ ~signals[t].closed

NoteClaimedOk(s) ==
    /\ ~OpenElsewhere(s)
    /\ s \in DOMAIN signals =>
           /\ signals[s].generation = generation
           /\ signals[s].delivered = NoBatch
           /\ ~signals[s].closed

\* `hold': the page lost content locally, so it may only be handled after a
\* receipt of it was displayed.
NewSignal(delivered, hold) ==
    [generation |-> generation, delivered |-> delivered, handled |-> 0,
     hold |-> hold, completed |-> FALSE, closed |-> FALSE]

\* note_claimed of a new signal, with require_return_completed_before_handled
\* right after it, which cannot fail for a signal just claimed.
NoteClaimed(s, hold) ==
    signals' = IF s \in DOMAIN signals
               THEN [signals EXCEPT ![s].hold = @ \/ hold]
               ELSE Append(signals, NewSignal(NoBatch, hold))

NoteDeliveredOk(s, batch) ==
    /\ ~OpenElsewhere(s)
    /\ s \in DOMAIN signals =>
           /\ signals[s].generation = generation
           /\ \/ /\ signals[s].delivered = NoBatch
                 /\ ~signals[s].closed
                 /\ signals[s].handled = 0
              \/ signals[s].delivered = batch
\* Mutant: a delivery starts the record of the batch anew.
NoteDeliveredAnew(s, batch) ==
    signals' = IF s \in DOMAIN signals
               THEN [signals EXCEPT ![s] = NewSignal(batch, FALSE)]
               ELSE Append(signals, NewSignal(batch, FALSE))

NoteDelivered(s, batch) ==
    signals' = IF s \in DOMAIN signals
               THEN [signals EXCEPT ![s].delivered = batch]
               ELSE Append(signals, NewSignal(batch, FALSE))

\* Releases a hold; an unknown or undelivered signal is only reported.
NoteReturnCompleted(s) ==
    signals' = IF s \in DOMAIN signals /\ signals[s].delivered # NoBatch /\ signals[s].hold
               THEN [signals EXCEPT ![s].completed = TRUE]
               ELSE signals

-----------------------------------------------------------------------------
(* The ACK exchange, served by the accept thread. *)

AckRequest == [generation : 1..(MaxEvent + 1), signal : 1..(MaxEvent + 1), cursor : 1..MaxEvent]
\* Mutant: a held batch is handled before its receipt.
AcceptsCursorOfHeld(request) ==
    /\ request.generation = generation
    /\ request.signal \in DOMAIN signals
    /\ LET batch == signals[request.signal]
       IN /\ ~batch.closed
          /\ batch.generation = generation
          /\ InBatch(request.cursor, batch.delivered)
          /\ batch.handled <= request.cursor

\* Mutant: a cursor beyond the batch is accepted.
AcceptsCursorBeyond(request) ==
    /\ request.generation = generation
    /\ request.signal \in DOMAIN signals
    /\ LET batch == signals[request.signal]
       IN /\ ~batch.closed
          /\ batch.generation = generation
          /\ batch.delivered # NoBatch
          /\ batch.hold => batch.completed
          /\ batch.delivered[1] < request.cursor

AcceptsCursor(request) ==
    /\ request.generation = generation
    /\ request.signal \in DOMAIN signals
    /\ LET batch == signals[request.signal]
       IN /\ ~batch.closed
          /\ batch.generation = generation
          /\ batch.delivered # NoBatch
          /\ batch.hold => batch.completed
          /\ InBatch(request.cursor, batch.delivered)
          /\ batch.handled <= request.cursor

Replayed(id) == id # FreshRequest /\ ack_history[id] # NoEntry

RecordOk(id, request) == Replayed(id) => ack_history[id].request = request

Reply(id, request) ==
    IF Replayed(id) THEN ack_history[id].reply
    ELSE IF AcceptsCursor(request) THEN "accepted" ELSE "rejected"

Recorded(id, request) ==
    IF ~Replayed(id) /\ AcceptsCursor(request)
    THEN [signals EXCEPT ![request.signal].handled = request.cursor]
    ELSE signals
\* Mutant: a replayed acceptance re-arms again.
RearmsReplayed(id, request) == Reply(id, request) = "accepted"

\* rearm_from_handled succeeds: the signal is of the live generation, handled
\* and not closed yet.
Rearms(id, request) ==
    /\ Reply(id, request) = "accepted"
    /\ LET batch == Recorded(id, request)[request.signal]
       IN batch.generation = generation /\ batch.handled # 0 /\ ~batch.closed
\* Mutant: the successor keeps the generation of the batch it follows.
AckRearmSameGeneration(request) ==
    [type |-> "rearm", conn |-> "none", session |-> [link |-> "none"], after |-> request.cursor,
     generation |-> generation, signal |-> request.signal]

\* AckRearm, the coverage successor handed to the main loop.
AckRearm(request) ==
    [type |-> "rearm", conn |-> "none", session |-> [link |-> "none"], after |-> request.cursor, generation |-> generation + 1,
     signal |-> request.signal]

ApplyHandledRequest(id, request) ==
    /\ RecordOk(id, request)
    /\ ack_history' = IF id = FreshRequest THEN ack_history
                      ELSE [ack_history EXCEPT ![id] =
                               [request |-> request, reply |-> Reply(id, request)]]
    /\ IF Rearms(id, request)
       THEN /\ signals' = [Recorded(id, request) EXCEPT ![request.signal].closed = TRUE]
            /\ generation' = generation + 1
       ELSE /\ signals' = Recorded(id, request)
            /\ generation' = generation
=============================================================================
