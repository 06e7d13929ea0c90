------------------------- MODULE WaiterDaemonProofs -------------------------
(***************************************************************************)
(* Machine-checked proofs about the waiter daemon, for every number of     *)
(* events and connections, every set of reusable requests and any number   *)
(* of failures of any kind.                                                *)
(*                                                                         *)
(* The argument is about how far the accept thread may be ahead of the     *)
(* main loop: at most one generation, and only while the batch of the main *)
(* loop's own generation is claimed, was sent, and its re-arm is on the    *)
(* way.  So whatever the main loop does with a stale arm concerns a batch  *)
(* that is already closed, and whatever it does without a claim meets the  *)
(* ACK store at its own generation.                                        *)
(***************************************************************************)
EXTENDS WaiterDaemon, TLAPS

(* The inductive invariant. *)

SignalRecords == [generation : Nat, delivered : Batches \cup {NoBatch}, handled : 0..MaxEvent,
                  hold : BOOLEAN, completed : BOOLEAN, closed : BOOLEAN]

\* Where the batch of a generation begins.
StartOf(s) == IF s = 1 THEN 0 ELSE signals[s - 1].handled

SignalHolds(s) ==
    /\ signals[s].generation = s
    /\ signals[s].closed <=> s < generation
    /\ signals[s].handled # 0 <=> signals[s].closed
    /\ signals[s].closed => InBatch(signals[s].handled, signals[s].delivered) /\ s <= signals[s].handled
    /\ signals[s].delivered # NoBatch => signals[s].delivered[1] = StartOf(s)

\* One batch for each generation, all but the newest closed.
StoreInv ==
    /\ signals \in Seq(SignalRecords)
    /\ generation \in Nat \ {0}
    /\ Len(signals) \in {generation - 1, generation}
    /\ \A s \in DOMAIN signals : SignalHolds(s)

\* An accepted request was of a signal on record.
HistoryInv ==
    /\ DOMAIN ack_history = AckRequests
    /\ \A id \in AckRequests :
           \/ ack_history[id] = NoEntry
           \/ /\ ack_history[id].reply \in {"accepted", "rejected"}
              /\ ack_history[id].reply = "accepted" => ack_history[id].request.signal \in DOMAIN signals

\* Without a claim the ACK store is not ahead; a claim is of the main loop's
\* generation and begins at its cursor.
ClaimInv ==
    /\ arm_generation \in Nat \ {0}
    /\ generation \in {arm_generation, arm_generation + 1}
    /\ published \in 0..MaxEvent
    /\ after = StartOf(arm_generation) /\ after \in 0..published
    /\ arm_generation - 1 <= after
    /\ claim = NoClaim => /\ Len(signals) = arm_generation - 1 /\ generation = arm_generation
                          /\ pending = NoPending
    /\ claim # NoClaim =>
          /\ claim \in [signal : {arm_generation}, generation : {arm_generation}, batch : Batches]
          /\ claim.batch[1] = after /\ claim.batch[2] <= published
          /\ Len(signals) = arm_generation
          /\ signals[arm_generation].delivered \in {NoBatch, claim.batch}

\* Where the main loop is, and what it covers there.
PlaceInv ==
    /\ pc \in Places /\ then \in {"head", "result", "child"}
    /\ child \in {"none", "running", "matched", "timeout", "error"}
    /\ CoveragePausedByClaim
    /\ pc = "restart" => claim = NoClaim
    /\ ClaimNeverRefused

AttachEvents == [type : {"attached"}, conn : Conns, session : Links]
RearmEvents == [type : {"rearm"}, conn : {"none"}, session : {NoLink}, after : Nat, generation : Nat,
                signal : Nat]

\* The re-arm of the generation the main loop still covers.
RearmDue(e) ==
    /\ generation = arm_generation + 1
    /\ e.generation = generation /\ e.after = signals[arm_generation].handled

\* The channel and what is about to be sent on it.
ChannelInv ==
    /\ events \in Seq(AttachEvents \cup RearmEvents)
    /\ \A i \in DOMAIN events : IsRearm(events[i]) => RearmDue(events[i])
    /\ accept.pc = "send" /\ IsRearm(accept.event) => RearmDue(accept.event)
    /\ generation = arm_generation + 1 =>
          \/ accept.pc = "send" /\ IsRearm(accept.event)
          \/ \E i \in DOMAIN events : IsRearm(events[i])
    /\ \A i, j \in DOMAIN events : events[i].conn = events[j].conn => i = j
    /\ accept.pc \in {"prepare", "commit"} => \A i \in DOMAIN events : events[i].conn # accept.conn
    /\ accept.pc = "send" => \A i \in DOMAIN events : events[i].conn # accept.event.conn

\* The attach in hand: the arm was read when it was accepted, and still is the live one.
AcceptInv ==
    \/ accept = Idle
    \/ accept = [pc |-> "gone"]
    \/ accept \in [pc : {"prepare"}, conn : Conns, request : Conns, generation : Gens, arm : {generation}]
    \/ /\ accept \in [pc : {"commit"}, conn : Conns, request : Conns, generation : Gens,
                      decision : {"accepted", "rejected", "replay"}, session : Links]
       /\ accept.decision = "accepted" => accept.generation = generation
    \/ accept \in [pc : {"send"}, conn : Conns \cup {"none"}, event : AttachEvents \cup RearmEvents]

\* A link that can be delivered to is of the main loop's generation or of the next.
Reachable(l) == l = NoLink \/ l.generation \in arm_generation..generation

LinksInv ==
    /\ current \in Links /\ link \in Links
    /\ served = NoServed \/ served \in [conn : Conns, session : Links]
    /\ next = NoEvent \/ next \in AttachEvents
    /\ attach_history \in [Conns -> {"none", "accepted", "rejected"}]
    /\ Reachable(current) /\ Reachable(link)
    /\ pc # "flush" => link = NoLink

Pendings == [delivery : Nat, link : Conns, generation : Gens, signal : Gens, batch : Batches,
             attempt : {"Awaiting", "Lost"} \cup TerminalOutcomes]

\* What a write of the pending delivery puts on record.
Sent(p) == [delivery |-> p.delivery, signal |-> p.signal, generation |-> p.generation, batch |-> p.batch]

\* The pending delivery is of the claim, and every frame of the claim is one of it.
DeliveryInv ==
    /\ deliveries \in Nat /\ attempted \in BOOLEAN
    /\ pending = NoPending => deliveries <= arm_generation - 1
    /\ pending # NoPending =>
          /\ claim # NoClaim
          /\ pending \in Pendings
          /\ pending.signal = arm_generation /\ pending.generation = arm_generation
          /\ pending.batch = claim.batch
          /\ deliveries <= arm_generation
    /\ \A m \in sent :
          /\ m.signal \in Nat /\ m.signal <= arm_generation
          /\ m.signal = arm_generation => pending # NoPending /\ m = Sent(pending)
    /\ DeliverySound

Messages == [delivery : Nat, link : Conns, generation : Gens, signal : Gens, batch : Batches]
Results == [delivery : Nat, link : Conns, signal : Gens, outcome : TerminalOutcomes]
Waiters == [state : {"absent", "waiting", "gone"}, request : Conns \cup {"none"},
            generation : Gens \cup {0}, inbox : Messages \cup {NoMessage},
            result : Results \cup {NoResult}]

\* An answer of success is of a batch that was printed.
PrintedInv ==
    /\ waiters \in [Conns -> Waiters]
    /\ \A c \in Conns :
          waiters[c].result.outcome = "return_completed" => waiters[c].result.signal \in printed
    /\ ReceiptTruthful

Inv == /\ StoreInv /\ HistoryInv /\ ClaimInv /\ PlaceInv /\ ChannelInv /\ AcceptInv
       /\ LinksInv /\ DeliveryInv /\ PrintedInv
       /\ faults \in 0..MaxFaults

-----------------------------------------------------------------------------
(* Which actions touch what. *)

\* Only the exchange, a claim, a delivery and a receipt touch the ACK store.
LEMMA StoreQuiet ==
    ASSUME Next
    PROVE  \/ Acknowledges \/ FlushDelivery \/ PollResult \/ ChildMatched \/ RestartDrained
           \/ UNCHANGED ackVars
<1>1. CASE MainLoop
  BY <1>1 DEF MainLoop, CoverageOver, TakeAttached, TakeRearm, NoEventInTime, Disconnected, Adopt, ReadLink,
     FlushNothing, FlushRefused, FlushFails, RevokeLost, RevokeTerminal, PollNoResult, PollSessionLost,
     ChildQuiet, ChildTimedOut, ChildFailed, RestartEmpty, RestartFails, Halted
<1>2. CASE AcceptThread \/ Attaches
  BY <1>2 DEF AcceptThread, Attaches, PrepareAttach, CommitWrittenAttach, FailToWriteReply, SendEvent, AcceptAttach
<1>3. CASE Environment
  BY <1>3 DEF Environment, Publish, ChildExits, LeaseElapses, CoverageElapses, ListenerFails, ReceiveDelivery,
     Leave, WaiterDies
<1> QED BY <1>1, <1>2, <1>3 DEF Next

\* Only a re-arm and a claim move the main loop's arm.
LEMMA CoverageQuiet ==
    ASSUME Next
    PROVE  TakeRearm \/ ChildMatched \/ RestartDrained \/ UNCHANGED coverageVars
<1>1. CASE MainLoop
  BY <1>1 DEF MainLoop, CoverageOver, TakeAttached, NoEventInTime, Disconnected, Adopt, ReadLink,
     FlushNothing, FlushRefused, FlushDelivery, FlushFails, RevokeLost, RevokeTerminal, PollNoResult,
     PollSessionLost, PollResult, ChildQuiet, ChildTimedOut, ChildFailed, RestartEmpty, RestartFails, Halted
<1>2. CASE AcceptThread \/ Attaches \/ Acknowledges
  BY <1>2 DEF AcceptThread, Attaches, Acknowledges, PrepareAttach, CommitWrittenAttach, FailToWriteReply,
     SendEvent, AcceptAttach, ServeAck
<1>3. CASE Environment
  BY <1>3 DEF Environment, Publish, ChildExits, LeaseElapses, CoverageElapses, ListenerFails, ReceiveDelivery,
     Leave, WaiterDies
<1> QED BY <1>1, <1>2, <1>3 DEF Next

\* The provider only ever publishes more.
LEMMA PublishedQuiet ==
    ASSUME Next
    PROVE  Publish \/ UNCHANGED published
<1>1. CASE MainLoop
  BY <1>1 DEF MainLoop, CoverageOver, TakeAttached, TakeRearm, NoEventInTime, Disconnected, Adopt, ReadLink,
     FlushNothing, FlushRefused, FlushDelivery, FlushFails, RevokeLost, RevokeTerminal, PollNoResult,
     PollSessionLost, PollResult, ChildQuiet, ChildTimedOut, ChildFailed, ChildMatched, RestartDrained,
     RestartEmpty, RestartFails, Halted, providerVars
<1>2. CASE AcceptThread \/ Attaches \/ Acknowledges
  BY <1>2 DEF AcceptThread, Attaches, Acknowledges, PrepareAttach, CommitWrittenAttach, FailToWriteReply,
     SendEvent, AcceptAttach, ServeAck, providerVars
<1>3. CASE Environment
  BY <1>3 DEF Environment, Publish, ChildExits, LeaseElapses, CoverageElapses, ListenerFails, ReceiveDelivery,
     Leave, WaiterDies, providerVars
<1> QED BY <1>1, <1>2, <1>3 DEF Next

\* The accept thread fills the channel, the main loop empties it.
LEMMA ChannelQuiet ==
    ASSUME Next
    PROVE  \/ AcceptThread \/ Attaches \/ Acknowledges \/ ListenerFails
           \/ TakeAttached \/ TakeRearm \/ Halted \/ UNCHANGED acceptVars
<1>1. CASE MainLoop
  BY <1>1 DEF MainLoop, CoverageOver, NoEventInTime, Disconnected, Adopt, ReadLink,
     FlushNothing, FlushRefused, FlushDelivery, FlushFails, RevokeLost, RevokeTerminal, PollNoResult,
     PollSessionLost, PollResult, ChildQuiet, ChildTimedOut, ChildFailed, ChildMatched, RestartDrained,
     RestartEmpty, RestartFails
<1>2. CASE Environment
  BY <1>2 DEF Environment, Publish, ChildExits, LeaseElapses, CoverageElapses, ReceiveDelivery, Leave, WaiterDies
<1> QED BY <1>1, <1>2 DEF Next

\* Both threads drop and install links, the main loop only ever reads one to deliver.
LEMMA LinksQuiet ==
    ASSUME Next
    PROVE  \/ Attaches \/ PrepareAttach \/ CommitWrittenAttach
           \/ TakeAttached \/ TakeRearm \/ Adopt \/ ReadLink \/ FlushNothing \/ FlushRefused \/ FlushDelivery
           \/ FlushFails \/ RevokeLost \/ RevokeTerminal \/ Halted
           \/ UNCHANGED <<linkVars, link, served, next>>
<1>1. CASE MainLoop
  BY <1>1 DEF MainLoop, CoverageOver, NoEventInTime, Disconnected, PollNoResult, PollSessionLost, PollResult,
     ChildQuiet, ChildTimedOut, ChildFailed, ChildMatched, RestartDrained, RestartEmpty, RestartFails
<1>2. CASE FailToWriteReply \/ SendEvent \/ Acknowledges
  BY <1>2 DEF FailToWriteReply, SendEvent, Acknowledges, ServeAck, controlVars
<1>3. CASE Environment
  BY <1>3 DEF Environment, Publish, ChildExits, LeaseElapses, CoverageElapses, ListenerFails, ReceiveDelivery,
     Leave, WaiterDies, controlVars
<1> QED BY <1>1, <1>2, <1>3 DEF Next, AcceptThread

\* The delivery is the main loop's own.
LEMMA DeliveryQuiet ==
    ASSUME Next
    PROVE  \/ TakeRearm \/ Adopt \/ FlushDelivery \/ FlushFails \/ RevokeLost \/ PollResult
           \/ ChildMatched \/ RestartDrained
           \/ UNCHANGED <<pipeVars, sent>>
<1>1. CASE MainLoop
  BY <1>1 DEF MainLoop, CoverageOver, TakeAttached, NoEventInTime, Disconnected, ReadLink,
     FlushNothing, FlushRefused, RevokeTerminal, PollNoResult, PollSessionLost,
     ChildQuiet, ChildTimedOut, ChildFailed, RestartEmpty, RestartFails, Halted, waiterVars
<1>2. CASE AcceptThread \/ Attaches \/ Acknowledges
  BY <1>2 DEF AcceptThread, Attaches, Acknowledges, PrepareAttach, CommitWrittenAttach, FailToWriteReply,
     SendEvent, AcceptAttach, ServeAck, waiterVars
<1>3. CASE Environment
  BY <1>3 DEF Environment, Publish, ChildExits, LeaseElapses, CoverageElapses, ListenerFails, ReceiveDelivery,
     Leave, WaiterDies, waiterVars
<1> QED BY <1>1, <1>2, <1>3 DEF Next

\* Frames and answers are exchanged with the waiters at a flush and a poll.
LEMMA WaitersQuiet ==
    ASSUME Next
    PROVE  \/ Attaches \/ CommitWrittenAttach \/ FailToWriteReply \/ FlushDelivery \/ PollResult
           \/ \E c \in Conns : ReceiveDelivery(c) \/ Leave(c) \/ WaiterDies(c)
           \/ UNCHANGED <<waiters, printed>>
<1>1. CASE MainLoop
  BY <1>1 DEF MainLoop, CoverageOver, TakeAttached, TakeRearm, NoEventInTime, Disconnected, Adopt, ReadLink,
     FlushNothing, FlushRefused, FlushFails, RevokeLost, RevokeTerminal, PollNoResult, PollSessionLost,
     ChildQuiet, ChildTimedOut, ChildFailed, ChildMatched, RestartDrained, RestartEmpty, RestartFails, Halted,
     waiterVars
<1>2. CASE PrepareAttach \/ SendEvent \/ Acknowledges
  BY <1>2 DEF PrepareAttach, SendEvent, Acknowledges, ServeAck, waiterVars
<1>3. CASE Publish \/ ChildExits \/ LeaseElapses \/ CoverageElapses \/ ListenerFails
  BY <1>3 DEF Publish, ChildExits, LeaseElapses, CoverageElapses, ListenerFails, waiterVars
<1> QED BY <1>1, <1>2, <1>3 DEF Next, AcceptThread, Environment

\* What was printed is never taken back.
LEMMA PrintedGrows ==
    ASSUME Next
    PROVE  printed \subseteq printed'
<1>1. CASE Attaches \/ CommitWrittenAttach \/ FailToWriteReply \/ FlushDelivery \/ PollResult
  BY <1>1 DEF Attaches, AcceptAttach, CommitWrittenAttach, FailToWriteReply, FlushDelivery, PollResult
<1>2. CASE \E c \in Conns : ReceiveDelivery(c) \/ Leave(c) \/ WaiterDies(c)
  BY <1>2 DEF ReceiveDelivery, Leave, WaiterDies
<1> QED BY <1>1, <1>2, WaitersQuiet

-----------------------------------------------------------------------------
(* What a step may do to the ACK store. *)

LEMMA UpdateOne ==
    ASSUME NEW S, NEW q \in Seq(S), NEW i \in DOMAIN q, NEW v \in S
    PROVE  /\ [q EXCEPT ![i] = v] \in Seq(S)
           /\ Len([q EXCEPT ![i] = v]) = Len(q)
           /\ [q EXCEPT ![i] = v][i] = v
           /\ \A j \in DOMAIN q : j # i => [q EXCEPT ![i] = v][j] = q[j]
OBVIOUS

\* The updates of a record keep its type.
LEMMA RecordUpdates ==
    ASSUME NEW b \in SignalRecords
    PROVE  /\ \A cursor \in 1..MaxEvent : [b EXCEPT !.handled = cursor, !.closed = TRUE] \in SignalRecords
           /\ \A batch \in Batches : [b EXCEPT !.delivered = batch] \in SignalRecords
           /\ [b EXCEPT !.completed = TRUE] \in SignalRecords
<1>1. ASSUME NEW cursor \in 1..MaxEvent
      PROVE  [b EXCEPT !.handled = cursor, !.closed = TRUE] \in SignalRecords
  <2>1. cursor \in 0..MaxEvent
    BY DaemonAssumption
  <2> QED BY <2>1 DEF SignalRecords
<1>2. ASSUME NEW batch \in Batches PROVE [b EXCEPT !.delivered = batch] \in SignalRecords
  BY DEF SignalRecords
<1>3. [b EXCEPT !.completed = TRUE] \in SignalRecords
  BY DEF SignalRecords
<1> QED BY <1>1, <1>2, <1>3

\* The newest generation is reached through as many events.
LEMMA GenerationBound ==
    ASSUME StoreInv
    PROVE  generation \in Gens
<1>1. CASE generation = 1
  BY <1>1, DaemonAssumption DEF Gens
<1>2. CASE generation # 1
  <2>1. generation - 1 \in DOMAIN signals /\ generation - 1 < generation
    BY <1>2 DEF StoreInv
  <2>2. SignalHolds(generation - 1) /\ signals[generation - 1] \in SignalRecords
    BY <2>1 DEF StoreInv
  <2>3. generation - 1 <= signals[generation - 1].handled /\ signals[generation - 1].handled \in 0..MaxEvent
    BY <2>1, <2>2 DEF SignalHolds, SignalRecords
  <2> QED BY <2>3, DaemonAssumption DEF StoreInv, Gens
<1> QED BY <1>1, <1>2

\* Signal i is rewritten to v, and nothing else.
Rewritten(i, v) ==
    /\ signals' \in Seq(SignalRecords) /\ Len(signals') = Len(signals)
    /\ signals'[i] = v
    /\ \A s \in DOMAIN signals : s # i => signals'[s] = signals[s]

Batch == signals[generation]

NewClaim == [signal |-> arm_generation, generation |-> arm_generation, batch |-> <<after, published>>]

\* A batch is claimed for the live generation, which has none.
ClaimsBatch ==
    /\ claim = NoClaim /\ claim' = NewClaim
    /\ Len(signals) = generation - 1
    /\ generation' = generation
    /\ \E hold \in BOOLEAN : signals' = Append(signals, NewSignal(NoBatch, hold))

\* The batch of the live generation is noted as delivered after a frame of it was sent.
DeliversBatch ==
    /\ Len(signals) = generation /\ generation = arm_generation /\ claim # NoClaim
    /\ ~Batch.closed /\ Batch.delivered \in {NoBatch, claim.batch}
    /\ generation' = generation
    /\ Rewritten(generation, [Batch EXCEPT !.delivered = claim.batch])
    /\ \E m \in sent' : m.signal = generation /\ m.batch = claim.batch

\* The hold of a batch that was printed is released.
CompletesBatch ==
    /\ generation' = generation
    /\ \E s \in DOMAIN signals :
          s \in printed /\ Rewritten(s, [signals[s] EXCEPT !.completed = TRUE])

\* The batch of the live generation is handled to a cursor, and closed.
HandlesBatch(cursor) ==
    /\ Len(signals) = generation
    /\ ~Batch.closed /\ Batch.delivered # NoBatch
    /\ Batch.hold => Batch.completed
    /\ cursor \in 1..MaxEvent /\ InBatch(cursor, Batch.delivered)
    /\ generation' = generation + 1
    /\ Rewritten(generation, [Batch EXCEPT !.handled = cursor, !.closed = TRUE])

\* A replayed acceptance closes nothing: the batch it accepted is closed.
LEMMA ReplayRearmsNothing ==
    ASSUME StoreInv, HistoryInv, NEW id \in AckRequests \cup {FreshRequest}, NEW request \in AckRequest,
           RecordOk(id, request), Replayed(id)
    PROVE  ~Rearms(id, request)
<1>1. SUFFICES ASSUME Rearms(id, request) PROVE FALSE
  OBVIOUS
<1>2. ack_history[id].reply = "accepted" /\ request = ack_history[id].request /\ id \in AckRequests
  BY <1>1 DEF Rearms, Reply, RecordOk, Replayed
<1>3. request.signal \in DOMAIN signals
  BY <1>2 DEF HistoryInv, NoEntry, Replayed
<1>4. signals[request.signal].handled # 0 /\ ~signals[request.signal].closed
  BY <1>1 DEF Rearms, Recorded
<1> QED BY <1>3, <1>4 DEF StoreInv, SignalHolds

\* What is accepted anew is of the one open batch, and closes it.
LEMMA AcceptedIsOpen ==
    ASSUME StoreInv, NEW request \in AckRequest, AcceptsCursor(request)
    PROVE  /\ request.signal = generation /\ Len(signals) = generation
           /\ Batch \in SignalRecords /\ generation \in DOMAIN signals
           /\ ~Batch.closed /\ Batch.handled = 0 /\ Batch.generation = generation
           /\ Batch.delivered # NoBatch /\ InBatch(request.cursor, Batch.delivered)
           /\ Batch.hold => Batch.completed
<1>1. request.signal \in DOMAIN signals /\ request.signal \in Nat
  BY DEF AcceptsCursor, AckRequest, StoreInv
<1>2. ~(request.signal < generation)
  BY <1>1 DEF AcceptsCursor, StoreInv, SignalHolds
<1>3. request.signal = generation /\ Len(signals) = generation
  BY <1>1, <1>2 DEF StoreInv
<1> QED BY <1>1, <1>3 DEF AcceptsCursor, StoreInv, SignalHolds, Batch

LEMMA FreshAcceptRearms ==
    ASSUME StoreInv, NEW id, NEW request \in AckRequest, ~Replayed(id), AcceptsCursor(request)
    PROVE  /\ Rearms(id, request)
           /\ [Recorded(id, request) EXCEPT ![request.signal].closed = TRUE]
                  = [signals EXCEPT ![generation] = [Batch EXCEPT !.handled = request.cursor, !.closed = TRUE]]
           /\ [Batch EXCEPT !.handled = request.cursor, !.closed = TRUE] \in SignalRecords
<1> DEFINE r == [signals EXCEPT ![generation] = [Batch EXCEPT !.handled = request.cursor]]
<1>1. Batch \in SignalRecords /\ generation \in DOMAIN signals /\ request.cursor \in 1..MaxEvent
  BY AcceptedIsOpen DEF AckRequest
<1>2. Recorded(id, request) = r
  BY AcceptedIsOpen DEF Recorded, Batch
<1>3. r[generation] = [Batch EXCEPT !.handled = request.cursor]
  BY <1>1 DEF StoreInv
<1>4. Rearms(id, request)
  BY <1>1, <1>2, <1>3, AcceptedIsOpen DEF Rearms, Reply, SignalRecords
<1>5. [r EXCEPT ![generation].closed = TRUE]
          = [signals EXCEPT ![generation] = [Batch EXCEPT !.handled = request.cursor, !.closed = TRUE]]
  BY <1>1, <1>3 DEF StoreInv
<1>6. [Batch EXCEPT !.handled = request.cursor, !.closed = TRUE] \in SignalRecords
  BY <1>1, RecordUpdates
<1> QED BY <1>2, <1>4, <1>5, <1>6, AcceptedIsOpen

LEMMA AckStep ==
    ASSUME StoreInv, HistoryInv, NEW id \in AckRequests \cup {FreshRequest}, NEW request \in AckRequest,
           ServeAck(id, request)
    PROVE  \/ UNCHANGED <<generation, signals>> /\ accept' = Idle
           \/ /\ HandlesBatch(request.cursor)
              /\ accept' = [pc |-> "send", conn |-> "none", event |-> AckRearm(request)]
              /\ request.signal = generation
<1>1. ApplyHandledRequest(id, request) /\ RecordOk(id, request)
  BY DEF ServeAck, ApplyHandledRequest
<1>2. CASE Replayed(id)
  BY <1>1, <1>2, ReplayRearmsNothing DEF ApplyHandledRequest, Recorded, ServeAck
<1>3. CASE ~Replayed(id) /\ ~AcceptsCursor(request)
  BY <1>1, <1>3 DEF ApplyHandledRequest, Recorded, Reply, Rearms, ServeAck
<1>4. CASE ~Replayed(id) /\ AcceptsCursor(request)
  <2>1. Rearms(id, request)
    BY <1>4, FreshAcceptRearms
  <2>2. /\ generation' = generation + 1
        /\ signals' = [signals EXCEPT ![generation] = [Batch EXCEPT !.handled = request.cursor, !.closed = TRUE]]
        /\ accept' = [pc |-> "send", conn |-> "none", event |-> AckRearm(request)]
    BY <1>1, <2>1, <1>4, FreshAcceptRearms DEF ApplyHandledRequest, ServeAck
  <2>3. Rewritten(generation, [Batch EXCEPT !.handled = request.cursor, !.closed = TRUE])
    <3> DEFINE v == [Batch EXCEPT !.handled = request.cursor, !.closed = TRUE]
    <3>1. v \in SignalRecords /\ generation \in DOMAIN signals /\ signals \in Seq(SignalRecords)
      BY <1>4, AcceptedIsOpen, FreshAcceptRearms DEF StoreInv
    <3>2. signals' = [signals EXCEPT ![generation] = v]
      BY <2>2
    <3> HIDE DEF v
    <3>3. Rewritten(generation, v)
      BY <3>1, <3>2, UpdateOne DEF Rewritten
    <3> QED BY <3>3 DEF v
  <2> QED BY <1>4, <2>2, <2>3, AcceptedIsOpen DEF HandlesBatch, AckRequest
<1> QED BY <1>2, <1>3, <1>4

\* When the ACK store is ahead, its last batch is the claimed one, and was sent.
LEMMA AheadIsPending ==
    ASSUME StoreInv, ClaimInv, DeliveryInv, generation = arm_generation + 1
    PROVE  /\ arm_generation \in DOMAIN signals /\ signals[arm_generation].closed
           /\ InBatch(signals[arm_generation].handled, signals[arm_generation].delivered)
           /\ signals[arm_generation].delivered = claim.batch
           /\ pending # NoPending /\ claim # NoClaim
<1>1. arm_generation \in DOMAIN signals /\ arm_generation < generation
  BY DEF StoreInv, ClaimInv
<1>2. /\ signals[arm_generation].closed
      /\ InBatch(signals[arm_generation].handled, signals[arm_generation].delivered)
      /\ signals[arm_generation] \in SignalRecords
  BY <1>1 DEF StoreInv, SignalHolds
<1>3. signals[arm_generation].delivered # NoBatch
  BY <1>2 DEF InBatch, NoBatch, SignalRecords
<1>4. claim # NoClaim /\ signals[arm_generation].delivered = claim.batch
  BY <1>3 DEF ClaimInv
<1>5. PICK m \in sent : m.signal = arm_generation
  BY <1>1, <1>3 DEF DeliveryInv, DeliverySound, DeliveredWasSent
<1>6. pending # NoPending
  BY <1>5 DEF DeliveryInv
<1> QED BY <1>1, <1>2, <1>4, <1>6

\* A drain is always claimed anew, never refused, and bound to a link of its own generation.
LEMMA IngestStep ==
    ASSUME StoreInv, ClaimInv, NEW table, NEW place, claim = NoClaim, published > after,
           Ingest(table, place), UNCHANGED generation
    PROVE  /\ generation = arm_generation /\ pending = NoPending
           /\ ClaimsBatch
           /\ claim' = NewClaim /\ NewClaim.batch \in Batches
           /\ pc' = place /\ UNCHANGED <<then, halt_cause>>
           /\ \/ UNCHANGED pipeVars
              \/ /\ table # NoLink /\ attempted' = FALSE
                 /\ pending' = Prepared(deliveries + 1, table, arm_generation, <<after, published>>)
                 /\ deliveries' = deliveries + 1
<1>1. generation = arm_generation /\ pending = NoPending /\ Len(signals) = generation - 1
      /\ generation \in Nat \ {0} /\ signals \in Seq(SignalRecords)
  BY DEF ClaimInv, StoreInv
<1>2. Len(signals) + 1 = arm_generation /\ arm_generation \notin DOMAIN signals
  BY <1>1
<1>3. ~OpenElsewhere(arm_generation)
  BY <1>1, <1>2 DEF OpenElsewhere, StoreInv, SignalHolds
<1>4. NoteClaimedOk(arm_generation)
  BY <1>2, <1>3 DEF NoteClaimedOk
<1>5. <<after, published>> \in Batches
  BY DaemonAssumption DEF ClaimInv, Batches
<1>6. claim' = NewClaim /\ pc' = place /\ UNCHANGED <<then, halt_cause>>
  BY <1>2, <1>4 DEF Ingest, NewClaim, Goto, Halt
<1>7. \E hold \in BOOLEAN : NoteClaimed(arm_generation, hold)
  <2> DEFINE lossy == \E e \in LossyEvents : InBatch(e, <<after, published>>)
  <2>1. lossy \in BOOLEAN
    OBVIOUS
  <2>2. NoteClaimed(arm_generation, lossy)
    BY <1>2, <1>4 DEF Ingest
  <2> QED BY <2>1, <2>2
<1>8. ClaimsBatch
  BY <1>1, <1>2, <1>6, <1>7 DEF NoteClaimed, ClaimsBatch
<1>9. \/ UNCHANGED pipeVars
      \/ /\ table # NoLink /\ attempted' = FALSE
         /\ pending' = Prepared(deliveries + 1, table, arm_generation, <<after, published>>)
         /\ deliveries' = deliveries + 1
  <2>1. ~ShouldRedeliver(pending)
    BY <1>1 DEF ShouldRedeliver, NoPending
  <2> QED BY <1>2, <2>1 DEF Ingest, TakeDelivery, DeliveryFor
<1> QED BY <1>1, <1>5, <1>6, <1>8, <1>9 DEF NewClaim

\* A delivery of the claim: the pending one again, or the first of its batch.
LEMMA TakeStep ==
    ASSUME StoreInv, ClaimInv, DeliveryInv, LinksInv, claim # NoClaim, link # NoLink, ~IsTerminal(pending),
           DeliveryOk(link), TakeDelivery(claim, link)
    PROVE  /\ pending' \in Pendings /\ pending'.attempt = "Awaiting"
           /\ pending'.signal = arm_generation /\ pending'.generation = arm_generation
           /\ pending'.batch = claim.batch
           /\ deliveries' \in Nat /\ deliveries' <= arm_generation
           /\ pending # NoPending => Sent(pending') = Sent(pending)
           /\ pending' = DeliveryFor(claim, link)
<1>1. link \in [link : Conns, generation : Gens] /\ link.generation \in arm_generation..generation
  BY DEF LinksInv, Reachable, Links
<1>2. CASE pending = NoPending
  <2>1. generation = arm_generation
    BY <1>2, AheadIsPending DEF ClaimInv
  <2>2. link.generation = arm_generation
    BY <1>1, <2>1 DEF ClaimInv
  <2>3. /\ pending' = Prepared(deliveries + 1, link, claim.signal, claim.batch) /\ deliveries' = deliveries + 1
        /\ pending' = DeliveryFor(claim, link)
    BY <1>2 DEF TakeDelivery, DeliveryFor, ShouldRedeliver, NoPending
  <2>4. /\ claim.signal = arm_generation /\ claim.batch \in Batches /\ arm_generation \in Gens
        /\ deliveries \in Nat /\ deliveries <= arm_generation - 1 /\ arm_generation \in Nat
    BY <1>1, <1>2, <2>2 DEF ClaimInv, DeliveryInv
  <2> QED BY <1>1, <1>2, <2>2, <2>3, <2>4 DEF Prepared, Pendings
<1>3. CASE pending # NoPending
  <2>1. pending \in Pendings
    BY <1>3 DEF DeliveryInv
  <2>2. ShouldRedeliver(pending)
    BY <2>1 DEF ShouldRedeliver, IsTerminal, Pendings
  <2>3. pending' = [pending EXCEPT !.link = link.link, !.attempt = "Awaiting"] /\ deliveries' = deliveries
        /\ pending' = DeliveryFor(claim, link)
    BY <2>2 DEF TakeDelivery, DeliveryFor, Redelivered
  <2> QED BY <1>1, <1>3, <2>1, <2>3 DEF Pendings, Sent, DeliveryInv
<1> QED BY <1>2, <1>3

\* A flush that notes its delivery has written a frame of the live batch.
LEMMA FlushStep ==
    ASSUME StoreInv, ClaimInv, DeliveryInv, LinksInv, FlushDelivery
    PROVE  \/ UNCHANGED <<generation, signals>>
           \/ DeliversBatch
<1>1. /\ claim # NoClaim /\ link # NoLink /\ ~IsTerminal(pending) /\ DeliveryOk(link) /\ TakeDelivery(claim, link)
      /\ generation' = generation
  BY DEF FlushDelivery, Flushing
<1>2. pending'.signal = arm_generation /\ pending'.batch = claim.batch
  BY <1>1, TakeStep
<1>3. SUFFICES ASSUME signals' # signals PROVE DeliversBatch
  BY <1>1
<1>4. /\ NoteDeliveredOk(claim.signal, pending'.batch) /\ NoteDelivered(claim.signal, pending'.batch)
      /\ sent' = sent \cup {[delivery |-> pending'.delivery, signal |-> pending'.signal,
                             generation |-> pending'.generation, batch |-> pending'.batch]}
  BY <1>3 DEF FlushDelivery
<1>5. /\ claim.signal = arm_generation /\ claim.batch \in Batches /\ arm_generation \in DOMAIN signals
      /\ Len(signals) = arm_generation /\ signals \in Seq(SignalRecords)
  BY <1>1 DEF ClaimInv, StoreInv
<1>6. generation = arm_generation /\ Batch \in SignalRecords
  <2>1. signals[claim.signal].generation = generation
    BY <1>4, <1>5 DEF NoteDeliveredOk
  <2>2. signals[arm_generation].generation = arm_generation /\ signals[arm_generation] \in SignalRecords
    BY <1>5 DEF StoreInv, SignalHolds
  <2> QED BY <1>5, <2>1, <2>2 DEF Batch
<1>7. signals' = [signals EXCEPT ![generation] = [Batch EXCEPT !.delivered = claim.batch]]
  BY <1>2, <1>4, <1>5, <1>6 DEF NoteDelivered, Batch
<1>8. Rewritten(generation, [Batch EXCEPT !.delivered = claim.batch])
  <2> DEFINE v == [Batch EXCEPT !.delivered = claim.batch]
  <2>1. v \in SignalRecords
    BY <1>5, <1>6, RecordUpdates
  <2> HIDE DEF v
  <2>2. Rewritten(generation, v)
    BY <1>5, <1>6, <1>7, <2>1, UpdateOne DEF Rewritten, v
  <2> QED BY <2>2 DEF v
<1>9. ~Batch.closed /\ Batch.delivered \in {NoBatch, claim.batch}
  <2>1. SignalHolds(generation) /\ generation \in Nat
    BY <1>5, <1>6 DEF StoreInv
  <2>2. signals[generation].delivered \in {NoBatch, claim.batch}
    BY <1>1, <1>6 DEF ClaimInv
  <2>3. ~(generation < generation)
    BY <2>1
  <2>4. ~signals[generation].closed
    BY <2>1, <2>3 DEF SignalHolds
  <2> QED BY <2>2, <2>4 DEF Batch
<1>10. \E m \in sent' : m.signal = generation /\ m.batch = claim.batch
  <2> DEFINE m == [delivery |-> pending'.delivery, signal |-> pending'.signal,
                   generation |-> pending'.generation, batch |-> pending'.batch]
  <2>1. m.signal = generation /\ m.batch = claim.batch
    BY <1>2, <1>6
  <2>2. m \in sent'
    BY <1>4
  <2> QED BY <2>1, <2>2
<1> QED BY <1>1, <1>5, <1>6, <1>8, <1>9, <1>10 DEF DeliversBatch

\* A result that completes its delivery is of a batch that was printed.
LEMMA ResultStep ==
    ASSUME StoreInv, PrintedInv, LinksInv, PollResult
    PROVE  UNCHANGED <<generation, signals>> \/ CompletesBatch
<1> DEFINE result == waiters[served.conn].result
<1>1. served.conn \in Conns /\ generation' = generation
  BY DEF PollResult, LinksInv, NoServed
<1>2. SUFFICES ASSUME signals' # signals PROVE CompletesBatch
  BY <1>1
<1>3. NoteReturnCompleted(result.signal) /\ result.outcome = "return_completed"
  BY <1>2 DEF PollResult
<1>4. result.signal \in printed
  BY <1>1, <1>3 DEF PrintedInv
<1>5. /\ result.signal \in DOMAIN signals
      /\ signals' = [signals EXCEPT ![result.signal].completed = TRUE]
  BY <1>2, <1>3 DEF NoteReturnCompleted
<1>6. PICK s \in DOMAIN signals : s = result.signal
  BY <1>5
<1>7. signals[s] \in SignalRecords /\ signals' = [signals EXCEPT ![s] = [signals[s] EXCEPT !.completed = TRUE]]
  BY <1>5, <1>6 DEF StoreInv
<1>8. Rewritten(s, [signals[s] EXCEPT !.completed = TRUE])
  <2> DEFINE v == [signals[s] EXCEPT !.completed = TRUE]
  <2>1. v \in SignalRecords
    BY <1>7, RecordUpdates
  <2> HIDE DEF v
  <2>2. signals' = [signals EXCEPT ![s] = v]
    BY <1>7 DEF v
  <2>3. Rewritten(s, v)
    BY <2>1, <2>2, UpdateOne DEF Rewritten, StoreInv
  <2> QED BY <2>3 DEF v
<1> QED BY <1>1, <1>4, <1>6, <1>8 DEF CompletesBatch

\* A child that matched, and a re-arm with events past its cursor: the drain fails and
\* halts the daemon, or its events are claimed.
LEMMA DrainStep ==
    ASSUME StoreInv, ClaimInv, PlaceInv, ChildMatched \/ RestartDrained
    PROVE  /\ UNCHANGED <<generation, ack_history, arm_generation, after, published, linkVars, link, next,
                          served, sent>>
           /\ child' = "none"
           /\ \/ /\ UNCHANGED <<signals, claim, pipeVars, then>>
                 /\ pc' = "halting" /\ halt_cause' = "drain"
              \/ /\ claim = NoClaim /\ pending = NoPending /\ generation = arm_generation /\ published > after
                 /\ ClaimsBatch
                 /\ claim' = NewClaim /\ NewClaim.batch \in Batches
                 /\ pc' \in {"link", "result"} /\ UNCHANGED <<then, halt_cause>>
                 /\ \/ UNCHANGED pipeVars
                    \/ /\ current # NoLink /\ attempted' = FALSE
                       /\ pending' = Prepared(deliveries + 1, current, arm_generation, <<after, published>>)
                       /\ deliveries' = deliveries + 1
<1>1. /\ UNCHANGED <<generation, ack_history, arm_generation, after, published, linkVars, link, next, served, sent>>
      /\ child' = "none"
  BY DEF ChildMatched, RestartDrained, waiterVars
<1>2. CASE RestartDrained
  <2>1. claim = NoClaim /\ published > after /\ Ingest(NoLink, "result")
    BY <1>2 DEF RestartDrained, PlaceInv
  <2> QED BY <1>1, <2>1, IngestStep
<1>3. CASE ChildMatched
  <2>1. claim = NoClaim
    BY <1>3 DEF ChildMatched, PlaceInv, CoveragePausedByClaim
  <2>2. CASE Ingest(current, "link") /\ published > after
    BY <1>1, <2>1, <2>2, IngestStep
  <2>3. CASE ~(Ingest(current, "link") /\ published > after)
    BY <1>1, <1>3, <2>3 DEF ChildMatched, Halt, Goto
  <2> QED BY <2>2, <2>3
<1> QED BY <1>2, <1>3

LEMMA StoreMoves ==
    ASSUME Inv, Next
    PROVE  \/ UNCHANGED <<generation, signals>>
           \/ ClaimsBatch
           \/ DeliversBatch
           \/ CompletesBatch
           \/ \E cursor \in 1..MaxEvent : HandlesBatch(cursor)
<1>1. CASE Acknowledges
  <2>1. PICK id \in AckRequests \cup {FreshRequest}, request \in AckRequest : ServeAck(id, request)
    BY <1>1 DEF Acknowledges
  <2>2. request.cursor \in 1..MaxEvent
    BY DEF AckRequest
  <2> QED BY <2>1, <2>2, AckStep DEF Inv
<1>2. CASE FlushDelivery
  BY <1>2, FlushStep DEF Inv
<1>3. CASE PollResult
  BY <1>3, ResultStep DEF Inv
<1>4. CASE ChildMatched \/ RestartDrained
  BY <1>4, DrainStep DEF Inv
<1>5. CASE UNCHANGED ackVars
  BY <1>5 DEF ackVars
<1> QED BY <1>1, <1>2, <1>3, <1>4, <1>5, StoreQuiet

-----------------------------------------------------------------------------
(* The ACK store keeps one batch for each generation. *)

\* A batch begins at or past as many events as there are generations before it.
LEMMA StartIsPast ==
    ASSUME StoreInv, NEW s \in DOMAIN signals \cup {Len(signals) + 1}, s <= generation
    PROVE  StartOf(s) \in 0..MaxEvent /\ s - 1 <= StartOf(s)
<1>1. s \in Nat \ {0} /\ generation \in Nat
  BY DEF StoreInv
<1>2. CASE s = 1
  BY <1>2, DaemonAssumption DEF StartOf
<1>3. CASE s # 1
  <2>1. s - 1 \in DOMAIN signals /\ s - 1 < generation
    BY <1>1, <1>3 DEF StoreInv
  <2>2. SignalHolds(s - 1) /\ signals[s - 1] \in SignalRecords
    BY <2>1 DEF StoreInv
  <2> QED BY <1>3, <2>1, <2>2 DEF SignalHolds, SignalRecords, StartOf
<1> QED BY <1>2, <1>3

LEMMA ClaimsStoreInv ==
    ASSUME StoreInv, ClaimsBatch
    PROVE  StoreInv'
<1>1. PICK hold \in BOOLEAN : signals' = Append(signals, NewSignal(NoBatch, hold))
  BY DEF ClaimsBatch
<1> DEFINE new == NewSignal(NoBatch, hold)
<1>2. new \in SignalRecords
  BY DaemonAssumption DEF NewSignal, SignalRecords, StoreInv
<1>3. /\ signals' \in Seq(SignalRecords) /\ Len(signals') = generation
      /\ generation' = generation /\ generation \in Nat \ {0} /\ Len(signals) = generation - 1
      /\ \A s \in DOMAIN signals : signals'[s] = signals[s]
      /\ signals'[generation] = new
      /\ DOMAIN signals = 1..(generation - 1) /\ DOMAIN signals' = 1..generation
  BY <1>1, <1>2 DEF StoreInv, ClaimsBatch
<1>4. ASSUME NEW s \in DOMAIN signals' PROVE SignalHolds(s)'
  <2>1. CASE s = generation
    BY <1>3, <2>1 DEF SignalHolds, NewSignal, NoBatch
  <2>2. CASE s # generation
    <3>1. SignalHolds(s) /\ s \in DOMAIN signals
      BY <1>3, <2>2 DEF StoreInv
    <3>2. signals'[s] = signals[s] /\ StartOf(s)' = StartOf(s)
      BY <1>3, <3>1 DEF StartOf
    <3> QED BY <1>3, <3>1, <3>2 DEF SignalHolds
  <2> QED BY <2>1, <2>2
<1> QED BY <1>3, <1>4 DEF StoreInv

LEMMA DeliversStoreInv ==
    ASSUME StoreInv, ClaimInv, DeliversBatch
    PROVE  StoreInv'
<1>1. /\ signals' \in Seq(SignalRecords) /\ Len(signals') = Len(signals) /\ DOMAIN signals' = DOMAIN signals
      /\ generation' = generation /\ generation \in DOMAIN signals /\ Len(signals) = generation
      /\ Batch \in SignalRecords
      /\ signals'[generation] = [Batch EXCEPT !.delivered = claim.batch]
      /\ \A s \in DOMAIN signals : s # generation => signals'[s] = signals[s]
      /\ DOMAIN signals = 1..generation /\ generation \in Nat \ {0}
  BY DEF DeliversBatch, Rewritten, StoreInv, Batch
<1>2. claim.batch[1] = StartOf(generation)
  BY DEF DeliversBatch, ClaimInv
<1>3. ASSUME NEW s \in DOMAIN signals' PROVE SignalHolds(s)'
  <2>1. SignalHolds(s) /\ StartOf(s)' = StartOf(s)
    BY <1>1 DEF StoreInv, StartOf
  <2>2. CASE s = generation
    <3>1. /\ signals'[s].generation = signals[s].generation /\ signals'[s].handled = signals[s].handled
          /\ signals'[s].closed = signals[s].closed /\ signals'[s].delivered = claim.batch
      BY <1>1, <2>2 DEF Batch, SignalRecords
    <3>2. ~signals[s].closed
      BY <2>2 DEF DeliversBatch, Batch
    <3> QED BY <1>1, <1>2, <2>1, <2>2, <3>1, <3>2 DEF SignalHolds
  <2>3. CASE s # generation
    BY <1>1, <2>1, <2>3 DEF SignalHolds
  <2> QED BY <2>2, <2>3
<1> QED BY <1>1, <1>3 DEF StoreInv

LEMMA CompletesStoreInv ==
    ASSUME StoreInv, CompletesBatch
    PROVE  StoreInv'
<1>1. PICK i \in DOMAIN signals : Rewritten(i, [signals[i] EXCEPT !.completed = TRUE])
  BY DEF CompletesBatch
<1>2. /\ signals' \in Seq(SignalRecords) /\ Len(signals') = Len(signals) /\ DOMAIN signals' = DOMAIN signals
      /\ signals[i] \in SignalRecords
      /\ generation' = generation
  BY <1>1 DEF CompletesBatch, Rewritten, StoreInv
<1>3. \A s \in DOMAIN signals :
         /\ signals'[s].generation = signals[s].generation /\ signals'[s].handled = signals[s].handled
         /\ signals'[s].closed = signals[s].closed /\ signals'[s].delivered = signals[s].delivered
  BY <1>1, <1>2 DEF Rewritten, SignalRecords
<1>4. ASSUME NEW s \in DOMAIN signals' PROVE SignalHolds(s)'
  <2>1. s = 1 \/ s - 1 \in DOMAIN signals
    <3>1. s \in DOMAIN signals /\ signals \in Seq(SignalRecords)
      BY <1>2 DEF StoreInv
    <3> QED BY <3>1
  <2>2. StartOf(s)' = StartOf(s)
    BY <1>3, <2>1 DEF StartOf
  <2>3. SignalHolds(s)
    BY <1>2 DEF StoreInv
  <2> QED BY <1>2, <1>3, <2>2, <2>3 DEF SignalHolds
<1> QED BY <1>2, <1>4 DEF StoreInv

LEMMA HandlesStoreInv ==
    ASSUME StoreInv, NEW cursor \in 1..MaxEvent, HandlesBatch(cursor)
    PROVE  StoreInv'
<1>1. /\ signals' \in Seq(SignalRecords) /\ Len(signals') = Len(signals) /\ DOMAIN signals' = DOMAIN signals
      /\ generation' = generation + 1 /\ generation \in DOMAIN signals /\ Len(signals) = generation
      /\ Batch \in SignalRecords
      /\ signals'[generation] = [Batch EXCEPT !.handled = cursor, !.closed = TRUE]
      /\ \A s \in DOMAIN signals : s # generation => signals'[s] = signals[s]
      /\ DOMAIN signals = 1..generation /\ generation \in Nat \ {0}
  BY DEF HandlesBatch, Rewritten, StoreInv, Batch
<1>2. ASSUME NEW s \in DOMAIN signals' PROVE SignalHolds(s)'
  <2>1. SignalHolds(s) /\ StartOf(s)' = StartOf(s)
    BY <1>1 DEF StoreInv, StartOf
  <2>2. CASE s = generation
    <3>1. /\ signals'[s].generation = signals[s].generation /\ signals'[s].handled = cursor
          /\ signals'[s].closed = TRUE /\ signals'[s].delivered = signals[s].delivered
      BY <1>1, <2>2 DEF Batch, SignalRecords
    <3>2. InBatch(cursor, signals[s].delivered) /\ signals[s].delivered # NoBatch
      BY <2>2 DEF HandlesBatch, Batch
    <3>3. signals[s].delivered[1] = StartOf(s)
      BY <2>1, <3>2 DEF SignalHolds
    <3>4. StartOf(s) \in Int /\ s - 1 <= StartOf(s)
      BY <1>1, <2>2, StartIsPast
    <3>5. s <= cursor
      BY <1>1, <2>2, <3>2, <3>3, <3>4 DEF InBatch
    <3> QED BY <1>1, <2>1, <2>2, <3>1, <3>2, <3>3, <3>5 DEF SignalHolds
  <2>3. CASE s # generation
    <3>1. signals'[s] = signals[s] /\ s < generation /\ s < generation + 1
      BY <1>1, <2>3
    <3> QED BY <1>1, <2>1, <3>1 DEF SignalHolds
  <2> QED BY <2>2, <2>3
<1> QED BY <1>1, <1>2 DEF StoreInv

LEMMA StoreInvStep ==
    ASSUME Inv, Next
    PROVE  StoreInv'
<1>1. CASE UNCHANGED <<generation, signals>>
  BY <1>1 DEF Inv, StoreInv, SignalHolds, StartOf
<1> QED BY <1>1, StoreMoves, ClaimsStoreInv, DeliversStoreInv, CompletesStoreInv, HandlesStoreInv DEF Inv

\* A signal on record stays on record.
LEMMA SignalsGrow ==
    ASSUME Inv, Next
    PROVE  DOMAIN signals \subseteq DOMAIN signals'
<1>1. signals \in Seq(SignalRecords) /\ signals' \in Seq(SignalRecords)
  BY StoreInvStep DEF Inv, StoreInv
<1>2. Len(signals') >= Len(signals)
  <2>1. CASE ClaimsBatch
    BY <1>1, <2>1 DEF ClaimsBatch
  <2>2. CASE ~ClaimsBatch
    <3>1. CASE UNCHANGED signals
      BY <1>1, <3>1
    <3>2. CASE DeliversBatch \/ CompletesBatch \/ \E cursor \in 1..MaxEvent : HandlesBatch(cursor)
      <4>1. Len(signals') = Len(signals)
        BY <3>2 DEF DeliversBatch, CompletesBatch, HandlesBatch, Rewritten
      <4> QED BY <1>1, <4>1
    <3> QED BY <2>2, <3>1, <3>2, StoreMoves
  <2> QED BY <2>1, <2>2
<1> QED BY <1>1, <1>2

LEMMA HistoryInvStep ==
    ASSUME Inv, Next
    PROVE  HistoryInv'
<1>1. CASE UNCHANGED ack_history
  BY <1>1, SignalsGrow DEF Inv, HistoryInv
<1>2. CASE Acknowledges
  <2>1. PICK id \in AckRequests \cup {FreshRequest}, request \in AckRequest : ApplyHandledRequest(id, request)
    BY <1>2 DEF Acknowledges, ServeAck
  <2>2. CASE id = FreshRequest
    BY <1>1, <2>1, <2>2 DEF ApplyHandledRequest
  <2>3. CASE id # FreshRequest
    <3>1. id \in AckRequests /\ ack_history' = [ack_history EXCEPT ![id] =
                                                    [request |-> request, reply |-> Reply(id, request)]]
      BY <2>1, <2>3 DEF ApplyHandledRequest
    <3>2. /\ Reply(id, request) \in {"accepted", "rejected"}
          /\ Reply(id, request) = "accepted" => request.signal \in DOMAIN signals
      <4>1. CASE Replayed(id)
        <5>1. Reply(id, request) = ack_history[id].reply /\ ack_history[id].request = request
          BY <2>1, <4>1 DEF ApplyHandledRequest, RecordOk, Reply
        <5> QED BY <3>1, <4>1, <5>1 DEF Inv, HistoryInv, Replayed
      <4>2. CASE ~Replayed(id)
        BY <4>2 DEF Reply, AcceptsCursor
      <4> QED BY <4>1, <4>2
    <3> QED BY <3>1, <3>2, SignalsGrow DEF Inv, HistoryInv
  <2> QED BY <2>2, <2>3
<1>3. CASE FlushDelivery \/ PollResult \/ ChildMatched \/ RestartDrained
  BY <1>1, <1>3 DEF FlushDelivery, PollResult, ChildMatched, RestartDrained
<1> QED BY <1>1, <1>2, <1>3, StoreQuiet DEF ackVars

\* What is recorded of a batch is never changed or taken back.
LEMMA SignalsKeep ==
    ASSUME Inv, Next, NEW s \in DOMAIN signals
    PROVE  /\ s \in DOMAIN signals'
           /\ signals[s].delivered # NoBatch => signals'[s].delivered = signals[s].delivered
           /\ signals[s].handled # 0 => signals'[s].handled = signals[s].handled
           /\ signals[s].closed => signals'[s].closed
           /\ signals[s].hold => signals'[s].hold
           /\ signals[s].completed => signals'[s].completed
<1>1. /\ s \in DOMAIN signals' /\ signals[s] \in SignalRecords /\ signals'[s] \in SignalRecords
      /\ SignalHolds(s) /\ signals \in Seq(SignalRecords)
  BY SignalsGrow, StoreInvStep DEF Inv, StoreInv
<1>2. CASE UNCHANGED signals
  BY <1>1, <1>2
<1>3. CASE ClaimsBatch
  <2>1. signals'[s] = signals[s]
    BY <1>1, <1>3 DEF ClaimsBatch
  <2> QED BY <1>1, <2>1
<1>4. CASE DeliversBatch
  <2>1. CASE s = generation
    BY <1>1, <1>4, <2>1 DEF DeliversBatch, Rewritten, Batch, SignalRecords
  <2>2. CASE s # generation
    BY <1>1, <1>4, <2>2 DEF DeliversBatch, Rewritten
  <2> QED BY <2>1, <2>2
<1>5. CASE CompletesBatch
  <2>1. PICK i \in DOMAIN signals : Rewritten(i, [signals[i] EXCEPT !.completed = TRUE])
    BY <1>5 DEF CompletesBatch
  <2>2. CASE s = i
    BY <1>1, <2>1, <2>2 DEF Rewritten, SignalRecords
  <2>3. CASE s # i
    BY <1>1, <2>1, <2>3 DEF Rewritten
  <2> QED BY <2>2, <2>3
<1>6. ASSUME NEW cursor \in 1..MaxEvent, HandlesBatch(cursor)
      PROVE  /\ signals[s].delivered # NoBatch => signals'[s].delivered = signals[s].delivered
             /\ signals[s].handled # 0 => signals'[s].handled = signals[s].handled
             /\ signals[s].closed => signals'[s].closed
             /\ signals[s].hold => signals'[s].hold
             /\ signals[s].completed => signals'[s].completed
  <2>1. CASE s = generation
    <3>1. signals[s].handled = 0
      BY <1>1, <1>6, <2>1 DEF HandlesBatch, Batch, SignalHolds
    <3> QED BY <1>1, <1>6, <2>1, <3>1 DEF HandlesBatch, Rewritten, Batch, SignalRecords
  <2>2. CASE s # generation
    BY <1>1, <1>6, <2>2 DEF HandlesBatch, Rewritten
  <2> QED BY <2>1, <2>2
<1> QED BY <1>1, <1>2, <1>3, <1>4, <1>5, <1>6, StoreMoves

-----------------------------------------------------------------------------
(* The claim and the cursor of the main loop. *)

\* Nothing is pending before a claim.
LEMMA IdleDelivery ==
    ASSUME Inv, Next, UNCHANGED coverageVars, claim = NoClaim
    PROVE  pending' = NoPending
<1>1. pending = NoPending
  BY DEF Inv, ClaimInv
<1>2. CASE TakeRearm
  BY <1>1, <1>2 DEF TakeRearm, pipeVars
<1>3. CASE Adopt \/ RevokeLost
  BY <1>1, <1>3 DEF Adopt, RevokeLost, TransportLoss, AfterLoss, NoPending, pipeVars
<1>4. CASE FlushDelivery \/ FlushFails
  BY <1>4 DEF FlushDelivery, FlushFails, Flushing
<1>5. CASE PollResult
  BY <1>1, <1>5 DEF PollResult, RecordOkFor
<1>6. CASE ChildMatched \/ RestartDrained
  <2>1. claim' = claim
    BY DEF coverageVars
  <2>2. claim' # NewClaim
    BY <2>1 DEF NewClaim, NoClaim
  <2> QED BY <1>1, <1>6, <2>2, DrainStep DEF Inv, pipeVars
<1>7. CASE UNCHANGED <<pipeVars, sent>>
  BY <1>1, <1>7 DEF pipeVars
<1> QED BY <1>2, <1>3, <1>4, <1>5, <1>6, <1>7, DeliveryQuiet

\* A re-arm moves the main loop to the generation of the ACK store.
LEMMA RearmStep ==
    ASSUME Inv, TakeRearm
    PROVE  /\ generation = arm_generation + 1 /\ arm_generation' = generation
           /\ after' = signals[arm_generation].handled /\ claim' = NoClaim /\ pending' = NoPending
           /\ attempted' = FALSE /\ UNCHANGED deliveries
           /\ pc' = "restart" /\ UNCHANGED <<ackVars, child, published, link, next, then, sent, halt_cause>>
           /\ served' \in {served, NoServed}
           /\ current' = IF current # NoLink /\ current.generation < generation THEN NoLink ELSE current
           /\ UNCHANGED <<attach_history, accept>>
           /\ events # <<>> /\ IsRearm(Head(events)) /\ events' = Tail(events)
<1>1. events # <<>> /\ IsRearm(Head(events)) /\ events' = Tail(events)
  BY DEF TakeRearm, IsRearm
<1>2. RearmDue(Head(events))
  <2>1. events \in Seq(AttachEvents \cup RearmEvents)
    BY DEF Inv, ChannelInv
  <2>2. 1 \in DOMAIN events /\ Head(events) = events[1]
    BY <1>1, <2>1
  <2> QED BY <1>1, <2>2 DEF Inv, ChannelInv
<1>3. arm_generation # Head(events).generation
  BY <1>2 DEF RearmDue, Inv, ClaimInv
<1> QED BY <1>1, <1>2, <1>3 DEF TakeRearm, RearmDue, Goto, providerVars, waiterVars

LEMMA RearmClaimInv ==
    ASSUME Inv, TakeRearm
    PROVE  ClaimInv'
<1>1. /\ generation = arm_generation + 1 /\ arm_generation' = generation /\ after' = signals[arm_generation].handled
      /\ claim' = NoClaim /\ pending' = NoPending /\ UNCHANGED <<ackVars, published>>
  BY RearmStep
<1>2. /\ claim # NoClaim /\ arm_generation \in DOMAIN signals
      /\ InBatch(signals[arm_generation].handled, claim.batch)
      /\ signals[arm_generation].closed
  BY <1>1, AheadIsPending DEF Inv
<1>3. /\ Len(signals) = arm_generation /\ claim.batch[1] = after /\ claim.batch[2] <= published
      /\ claim.batch \in Batches /\ published \in 0..MaxEvent /\ arm_generation \in Nat \ {0}
      /\ after \in 0..published
  BY <1>2 DEF Inv, ClaimInv
<1>4. signals[arm_generation] \in SignalRecords /\ arm_generation <= signals[arm_generation].handled
  BY <1>2 DEF Inv, StoreInv, SignalHolds
<1>5. after' \in 0..published /\ arm_generation <= after'
  BY <1>1, <1>2, <1>3, <1>4, DaemonAssumption DEF InBatch, Batches, SignalRecords
<1>6. after' = StartOf(generation)
  BY <1>1, <1>3 DEF StartOf
<1>7. StartOf(generation)' = StartOf(generation) /\ StartOf(arm_generation)' = StartOf(generation)'
  BY <1>1 DEF StartOf, ackVars
<1> QED BY <1>1, <1>3, <1>5, <1>6, <1>7 DEF ClaimInv, ackVars

LEMMA DrainClaimInv ==
    ASSUME Inv, ChildMatched \/ RestartDrained
    PROVE  ClaimInv'
<1>1. UNCHANGED <<generation, arm_generation, after, published>>
  BY DrainStep DEF Inv
<1>2. CASE UNCHANGED <<signals, claim, pipeVars>>
  BY <1>1, <1>2 DEF Inv, ClaimInv, StartOf, pipeVars
<1>3. CASE ClaimsBatch /\ generation = arm_generation /\ published > after /\ NewClaim.batch \in Batches
  <2>1. PICK hold \in BOOLEAN : signals' = Append(signals, NewSignal(NoBatch, hold))
    BY <1>3 DEF ClaimsBatch
  <2>2. /\ signals \in Seq(SignalRecords) /\ Len(signals) = arm_generation - 1
        /\ arm_generation \in Nat \ {0} /\ after \in 0..published /\ published \in 0..MaxEvent
        /\ after = StartOf(arm_generation) /\ arm_generation - 1 <= after
    BY <1>3 DEF Inv, StoreInv, ClaimInv, ClaimsBatch
  <2> DEFINE new == NewSignal(NoBatch, hold)
  <2>3. new.delivered = NoBatch
    BY DEF NewSignal
  <2> HIDE DEF new
  <2>4. /\ Len(signals') = arm_generation /\ signals'[arm_generation] = new
        /\ \A s \in DOMAIN signals : signals'[s] = signals[s]
    BY <2>1, <2>2 DEF new
  <2>5. StartOf(arm_generation)' = StartOf(arm_generation)
    BY <1>1, <2>2, <2>4 DEF StartOf
  <2>6. /\ claim' = NewClaim /\ NewClaim # NoClaim
        /\ NewClaim \in [signal : {arm_generation}, generation : {arm_generation}, batch : Batches]
        /\ NewClaim.batch[1] = after /\ NewClaim.batch[2] = published
    BY <1>3 DEF ClaimsBatch, NewClaim, NoClaim
  <2> QED BY <1>1, <1>3, <2>2, <2>3, <2>4, <2>5, <2>6 DEF ClaimInv
<1> QED BY <1>2, <1>3, DrainStep DEF Inv

LEMMA ClaimInvStep ==
    ASSUME Inv, Next
    PROVE  ClaimInv'
<1>1. CASE UNCHANGED coverageVars
  <2>1. published' \in 0..MaxEvent /\ published' >= published /\ after \in 0..published'
    <3>1. published \in 0..MaxEvent /\ after \in 0..published
      BY DEF Inv, ClaimInv
    <3>2. published' = published \/ (published < MaxEvent /\ published' = published + 1)
      BY PublishedQuiet DEF Publish
    <3> QED BY <3>1, <3>2, DaemonAssumption
  <2>2. UNCHANGED <<arm_generation, after, claim>>
    BY <1>1 DEF coverageVars
  <2>3. claim = NoClaim => pending' = NoPending
    BY <1>1, IdleDelivery
  <2>4. ~ClaimsBatch
    <3>1. claim = NoClaim => claim' # NewClaim
      BY <2>2 DEF NewClaim, NoClaim
    <3> QED BY <3>1 DEF ClaimsBatch
  <2>5. StartOf(arm_generation)' = StartOf(arm_generation)
    <3>1. CASE arm_generation = 1
      BY <2>2, <3>1 DEF StartOf
    <3>2. CASE arm_generation # 1
      <4>1. arm_generation - 1 \in DOMAIN signals /\ arm_generation - 1 < generation
        BY <3>2 DEF Inv, ClaimInv, StoreInv
      <4>2. signals[arm_generation - 1].handled # 0
        BY <4>1 DEF Inv, StoreInv, SignalHolds
      <4> QED BY <2>2, <3>2, <4>1, <4>2, SignalsKeep DEF StartOf
    <3> QED BY <3>1, <3>2
  <2>6. /\ Len(signals') = Len(signals)
        /\ claim = NoClaim => generation' = generation
        /\ claim # NoClaim => generation' \in {arm_generation, arm_generation + 1}
    <3>1. /\ generation \in {arm_generation, arm_generation + 1} /\ arm_generation \in Nat
          /\ claim = NoClaim => Len(signals) = arm_generation - 1
          /\ claim # NoClaim => Len(signals) = arm_generation
      BY DEF Inv, ClaimInv
    <3>2. CASE UNCHANGED <<generation, signals>>
      BY <3>1, <3>2
    <3>3. CASE DeliversBatch \/ CompletesBatch
      BY <3>1, <3>3 DEF DeliversBatch, CompletesBatch, Rewritten
    <3>4. CASE \E cursor \in 1..MaxEvent : HandlesBatch(cursor)
      BY <3>1, <3>4 DEF HandlesBatch, Rewritten
    <3> QED BY <2>4, <3>2, <3>3, <3>4, StoreMoves
  <2>7. claim # NoClaim => signals'[arm_generation].delivered \in {NoBatch, claim.batch}
    <3>1. SUFFICES ASSUME claim # NoClaim PROVE signals'[arm_generation].delivered \in {NoBatch, claim.batch}
      OBVIOUS
    <3>2. /\ arm_generation \in DOMAIN signals /\ Len(signals) = arm_generation
          /\ signals[arm_generation].delivered \in {NoBatch, claim.batch}
          /\ signals[arm_generation] \in SignalRecords
      BY <3>1 DEF Inv, ClaimInv, StoreInv
    <3>3. CASE UNCHANGED signals
      BY <3>2, <3>3
    <3>4. CASE DeliversBatch
      BY <3>2, <3>4 DEF DeliversBatch, Rewritten, Batch, SignalRecords
    <3>5. CASE CompletesBatch
      BY <3>2, <3>5 DEF CompletesBatch, Rewritten, SignalRecords
    <3>6. CASE \E cursor \in 1..MaxEvent : HandlesBatch(cursor)
      BY <3>2, <3>6 DEF HandlesBatch, Rewritten, Batch, SignalRecords
    <3> QED BY <2>4, <3>3, <3>4, <3>5, <3>6, StoreMoves
  <2>8. ClaimInv
    BY DEF Inv
  <2>9. CASE claim = NoClaim
    BY <2>1, <2>2, <2>3, <2>5, <2>6, <2>8, <2>9 DEF ClaimInv
  <2>10. CASE claim # NoClaim
    <3>1. generation' \in {arm_generation', arm_generation' + 1} /\ Len(signals') = arm_generation'
      BY <2>2, <2>6, <2>8, <2>10 DEF ClaimInv
    <3>2. claim.batch[2] <= published'
      BY <2>1, <2>8, <2>10, DaemonAssumption DEF ClaimInv, Batches
    <3> QED BY <2>1, <2>2, <2>5, <2>7, <2>8, <2>10, <3>1, <3>2 DEF ClaimInv
  <2> QED BY <2>9, <2>10
<1>2. CASE TakeRearm
  BY <1>2, RearmClaimInv
<1>3. CASE ChildMatched \/ RestartDrained
  BY <1>3, DrainClaimInv
<1> QED BY <1>1, <1>2, <1>3, CoverageQuiet

-----------------------------------------------------------------------------
(* The places of the main loop: coverage is paused by a claim, and by nothing else. *)

LEMMA PlaceInvStep ==
    ASSUME Inv, Next
    PROVE  PlaceInv'
<1>1. CASE TakeRearm
  BY <1>1, RearmStep DEF Inv, PlaceInv, CoveragePausedByClaim, ClaimNeverRefused, Places
<1>2. CASE ChildMatched \/ RestartDrained
  <2>1. claim = NoClaim => NewClaim # NoClaim
    <3>1. arm_generation # 0
      BY DEF Inv, ClaimInv
    <3> QED BY <3>1 DEF NewClaim, NoClaim
  <2>2. PlaceInv /\ child' = "none" /\ pc \in {"child", "restart"}
    BY <1>2, DrainStep DEF Inv, ChildMatched, RestartDrained
  <2> QED BY <1>2, <2>1, <2>2, DrainStep DEF Inv, PlaceInv, CoveragePausedByClaim, ClaimNeverRefused, Places
<1>3. CASE claim' = claim /\ ~(ChildMatched \/ RestartDrained) /\ ~TakeRearm
  <2>1. CASE MainLoop
    <3>1. CASE CoverageOver \/ TakeAttached \/ NoEventInTime \/ Disconnected \/ Adopt \/ ReadLink
      BY <1>3, <3>1 DEF CoverageOver, TakeAttached, NoEventInTime, Disconnected, Adopt, ReadLink, Goto, Call, Halt,
         providerVars, Inv, PlaceInv, CoveragePausedByClaim, ClaimNeverRefused, Places
    <3>2. CASE FlushNothing \/ FlushRefused \/ FlushDelivery \/ FlushFails \/ RevokeLost \/ RevokeTerminal
      <4>1. /\ pc' \in {then, "lost"} /\ then' \in {then, "head"} /\ pc \in {"flush", "lost", "terminal"}
            /\ UNCHANGED <<child, halt_cause>>
        BY <3>2 DEF FlushNothing, FlushRefused, FlushDelivery, FlushFails, Flushing, RevokeLost, RevokeTerminal,
           Goto, providerVars
      <4> QED BY <1>3, <4>1 DEF Inv, PlaceInv, CoveragePausedByClaim, ClaimNeverRefused, Places
    <3>3. CASE PollNoResult \/ PollSessionLost \/ PollResult
      <4>1. /\ pc' \in {"child", "lost", "terminal"} /\ then' \in {then, "child"} /\ pc = "result"
            /\ UNCHANGED <<child, halt_cause>>
        BY <3>3 DEF PollNoResult, PollSessionLost, PollResult, Goto, Call, providerVars
      <4> QED BY <1>3, <4>1 DEF Inv, PlaceInv, CoveragePausedByClaim, ClaimNeverRefused, Places
    <3>4. CASE ChildQuiet \/ ChildTimedOut \/ ChildFailed \/ RestartEmpty \/ RestartFails \/ Halted
      BY <1>3, <3>4 DEF ChildQuiet, ChildTimedOut, ChildFailed, RestartEmpty, RestartFails, Halted, Goto, Halt,
         providerVars, Inv, PlaceInv, CoveragePausedByClaim, ClaimNeverRefused, Places
    <3> QED BY <1>3, <2>1, <3>1, <3>2, <3>3, <3>4 DEF MainLoop
  <2>2. CASE ~MainLoop
    <3>1. UNCHANGED <<pc, then, halt_cause>>
      BY <2>2 DEF Next, AcceptThread, Attaches, Acknowledges, PrepareAttach, CommitWrittenAttach, FailToWriteReply,
         SendEvent, AcceptAttach, ServeAck, Environment, Publish, ChildExits, LeaseElapses, CoverageElapses,
         ListenerFails, ReceiveDelivery, Leave, WaiterDies, controlVars
    <3>2. \/ child' = child
          \/ child = "running" /\ child' \in {"matched", "timeout", "error"}
      BY <2>2 DEF Next, AcceptThread, Attaches, Acknowledges, PrepareAttach, CommitWrittenAttach, FailToWriteReply,
         SendEvent, AcceptAttach, ServeAck, Environment, Publish, ChildExits, LeaseElapses, CoverageElapses,
         ListenerFails, ReceiveDelivery, Leave, WaiterDies, providerVars
    <3> QED BY <1>3, <3>1, <3>2 DEF Inv, PlaceInv, CoveragePausedByClaim, ClaimNeverRefused
  <2> QED BY <2>1, <2>2
<1> QED BY <1>1, <1>2, <1>3, CoverageQuiet DEF coverageVars

-----------------------------------------------------------------------------
(* The accept thread and its channel: at most one re-arm is under way. *)

\* Only an accepted request starts a generation.
LEMMA GenerationQuiet ==
    ASSUME Next
    PROVE  Acknowledges \/ UNCHANGED generation
BY StoreQuiet DEF FlushDelivery, PollResult, ChildMatched, RestartDrained, ackVars

LEMMA ArmQuiet ==
    ASSUME Next
    PROVE  TakeRearm \/ UNCHANGED <<arm_generation, after>>
BY CoverageQuiet DEF ChildMatched, RestartDrained, coverageVars

LEMMA LinksTyped == NoLink \in Links /\ NoSession \in Links /\ \A l \in Links : l # NoLink => l \in [link : Conns, generation : Gens]
BY DEF Links, NoSession

LEMMA AcceptInvStep ==
    ASSUME Inv, Next
    PROVE  AcceptInv'
<1>1. CASE Attaches
  <2>1. PICK c \in Conns, r \in Conns, gen \in Gens : AcceptAttach(c, r, gen)
    BY <1>1 DEF Attaches
  <2>2. accept' \in [pc : {"prepare"}, conn : Conns, request : Conns, generation : Gens, arm : {generation}]
        /\ generation' = generation
    BY <2>1 DEF AcceptAttach, ackVars
  <2> QED BY <2>2 DEF AcceptInv
<1>2. CASE PrepareAttach
  <2>1. accept \in [pc : {"prepare"}, conn : Conns, request : Conns, generation : Gens, arm : {generation}]
        /\ generation' = generation
    BY <1>2 DEF PrepareAttach, Inv, AcceptInv, Idle, ackVars
  <2> DEFINE table == DropExpired(lapsed)
             decision == DecideAttach(accept.request, accept.generation, accept.arm, covered, table)
  <2>2. table \in Links
    BY LinksTyped DEF DropExpired, Inv, LinksInv
  <2>3. decision \in {"accepted", "rejected", "replay"}
        /\ (decision = "accepted" => accept.generation = generation)
    BY <2>1 DEF DecideAttach
  <2>4. AdmittedLink(accept.request, accept.generation) \in Links
    BY <2>1 DEF AdmittedLink, Links
  <2> HIDE DEF table, decision
  <2>5. accept' = [pc |-> "commit", conn |-> accept.conn, request |-> accept.request,
                   generation |-> accept.generation, decision |-> decision,
                   session |-> IF decision = "accepted"
                               THEN AdmittedLink(accept.request, accept.generation)
                               ELSE IF decision = "replay" /\ table.link = accept.request
                               THEN table ELSE NoSession]
    BY <1>2 DEF PrepareAttach, table, decision
  <2>6. accept' \in [pc : {"commit"}, conn : Conns, request : Conns, generation : Gens,
                     decision : {"accepted", "rejected", "replay"}, session : Links]
        /\ (accept'.decision = "accepted" => accept'.generation = generation')
    BY <2>1, <2>2, <2>3, <2>4, <2>5, LinksTyped
  <2> QED BY <2>6 DEF AcceptInv
<1>3. CASE CommitWrittenAttach
  <2>1. accept \in [pc : {"commit"}, conn : Conns, request : Conns, generation : Gens,
                    decision : {"accepted", "rejected", "replay"}, session : Links]
    BY <1>3 DEF CommitWrittenAttach, Inv, AcceptInv, Idle
  <2>2. accept' \in {Idle, [pc |-> "send", conn |-> accept.conn, event |-> Attached(accept.conn, accept.session)]}
    BY <1>3 DEF CommitWrittenAttach
  <2>3. Attached(accept.conn, accept.session) \in AttachEvents
    BY <2>1 DEF Attached, AttachEvents
  <2>4. accept' = Idle \/ accept' \in [pc : {"send"}, conn : Conns \cup {"none"}, event : AttachEvents \cup RearmEvents]
    BY <2>1, <2>2, <2>3
  <2> QED BY <2>4 DEF AcceptInv, Idle
<1>4. CASE FailToWriteReply \/ SendEvent
  BY <1>4 DEF FailToWriteReply, SendEvent, AcceptInv, Idle
<1>5. CASE ListenerFails \/ Halted
  BY <1>5 DEF ListenerFails, Halted, AcceptInv
<1>6. CASE Acknowledges
  <2>1. PICK id \in AckRequests \cup {FreshRequest}, request \in AckRequest : ServeAck(id, request)
    BY <1>6 DEF Acknowledges
  <2>2. request.cursor \in Nat /\ request.signal \in Nat /\ generation + 1 \in Nat
    BY DaemonAssumption DEF AckRequest, Inv, StoreInv
  <2>3. AckRearm(request) \in RearmEvents
    BY <2>2 DEF AckRearm, RearmEvents, NoLink
  <2>4. accept' = Idle \/ accept' \in [pc : {"send"}, conn : Conns \cup {"none"}, event : AttachEvents \cup RearmEvents]
    BY <2>1, <2>3, AckStep DEF Inv
  <2> QED BY <2>4 DEF AcceptInv, Idle
<1>7. CASE UNCHANGED accept /\ UNCHANGED generation
  BY <1>7 DEF Inv, AcceptInv, Idle
<1>8. CASE TakeAttached \/ TakeRearm
  BY <1>7, <1>8 DEF TakeAttached, TakeRearm, ackVars
<1> QED BY <1>1, <1>2, <1>3, <1>4, <1>5, <1>6, <1>7, <1>8, ChannelQuiet, GenerationQuiet DEF AcceptThread, acceptVars

LEMMA TailFacts ==
    ASSUME NEW S, NEW q \in Seq(S), q # <<>>
    PROVE  /\ Tail(q) \in Seq(S) /\ Len(Tail(q)) = Len(q) - 1
           /\ \A i \in DOMAIN Tail(q) : i + 1 \in DOMAIN q /\ Tail(q)[i] = q[i + 1]
           /\ \A i \in DOMAIN q : i # 1 => i - 1 \in DOMAIN Tail(q) /\ Tail(q)[i - 1] = q[i]
           /\ 1 \in DOMAIN q /\ Head(q) = q[1]
OBVIOUS

LEMMA AppendFacts ==
    ASSUME NEW S, NEW q \in Seq(S), NEW e \in S
    PROVE  /\ Append(q, e) \in Seq(S) /\ Len(Append(q, e)) = Len(q) + 1
           /\ DOMAIN Append(q, e) = DOMAIN q \cup {Len(q) + 1} /\ Len(q) + 1 \notin DOMAIN q
           /\ \A i \in DOMAIN q : Append(q, e)[i] = q[i]
           /\ Append(q, e)[Len(q) + 1] = e
OBVIOUS

\* A re-arm has no connection, an attach has one.
LEMMA RearmHasNone ==
    ASSUME NEW e \in AttachEvents \cup RearmEvents
    PROVE  IsRearm(e) <=> e.conn = "none"
BY DaemonAssumption DEF IsRearm, AttachEvents, RearmEvents

\* RearmDue in the next state.
DueNext(e) ==
    /\ generation' = arm_generation' + 1
    /\ e.generation = generation' /\ e.after = signals'[arm_generation'].handled

\* A re-arm stays due until the main loop takes it.
LEMMA DueStays ==
    ASSUME Inv, Next, UNCHANGED <<generation, arm_generation>>, NEW e, RearmDue(e)
    PROVE  DueNext(e)
<1>1. arm_generation \in DOMAIN signals /\ signals[arm_generation].closed
  BY AheadIsPending DEF Inv, RearmDue
<1>2. signals[arm_generation].handled # 0
  BY <1>1 DEF Inv, StoreInv, SignalHolds
<1> QED BY <1>1, <1>2, SignalsKeep DEF RearmDue, DueNext

\* No re-arm is under way while the ACK store is not ahead, and one is when it is.
LEMMA RearmUnderway ==
    ASSUME Inv
    PROVE  /\ generation = arm_generation => /\ \A i \in DOMAIN events : ~IsRearm(events[i])
                                             /\ accept.pc = "send" => ~IsRearm(accept.event)
           /\ generation # arm_generation => generation = arm_generation + 1
BY DEF Inv, ChannelInv, RearmDue, ClaimInv

\* A step of the accept thread that leaves the channel and the generation alone.
LEMMA AcceptChannel ==
    ASSUME Inv, Next, UNCHANGED <<events, generation, arm_generation>>,
           accept.pc = "send" => ~IsRearm(accept.event),
           accept'.pc = "send" => ~IsRearm(accept'.event),
           accept'.pc \in {"prepare", "commit"} => \A i \in DOMAIN events : events[i].conn # accept'.conn,
           accept'.pc = "send" => \A i \in DOMAIN events : events[i].conn # accept'.event.conn
    PROVE  ChannelInv'
<1>1. \A i \in DOMAIN events' : IsRearm(events'[i]) => DueNext(events'[i])
  <2>1. SUFFICES ASSUME NEW i \in DOMAIN events, IsRearm(events[i]) PROVE DueNext(events[i])
    OBVIOUS
  <2>2. RearmDue(events[i])
    BY <2>1 DEF Inv, ChannelInv
  <2> QED BY <2>2, DueStays
<1> QED BY <1>1 DEF Inv, ChannelInv, IsRearm, RearmDue, DueNext

LEMMA AttachChannel ==
    ASSUME Inv, Next, Attaches
    PROVE  ChannelInv'
<1>1. PICK c \in Conns, r \in Conns, gen \in Gens : AcceptAttach(c, r, gen)
  BY DEF Attaches
<1>2. accept = Idle /\ accept'.pc = "prepare" /\ accept'.conn = c /\ UNCHANGED <<events, generation, arm_generation>>
  BY <1>1 DEF AcceptAttach, ackVars, coverageVars
<1>3. \A i \in DOMAIN events : events[i].conn # c
  BY <1>1 DEF AcceptAttach, Unused, Held, ServedConns
<1> QED BY <1>2, <1>3, AcceptChannel DEF Idle

LEMMA ReplyChannel ==
    ASSUME Inv, Next, PrepareAttach \/ CommitWrittenAttach \/ FailToWriteReply \/ ListenerFails \/ Halted
    PROVE  ChannelInv'
<1>1. UNCHANGED <<events, generation, arm_generation>>
  BY DEF PrepareAttach, CommitWrittenAttach, FailToWriteReply, ListenerFails, Halted, ackVars, coverageVars
<1>2. accept.pc # "send"
  BY DEF PrepareAttach, CommitWrittenAttach, FailToWriteReply, ListenerFails, Halted, Idle
<1>3. CASE FailToWriteReply \/ ListenerFails \/ Halted
  <2>1. accept'.pc \in {"idle", "gone"}
    BY <1>3 DEF FailToWriteReply, ListenerFails, Halted, Idle
  <2> QED BY <1>1, <1>2, <2>1, AcceptChannel
<1>4. CASE PrepareAttach
  <2>1. accept.pc = "prepare" /\ accept'.pc = "commit" /\ accept'.conn = accept.conn
    BY <1>4 DEF PrepareAttach
  <2> QED BY <1>1, <1>2, <2>1, AcceptChannel DEF Inv, ChannelInv
<1>5. CASE CommitWrittenAttach
  <2>1. /\ accept.pc = "commit"
        /\ \/ accept' = Idle
           \/ accept' = [pc |-> "send", conn |-> accept.conn, event |-> Attached(accept.conn, accept.session)]
    BY <1>5 DEF CommitWrittenAttach
  <2>2. CASE accept' = Idle
    BY <1>1, <1>2, <2>2, AcceptChannel DEF Idle
  <2>3. CASE accept' # Idle
    <3>1. accept'.pc = "send" /\ accept'.event = Attached(accept.conn, accept.session)
      BY <2>1, <2>3
    <3>2. accept'.event.conn = accept.conn /\ ~IsRearm(accept'.event)
      BY <3>1 DEF Attached, IsRearm
    <3> QED BY <1>1, <1>2, <2>1, <3>1, <3>2, AcceptChannel DEF Inv, ChannelInv
  <2> QED BY <2>2, <2>3
<1> QED BY <1>3, <1>4, <1>5

LEMMA AckChannel ==
    ASSUME Inv, Next, Acknowledges
    PROVE  ChannelInv'
<1>1. PICK id \in AckRequests \cup {FreshRequest}, request \in AckRequest : ServeAck(id, request)
  BY DEF Acknowledges
<1>2. accept = Idle /\ UNCHANGED <<events, arm_generation>>
  BY <1>1 DEF ServeAck, coverageVars
<1>3. CASE UNCHANGED <<generation, signals>> /\ accept' = Idle
  BY <1>2, <1>3, AcceptChannel DEF Idle
<1>4. CASE /\ HandlesBatch(request.cursor)
           /\ accept' = [pc |-> "send", conn |-> "none", event |-> AckRearm(request)]
           /\ request.signal = generation
  <2>1. generation = arm_generation /\ generation' = arm_generation' + 1 /\ generation \in DOMAIN signals
        /\ Batch \in SignalRecords
    BY <1>2, <1>4 DEF HandlesBatch, Inv, ClaimInv, StoreInv, Batch
  <2>2. \A i \in DOMAIN events : ~IsRearm(events[i])
    BY <2>1, RearmUnderway
  <2>3. signals'[generation].handled = request.cursor
    BY <1>4, <2>1 DEF HandlesBatch, Rewritten, SignalRecords
  <2>4. /\ accept'.pc = "send" /\ accept'.event = AckRearm(request)
        /\ AckRearm(request).generation = generation + 1 /\ AckRearm(request).after = request.cursor
        /\ IsRearm(AckRearm(request)) /\ AckRearm(request).conn = "none"
    BY <1>4 DEF AckRearm, IsRearm
  <2>5. DueNext(accept'.event)
    BY <1>2, <1>4, <2>1, <2>3, <2>4 DEF DueNext, HandlesBatch
  <2>6. \A i \in DOMAIN events : events[i].conn # "none"
    <3>1. events \in Seq(AttachEvents \cup RearmEvents)
      BY DEF Inv, ChannelInv
    <3> QED BY <2>2, <3>1, RearmHasNone
  <2> QED BY <1>2, <2>2, <2>4, <2>5, <2>6 DEF Inv, ChannelInv, IsRearm, RearmDue, DueNext
<1> QED BY <1>1, <1>3, <1>4, AckStep DEF Inv

LEMMA SendChannel ==
    ASSUME Inv, Next, SendEvent
    PROVE  ChannelInv'
<1>1. /\ accept.pc = "send" /\ accept'.pc = "idle" /\ events' = Append(events, accept.event)
      /\ UNCHANGED <<generation, arm_generation>>
  BY DEF SendEvent, Idle, ackVars, coverageVars
<1>2. accept.event \in AttachEvents \cup RearmEvents /\ events \in Seq(AttachEvents \cup RearmEvents)
  BY <1>1 DEF Inv, AcceptInv, ChannelInv, Idle
<1> DEFINE n == Len(events) + 1
<1>3. /\ events' \in Seq(AttachEvents \cup RearmEvents)
      /\ DOMAIN events' = DOMAIN events \cup {n} /\ n \notin DOMAIN events
      /\ \A i \in DOMAIN events : events'[i] = events[i]
      /\ events'[n] = accept.event
  BY <1>1, <1>2, AppendFacts
<1> HIDE DEF n
<1>4. ASSUME NEW i \in DOMAIN events', IsRearm(events'[i]) PROVE DueNext(events'[i])
  <2> DEFINE e == IF i = n THEN accept.event ELSE events[i]
  <2>1. e = events'[i] /\ RearmDue(e)
    BY <1>1, <1>3, <1>4 DEF Inv, ChannelInv, IsRearm
  <2>2. RearmDue(events'[i])
    BY <2>1
  <2> QED BY <1>1, <2>2, DueStays
<1>5. generation' = arm_generation' + 1 => \E i \in DOMAIN events' : IsRearm(events'[i])
  BY <1>1, <1>3 DEF Inv, ChannelInv, IsRearm
<1>6. \A i, j \in DOMAIN events' : events'[i].conn = events'[j].conn => i = j
  BY <1>1, <1>3 DEF Inv, ChannelInv
<1> QED BY <1>1, <1>3, <1>4, <1>5, <1>6 DEF ChannelInv, IsRearm, RearmDue, DueNext

LEMMA TakeChannel ==
    ASSUME Inv, Next, TakeAttached \/ TakeRearm
    PROVE  ChannelInv'
<1>1. events # <<>> /\ events' = Tail(events) /\ UNCHANGED <<accept, generation>>
  BY DEF TakeAttached, TakeRearm, ackVars
<1>2. events \in Seq(AttachEvents \cup RearmEvents)
  BY DEF Inv, ChannelInv
<1>3. /\ events' \in Seq(AttachEvents \cup RearmEvents)
      /\ \A i \in DOMAIN events' : i + 1 \in DOMAIN events /\ events'[i] = events[i + 1]
      /\ \A i \in DOMAIN events : i # 1 => i - 1 \in DOMAIN events' /\ events'[i - 1] = events[i]
      /\ 1 \in DOMAIN events /\ Head(events) = events[1]
      /\ DOMAIN events' \subseteq Nat \ {0}
  BY <1>1, <1>2, TailFacts
<1>4. /\ \A i, j \in DOMAIN events' : events'[i].conn = events'[j].conn => i = j
      /\ accept'.pc \in {"prepare", "commit"} => \A i \in DOMAIN events' : events'[i].conn # accept'.conn
      /\ accept'.pc = "send" => \A i \in DOMAIN events' : events'[i].conn # accept'.event.conn
  BY <1>1, <1>3 DEF Inv, ChannelInv
<1>5. CASE TakeAttached
  <2>1. arm_generation' = arm_generation /\ ~IsRearm(events[1])
    BY <1>3, <1>5 DEF TakeAttached, coverageVars, IsRearm
  <2>2. ASSUME NEW i \in DOMAIN events', IsRearm(events'[i]) PROVE DueNext(events'[i])
    <3>1. RearmDue(events[i + 1])
      BY <1>3, <2>2 DEF Inv, ChannelInv
    <3>2. RearmDue(events'[i])
      BY <1>3, <3>1
    <3> QED BY <1>1, <2>1, <3>2, DueStays
  <2>3. accept.pc = "send" /\ IsRearm(accept.event) => DueNext(accept'.event)
    <3>1. SUFFICES ASSUME accept.pc = "send", IsRearm(accept.event) PROVE DueNext(accept'.event)
      OBVIOUS
    <3>2. RearmDue(accept.event)
      BY <3>1 DEF Inv, ChannelInv
    <3> QED BY <1>1, <2>1, <3>2, DueStays
  <2>4. (\E i \in DOMAIN events : IsRearm(events[i])) => \E i \in DOMAIN events' : IsRearm(events'[i])
    BY <1>3, <2>1
  <2> QED BY <1>1, <1>3, <1>4, <2>1, <2>2, <2>3, <2>4 DEF Inv, ChannelInv, IsRearm, RearmDue, DueNext
<1>6. CASE TakeRearm
  <2>1. IsRearm(events[1]) /\ events[1] \in AttachEvents \cup RearmEvents /\ generation' = arm_generation'
    BY <1>2, <1>3, <1>6, RearmStep DEF ackVars
  <2>2. events[1].conn = "none"
    BY <2>1, RearmHasNone
  <2>3. \A i \in DOMAIN events' : ~IsRearm(events'[i])
    <3>1. SUFFICES ASSUME NEW i \in DOMAIN events', IsRearm(events'[i]) PROVE FALSE
      OBVIOUS
    <3>2. i + 1 \in DOMAIN events /\ i + 1 # 1 /\ events'[i] = events[i + 1] /\ events[i + 1] \in AttachEvents \cup RearmEvents
      BY <1>2, <1>3
    <3>3. events[i + 1].conn = "none"
      BY <3>1, <3>2, RearmHasNone
    <3> QED BY <1>3, <2>2, <3>2, <3>3 DEF Inv, ChannelInv
  <2>4. accept.pc = "send" => ~IsRearm(accept.event)
    <3>1. SUFFICES ASSUME accept.pc = "send", IsRearm(accept.event) PROVE FALSE
      OBVIOUS
    <3>2. accept.event \in AttachEvents \cup RearmEvents
      BY <3>1 DEF Inv, AcceptInv, Idle
    <3>3. accept.event.conn = "none"
      BY <3>1, <3>2, RearmHasNone
    <3> QED BY <1>3, <2>2, <3>1, <3>3 DEF Inv, ChannelInv
  <2>5. generation' # arm_generation' + 1
    BY <2>1, <1>1 DEF Inv, StoreInv
  <2> QED BY <1>1, <1>3, <1>4, <2>3, <2>4, <2>5 DEF ChannelInv, IsRearm
<1> QED BY <1>5, <1>6

LEMMA ChannelInvStep ==
    ASSUME Inv, Next
    PROVE  ChannelInv'
<1>1. CASE UNCHANGED acceptVars /\ ~Acknowledges /\ ~TakeRearm
  <2>1. UNCHANGED <<accept, events, generation, arm_generation>>
    BY <1>1, GenerationQuiet, ArmQuiet DEF acceptVars
  <2>2. \A i \in DOMAIN events : IsRearm(events[i]) => DueNext(events[i])
    <3>1. SUFFICES ASSUME NEW i \in DOMAIN events, IsRearm(events[i]) PROVE DueNext(events[i])
      OBVIOUS
    <3>2. RearmDue(events[i])
      BY <3>1 DEF Inv, ChannelInv
    <3> QED BY <2>1, <3>2, DueStays
  <2>3. accept.pc = "send" /\ IsRearm(accept.event) => DueNext(accept'.event)
    <3>1. SUFFICES ASSUME accept.pc = "send", IsRearm(accept.event) PROVE DueNext(accept'.event)
      OBVIOUS
    <3>2. RearmDue(accept.event)
      BY <3>1 DEF Inv, ChannelInv
    <3> QED BY <2>1, <3>2, DueStays
  <2> QED BY <2>1, <2>2, <2>3 DEF Inv, ChannelInv, IsRearm, RearmDue, DueNext
<1> QED BY <1>1, AttachChannel, ReplyChannel, AckChannel, SendChannel, TakeChannel, ChannelQuiet DEF AcceptThread

-----------------------------------------------------------------------------
(* The links: what may be delivered to is not older than the claim. *)

\* At a flush the main loop only flushes.
LEMMA FlushPlace ==
    ASSUME Next, pc = "flush"
    PROVE  \/ link' = NoLink
           \/ UNCHANGED <<pc, link>>
<1>1. CASE MainLoop
  BY <1>1 DEF MainLoop, CoverageOver, TakeAttached, TakeRearm, NoEventInTime, Disconnected, Adopt, ReadLink,
     FlushNothing, FlushRefused, FlushDelivery, FlushFails, RevokeLost, RevokeTerminal, PollNoResult,
     PollSessionLost, PollResult, ChildQuiet, ChildTimedOut, ChildFailed, ChildMatched, RestartDrained,
     RestartEmpty, RestartFails, Halted
<1>2. CASE AcceptThread \/ Attaches \/ Acknowledges
  BY <1>2 DEF AcceptThread, Attaches, Acknowledges, PrepareAttach, CommitWrittenAttach, FailToWriteReply,
     SendEvent, AcceptAttach, ServeAck, controlVars
<1>3. CASE Environment
  BY <1>3 DEF Environment, Publish, ChildExits, LeaseElapses, CoverageElapses, ListenerFails, ReceiveDelivery,
     Leave, WaiterDies, controlVars
<1> QED BY <1>1, <1>2, <1>3 DEF Next

\* Only a read of the table brings the main loop to a flush.
LEMMA LinkRead ==
    ASSUME Next
    PROVE  ReadLink \/ link' \in {link, NoLink}
BY LinksQuiet DEF Attaches, AcceptAttach, PrepareAttach, CommitWrittenAttach, TakeAttached, TakeRearm, Adopt, FlushNothing,
   FlushRefused, FlushDelivery, FlushFails, RevokeLost, RevokeTerminal, Halted, controlVars

LEMMA GenerationGrows ==
    ASSUME Inv, Next
    PROVE  generation' \in Nat /\ generation \in Nat /\ generation <= generation'
<1>1. CASE UNCHANGED generation
  BY <1>1 DEF Inv, StoreInv
<1>2. CASE ~UNCHANGED generation
  <2>1. \E cursor \in 1..MaxEvent : HandlesBatch(cursor)
    BY <1>2, StoreMoves DEF ClaimsBatch, DeliversBatch, CompletesBatch
  <2>2. generation' = generation + 1
    BY <2>1 DEF HandlesBatch
  <2> QED BY <2>2 DEF Inv, StoreInv
<1> QED BY <1>1, <1>2

\* A link stays reachable while the main loop keeps its generation.
LEMMA ReachableStays ==
    ASSUME Inv, Next, UNCHANGED arm_generation, NEW l \in Links, Reachable(l)
    PROVE  l = NoLink \/ l.generation \in arm_generation'..generation'
BY GenerationGrows DEF Reachable, Inv, ClaimInv, Links, Gens

LEMMA CurrentStep ==
    ASSUME Inv, Next
    PROVE  current' \in Links /\ Reachable(current)'
<1>1. current \in Links /\ Reachable(current)
  BY DEF Inv, LinksInv
<1>2. CASE TakeRearm
  <2>1. /\ generation = arm_generation + 1 /\ arm_generation' = generation /\ generation' = generation
        /\ current' = IF current # NoLink /\ current.generation < generation THEN NoLink ELSE current
    BY <1>2, RearmStep DEF ackVars
  <2>2. generation \in Nat /\ arm_generation \in Nat
    BY DEF Inv, StoreInv, ClaimInv
  <2> QED BY <1>1, <2>1, <2>2, LinksTyped DEF Reachable, Links, Gens
<1>3. CASE CommitWrittenAttach
  <2>1. /\ UNCHANGED <<generation, arm_generation>>
        /\ \/ current' = current
           \/ /\ current' = AdmittedLink(accept.request, accept.generation)
              /\ accept.decision = "accepted"
    BY <1>3 DEF CommitWrittenAttach, CommitAttach, ackVars, linkVars, coverageVars
  <2>2. accept.pc = "commit"
    BY <1>3 DEF CommitWrittenAttach
  <2>3. /\ accept.request \in Conns /\ accept.generation \in Gens
        /\ accept.decision = "accepted" => accept.generation = generation
    BY <2>2 DEF Inv, AcceptInv, Idle
  <2>4. generation \in arm_generation..generation
    BY DEF Inv, ClaimInv, StoreInv
  <2> QED BY <1>1, <2>1, <2>3, <2>4 DEF AdmittedLink, Reachable, Links
<1>4. CASE ~TakeRearm /\ current' \in {current, NoLink}
  <2>1. UNCHANGED arm_generation
    BY <1>4, ArmQuiet
  <2> QED BY <1>1, <1>4, <2>1, ReachableStays, LinksTyped DEF Reachable
<1>5. ~TakeRearm /\ ~CommitWrittenAttach => current' \in {current, NoLink}
  <2>1. CASE PrepareAttach
    BY <2>1 DEF PrepareAttach, DropExpired
  <2>2. CASE Adopt \/ RevokeLost
    BY <2>2 DEF Adopt, RevokeLost, TransportLoss, DropSession, linkVars
  <2>3. CASE RevokeTerminal \/ Halted
    BY <2>3 DEF RevokeTerminal, Halted, DropSession
  <2>4. CASE \/ Attaches \/ TakeAttached \/ ReadLink \/ FlushNothing \/ FlushRefused \/ FlushDelivery \/ FlushFails
    BY <2>4 DEF Attaches, AcceptAttach, TakeAttached, ReadLink, FlushNothing, FlushRefused, FlushDelivery, FlushFails, linkVars
  <2> QED BY <2>1, <2>2, <2>3, <2>4, LinksQuiet DEF linkVars
<1> QED BY <1>2, <1>3, <1>4, <1>5

LEMMA LinkStep ==
    ASSUME Inv, Next
    PROVE  link' \in Links /\ Reachable(link)' /\ (pc' # "flush" => link' = NoLink)
<1>1. link \in Links /\ Reachable(link) /\ (pc # "flush" => link = NoLink) /\ current \in Links /\ Reachable(current)
  BY DEF Inv, LinksInv
<1>2. CASE link' = NoLink
  BY <1>2, LinksTyped DEF Reachable
<1>3. CASE ReadLink
  BY <1>1, <1>3 DEF ReadLink, Reachable, Goto, ackVars, coverageVars
<1>4. CASE link' # NoLink /\ ~ReadLink
  <2>1. link' = link /\ link # NoLink /\ pc = "flush"
    BY <1>1, <1>4, LinkRead
  <2>2. pc' = "flush"
    BY <1>4, <2>1, FlushPlace
  <2>3. ~TakeRearm
    BY <2>1 DEF TakeRearm
  <2>4. UNCHANGED arm_generation
    BY <2>3, ArmQuiet
  <2> QED BY <1>1, <2>1, <2>2, <2>4, ReachableStays DEF Reachable
<1> QED BY <1>2, <1>3, <1>4

LEMMA WriterStep ==
    ASSUME Inv, Next
    PROVE  /\ served' = NoServed \/ served' \in [conn : Conns, session : Links]
           /\ next' = NoEvent \/ next' \in AttachEvents
<1>1. /\ served = NoServed \/ served \in [conn : Conns, session : Links]
      /\ next = NoEvent \/ next \in AttachEvents
  BY DEF Inv, LinksInv
<1>2. CASE TakeAttached
  <2>1. events \in Seq(AttachEvents \cup RearmEvents) /\ events # <<>> /\ Head(events).type = "attached"
        /\ next' = Head(events) /\ served' = served
    BY <1>2 DEF TakeAttached, Inv, ChannelInv
  <2>2. Head(events) \in AttachEvents \cup RearmEvents
    BY <2>1
  <2>3. Head(events) \in AttachEvents
    BY <2>1, <2>2 DEF RearmEvents
  <2> QED BY <1>1, <2>1, <2>3
<1>3. CASE Adopt
  <2>1. next' = NoEvent
    BY <1>3 DEF Adopt
  <2>2. \/ served' = served
        \/ next.session # NoSession /\ served' = [conn |-> next.conn, session |-> next.session]
    BY <1>3 DEF Adopt
  <2>3. next.session # NoSession => next \in AttachEvents
    BY <1>1 DEF NoEvent
  <2> QED BY <1>1, <2>1, <2>2, <2>3 DEF AttachEvents
<1>4. CASE TakeRearm
  BY <1>1, <1>4, RearmStep
<1>5. CASE RevokeLost \/ RevokeTerminal
  BY <1>1, <1>5 DEF RevokeLost, RevokeTerminal
<1>6. CASE \/ Attaches \/ PrepareAttach \/ CommitWrittenAttach \/ ReadLink \/ FlushNothing \/ FlushRefused
           \/ FlushDelivery \/ FlushFails \/ Halted
  <2>1. served' = served /\ next' = next
    BY <1>6 DEF Attaches, AcceptAttach, PrepareAttach, CommitWrittenAttach, ReadLink, FlushNothing, FlushRefused,
       FlushDelivery, FlushFails, Halted, controlVars
  <2> QED BY <1>1, <2>1
<1> QED BY <1>1, <1>2, <1>3, <1>4, <1>5, <1>6, LinksQuiet

LEMMA RepliesStep ==
    ASSUME Inv, Next
    PROVE  attach_history' \in [Conns -> {"none", "accepted", "rejected"}]
<1>1. attach_history \in [Conns -> {"none", "accepted", "rejected"}]
  BY DEF Inv, LinksInv
<1>2. CASE Attaches
  BY <1>1, <1>2 DEF Attaches, AcceptAttach
<1>3. CASE CommitWrittenAttach
  <2>1. accept.pc = "commit"
    BY <1>3 DEF CommitWrittenAttach
  <2>2. accept.decision \in {"accepted", "rejected", "replay"}
    BY <2>1 DEF Inv, AcceptInv, Idle
  <2>3. \/ attach_history' = attach_history
        \/ accept.decision # "replay" /\ attach_history' = [attach_history EXCEPT ![accept.request] = accept.decision]
    BY <1>3 DEF CommitWrittenAttach, CommitAttach, linkVars
  <2> QED BY <1>1, <2>2, <2>3
<1>4. CASE ~Attaches /\ ~CommitWrittenAttach
  <2>1. attach_history' = attach_history
    BY <1>4, LinksQuiet DEF PrepareAttach, TakeAttached, TakeRearm, Adopt, TransportLoss, ReadLink, FlushNothing, FlushRefused,
       FlushDelivery, FlushFails, RevokeLost, RevokeTerminal, Halted, linkVars
  <2> QED BY <1>1, <2>1
<1> QED BY <1>2, <1>3, <1>4

LEMMA LinksInvStep ==
    ASSUME Inv, Next
    PROVE  LinksInv'
BY CurrentStep, LinkStep, WriterStep, RepliesStep DEF LinksInv

-----------------------------------------------------------------------------
(* The ledger and the frames: one delivery for each claim, sent again as it was. *)

\* The pending delivery as it is, or with another state of its attempt.
Reattempted ==
    \/ pending' = pending
    \/ /\ pending # NoPending
       /\ \E a \in {"Awaiting", "Lost"} \cup TerminalOutcomes : pending' = [pending EXCEPT !.attempt = a]

\* What an attempted delivery must be.
AttemptHolds ==
    attempted =>
        /\ pending.attempt \in {"Awaiting"} \cup TerminalOutcomes
        /\ pending.signal = claim.signal
        /\ signals[claim.signal].delivered = claim.batch

PendingHolds ==
    /\ deliveries \in Nat /\ attempted \in BOOLEAN
    /\ pending = NoPending => deliveries <= arm_generation - 1
    /\ pending # NoPending =>
          /\ claim # NoClaim
          /\ pending \in Pendings
          /\ pending.signal = arm_generation /\ pending.generation = arm_generation
          /\ pending.batch = claim.batch
          /\ deliveries <= arm_generation

SentHolds ==
    \A m \in sent :
        /\ m.signal \in Nat /\ m.signal <= arm_generation
        /\ m.signal = arm_generation => pending # NoPending /\ m = Sent(pending)

NotesHold ==
    \A s \in DOMAIN signals :
        signals[s].delivered # NoBatch => \E m \in sent : m.signal = s /\ m.batch = signals[s].delivered

LEMMA DeliveryParts ==
    DeliveryInv <=> PendingHolds /\ SentHolds /\ StableDelivery /\ NotesHold /\ AttemptHolds
BY DEF DeliveryInv, PendingHolds, SentHolds, NotesHold, AttemptHolds, DeliverySound, DeliveredWasSent

\* A lost writer and a result only change the state of the attempt.
LEMMA AttemptStep ==
    ASSUME Inv, Adopt \/ RevokeLost \/ PollResult
    PROVE  /\ UNCHANGED <<deliveries, sent, claim, arm_generation, after>>
           /\ Reattempted
           /\ \/ attempted' = FALSE
              \/ /\ attempted' = attempted
                 /\ \/ pending' = pending
                    \/ pending' # NoPending /\ pending'.attempt \in TerminalOutcomes
<1>1. UNCHANGED <<deliveries, sent, claim, arm_generation, after>>
  BY DEF Adopt, RevokeLost, PollResult, TransportLoss, pipeVars, waiterVars, coverageVars
<1>2. CASE Adopt \/ RevokeLost
  <2>1. \/ pending' = pending /\ attempted' = attempted
        \/ pending' = AfterLoss(pending, attempted) /\ attempted' = FALSE
    BY <1>2 DEF Adopt, RevokeLost, TransportLoss, pipeVars
  <2>2. AfterLoss(pending, attempted) = pending \/ AfterLoss(pending, attempted) = [pending EXCEPT !.attempt = "Lost"]
    BY DEF AfterLoss
  <2>3. AfterLoss(pending, attempted) # pending => pending # NoPending
    BY DEF AfterLoss, NoPending
  <2> QED BY <1>1, <2>1, <2>2, <2>3 DEF Reattempted
<1>3. CASE PollResult
  <2> DEFINE result == waiters[served.conn].result
  <2>1. served.conn \in Conns /\ result # NoResult
    BY <1>3 DEF PollResult, Inv, LinksInv, NoServed
  <2>2. result \in Results
    BY <2>1 DEF Inv, PrintedInv, Waiters
  <2> HIDE DEF result
  <2>3. /\ pending' = IF RecordOkFor(pending, result) THEN AfterResult(pending, result) ELSE pending
        /\ IF RecordOkFor(pending, result) /\ result.outcome \in TerminalOutcomes
           THEN attempted' = attempted ELSE attempted' = FALSE
    BY <1>3 DEF PollResult, result
  <2>4. result.outcome \in TerminalOutcomes /\ result.outcome # "link_lost"
    BY <2>2 DEF Results, TerminalOutcomes
  <2>5. CASE ~RecordOkFor(pending, result)
    BY <1>1, <2>3, <2>5 DEF Reattempted
  <2>6. CASE RecordOkFor(pending, result)
    <3>1. pending # NoPending /\ pending \in Pendings /\ attempted' = attempted
      BY <2>3, <2>4, <2>6 DEF RecordOkFor, Inv, DeliveryInv
    <3>2. CASE pending.attempt # "Awaiting"
      BY <1>1, <2>3, <2>6, <3>1, <3>2 DEF AfterResult, Reattempted
    <3>3. CASE pending.attempt = "Awaiting"
      <4>1. pending' = [pending EXCEPT !.attempt = result.outcome]
        BY <2>3, <2>4, <2>6, <3>3 DEF AfterResult
      <4>2. pending'.attempt = result.outcome
        BY <3>1, <4>1 DEF Pendings
      <4>3. pending' # NoPending
        BY <2>4, <4>2 DEF NoPending, TerminalOutcomes
      <4> QED BY <1>1, <2>4, <3>1, <4>1, <4>2, <4>3 DEF Reattempted
    <3> QED BY <3>2, <3>3
  <2> QED BY <2>5, <2>6
<1> QED BY <1>2, <1>3

LEMMA ReattemptKeeps ==
    ASSUME PendingHolds, Reattempted
    PROVE  /\ pending' = NoPending <=> pending = NoPending
           /\ pending # NoPending => /\ pending' \in Pendings /\ Sent(pending') = Sent(pending)
                                     /\ pending'.signal = pending.signal /\ pending'.generation = pending.generation
                                     /\ pending'.batch = pending.batch
<1>1. CASE pending' = pending
  BY <1>1 DEF PendingHolds
<1>2. CASE pending # NoPending /\ pending' # pending
  <2>1. PICK a \in {"Awaiting", "Lost"} \cup TerminalOutcomes : pending' = [pending EXCEPT !.attempt = a]
    BY <1>2 DEF Reattempted
  <2>2. pending \in Pendings
    BY <1>2 DEF PendingHolds
  <2>3. pending' \in Pendings
    BY <2>1, <2>2 DEF Pendings
  <2>4. pending' # NoPending
    BY <2>1, <2>2, <2>3 DEF Pendings, NoPending, TerminalOutcomes
  <2> QED BY <1>2, <2>1, <2>2, <2>3, <2>4 DEF Pendings, Sent
<1> QED BY <1>1, <1>2 DEF Reattempted

\* The delivery of a claim is bound to a link of the same generation.
LEMMA ClaimedDelivery ==
    ASSUME Inv, ChildMatched \/ RestartDrained
    PROVE  /\ UNCHANGED <<arm_generation, sent>>
           /\ \/ UNCHANGED <<pipeVars, claim>>
              \/ /\ pending = NoPending /\ claim' # NoClaim
                 /\ \/ UNCHANGED pipeVars
                    \/ /\ attempted' = FALSE /\ deliveries' = deliveries + 1
                       /\ pending' \in Pendings /\ pending' # NoPending
                       /\ pending'.signal = arm_generation /\ pending'.generation = arm_generation
                       /\ pending'.batch = claim'.batch
<1>1. UNCHANGED <<arm_generation, sent>>
  BY DrainStep DEF Inv
<1>2. SUFFICES ASSUME ~UNCHANGED <<pipeVars, claim>>
               PROVE  /\ pending = NoPending /\ claim' # NoClaim
                      /\ \/ UNCHANGED pipeVars
                         \/ /\ attempted' = FALSE /\ deliveries' = deliveries + 1
                            /\ pending' \in Pendings /\ pending' # NoPending
                            /\ pending'.signal = arm_generation /\ pending'.generation = arm_generation
                            /\ pending'.batch = claim'.batch
  BY <1>1
<1>3. /\ pending = NoPending /\ claim' = NewClaim /\ generation = arm_generation /\ NewClaim.batch \in Batches
      /\ \/ UNCHANGED pipeVars
         \/ /\ current # NoLink /\ attempted' = FALSE
            /\ pending' = Prepared(deliveries + 1, current, arm_generation, <<after, published>>)
            /\ deliveries' = deliveries + 1
  BY <1>2, DrainStep DEF Inv
<1>4. arm_generation \in Gens /\ arm_generation \in Nat \ {0}
  BY <1>3, GenerationBound DEF Inv, StoreInv
<1>5. NewClaim # NoClaim
  BY <1>4 DEF NewClaim, NoClaim
<1>6. ASSUME current # NoLink, pending' = Prepared(deliveries + 1, current, arm_generation, <<after, published>>)
      PROVE  /\ pending' \in Pendings /\ pending' # NoPending
             /\ pending'.signal = arm_generation /\ pending'.generation = arm_generation
             /\ pending'.batch = claim'.batch
  <2>1. current \in [link : Conns, generation : Gens] /\ current.generation = arm_generation
    BY <1>3, <1>4, <1>6, LinksTyped DEF Inv, LinksInv, Reachable
  <2>2. deliveries + 1 \in Nat /\ <<after, published>> \in Batches
    BY <1>3 DEF Inv, DeliveryInv, NewClaim
  <2>3. pending'.attempt = "Awaiting"
    BY <1>6 DEF Prepared
  <2> QED BY <1>3, <1>4, <1>6, <2>1, <2>2, <2>3 DEF Prepared, Pendings, NewClaim, NoPending
<1> QED BY <1>3, <1>5, <1>6

LEMMA PendingStep ==
    ASSUME Inv, Next
    PROVE  PendingHolds'
<1>1. PendingHolds /\ arm_generation \in Nat \ {0}
  BY DeliveryParts DEF Inv, ClaimInv
<1>2. CASE TakeRearm
  <2>1. /\ generation = arm_generation + 1 /\ arm_generation' = generation /\ pending' = NoPending
        /\ attempted' = FALSE /\ deliveries' = deliveries
    BY <1>2, RearmStep
  <2>2. pending # NoPending
    BY <2>1, AheadIsPending DEF Inv
  <2>3. deliveries' \in Nat /\ deliveries' <= arm_generation' - 1
    BY <1>1, <2>1, <2>2 DEF PendingHolds
  <2>4. attempted' \in BOOLEAN
    BY <2>1
  <2> QED BY <2>1, <2>3, <2>4 DEF PendingHolds
<1>3. CASE ChildMatched \/ RestartDrained
  <2>1. UNCHANGED arm_generation
    BY <1>3, ClaimedDelivery
  <2>2. CASE UNCHANGED <<pipeVars, claim>>
    BY <1>1, <2>1, <2>2 DEF PendingHolds, pipeVars
  <2>3. CASE pending = NoPending /\ claim' # NoClaim /\ UNCHANGED pipeVars
    BY <1>1, <2>1, <2>3 DEF PendingHolds, pipeVars
  <2>4. CASE /\ pending = NoPending /\ claim' # NoClaim
             /\ attempted' = FALSE /\ deliveries' = deliveries + 1
             /\ pending' \in Pendings /\ pending' # NoPending
             /\ pending'.signal = arm_generation /\ pending'.generation = arm_generation
             /\ pending'.batch = claim'.batch
    <3>1. deliveries' \in Nat /\ deliveries' <= arm_generation'
      BY <1>1, <2>1, <2>4 DEF PendingHolds
    <3>2. attempted' \in BOOLEAN
      BY <2>4
    <3> QED BY <2>1, <2>4, <3>1, <3>2 DEF PendingHolds
  <2> QED BY <1>3, <2>2, <2>3, <2>4, ClaimedDelivery
<1>4. CASE FlushDelivery \/ FlushFails
  <2>1. /\ claim # NoClaim /\ link # NoLink /\ ~IsTerminal(pending) /\ DeliveryOk(link) /\ TakeDelivery(claim, link)
        /\ UNCHANGED <<claim, arm_generation>> /\ attempted' \in {attempted, TRUE, FALSE}
    BY <1>4 DEF FlushDelivery, FlushFails, Flushing, coverageVars
  <2>2. pending' # NoPending
    BY <2>1, TakeStep DEF Inv, NoPending
  <2> QED BY <1>1, <2>1, <2>2, TakeStep DEF Inv, PendingHolds
<1>5. CASE Adopt \/ RevokeLost \/ PollResult
  <2>1. UNCHANGED <<deliveries, claim, arm_generation>> /\ attempted' \in {attempted, FALSE} /\ Reattempted
    BY <1>5, AttemptStep
  <2> QED BY <1>1, <2>1, ReattemptKeeps DEF PendingHolds
<1>6. CASE UNCHANGED pipeVars /\ ~TakeRearm /\ ~(ChildMatched \/ RestartDrained)
  <2>1. UNCHANGED coverageVars
    BY <1>6, CoverageQuiet
  <2> QED BY <1>1, <1>6, <2>1 DEF PendingHolds, pipeVars, coverageVars
<1> QED BY <1>2, <1>3, <1>4, <1>5, <1>6, DeliveryQuiet

\* Within a generation the frames stay those of the pending delivery.
LEMMA SentStep ==
    ASSUME Inv, Next
    PROVE  SentHolds' /\ StableDelivery' /\ sent \subseteq sent'
<1>1. PendingHolds /\ SentHolds /\ StableDelivery /\ arm_generation \in Nat \ {0}
  BY DeliveryParts DEF Inv, ClaimInv
<1>2. CASE TakeRearm
  <2>1. generation = arm_generation + 1 /\ arm_generation' = generation /\ sent' = sent
    BY <1>2, RearmStep
  <2> QED BY <1>1, <2>1 DEF SentHolds, StableDelivery
<1>3. CASE FlushDelivery
  <2>1. /\ claim # NoClaim /\ link # NoLink /\ ~IsTerminal(pending) /\ DeliveryOk(link) /\ TakeDelivery(claim, link)
        /\ UNCHANGED arm_generation
    BY <1>3 DEF FlushDelivery, Flushing, coverageVars
  <2>2. /\ pending'.signal = arm_generation /\ pending'.attempt = "Awaiting"
        /\ pending # NoPending => Sent(pending') = Sent(pending)
    BY <2>1, TakeStep DEF Inv
  <2>3. pending' # NoPending
    BY <2>2 DEF NoPending
  <2>4. sent' = sent \/ sent' = sent \cup {Sent(pending')}
    BY <1>3 DEF FlushDelivery, Sent
  <2>5. \A m \in sent : m.signal = arm_generation => m = Sent(pending')
    BY <1>1, <2>2 DEF SentHolds
  <2>6. Sent(pending').signal = arm_generation
    BY <2>2 DEF Sent
  <2> QED BY <1>1, <2>1, <2>3, <2>4, <2>5, <2>6 DEF SentHolds, StableDelivery
<1>4. CASE FlushFails
  <2>1. /\ claim # NoClaim /\ link # NoLink /\ ~IsTerminal(pending) /\ DeliveryOk(link) /\ TakeDelivery(claim, link)
        /\ UNCHANGED <<arm_generation, sent>>
    BY <1>4 DEF FlushFails, Flushing, coverageVars, waiterVars
  <2>2. /\ pending'.attempt = "Awaiting"
        /\ pending # NoPending => Sent(pending') = Sent(pending)
    BY <2>1, TakeStep DEF Inv
  <2>3. pending' # NoPending
    BY <2>2 DEF NoPending
  <2> QED BY <1>1, <2>1, <2>2, <2>3 DEF SentHolds, StableDelivery
<1>5. CASE Adopt \/ RevokeLost \/ PollResult
  <2>1. UNCHANGED <<sent, arm_generation>> /\ Reattempted
    BY <1>5, AttemptStep
  <2> QED BY <1>1, <2>1, ReattemptKeeps DEF SentHolds, StableDelivery
<1>6. CASE ChildMatched \/ RestartDrained
  <2>1. UNCHANGED <<sent, arm_generation>> /\ (pending' = pending \/ pending = NoPending)
    BY <1>6, ClaimedDelivery DEF pipeVars
  <2> QED BY <1>1, <2>1 DEF SentHolds, StableDelivery
<1>7. CASE UNCHANGED <<pipeVars, sent>> /\ ~TakeRearm
  <2>1. UNCHANGED arm_generation
    BY <1>7, ArmQuiet
  <2> QED BY <1>1, <1>7, <2>1 DEF SentHolds, StableDelivery, pipeVars
<1> QED BY <1>2, <1>3, <1>4, <1>5, <1>6, <1>7, DeliveryQuiet

LEMMA NotesStep ==
    ASSUME Inv, Next
    PROVE  NotesHold'
<1>1. SUFFICES ASSUME NEW s \in DOMAIN signals', signals'[s].delivered # NoBatch
               PROVE  \E m \in sent' : m.signal = s /\ m.batch = signals'[s].delivered
  BY DEF NotesHold
<1>2. NotesHold /\ sent \subseteq sent' /\ StoreInv
  BY SentStep, DeliveryParts DEF Inv
<1>3. CASE s \in DOMAIN signals /\ signals'[s].delivered = signals[s].delivered
  BY <1>1, <1>2, <1>3 DEF NotesHold
<1>4. CASE UNCHANGED signals
  BY <1>3, <1>4
<1>5. CASE ClaimsBatch
  <2>1. PICK hold \in BOOLEAN : signals' = Append(signals, NewSignal(NoBatch, hold))
    BY <1>5 DEF ClaimsBatch
  <2>2. (s \in DOMAIN signals /\ signals'[s] = signals[s]) \/ signals'[s] = NewSignal(NoBatch, hold)
    BY <1>2, <2>1 DEF StoreInv
  <2> QED BY <1>1, <1>3, <2>2 DEF NewSignal
<1>6. CASE DeliversBatch
  <2>1. s \in DOMAIN signals /\ signals[generation] \in SignalRecords /\ generation \in DOMAIN signals
    BY <1>2, <1>6 DEF DeliversBatch, Rewritten, StoreInv
  <2>2. CASE s = generation
    <3>1. signals'[s].delivered = claim.batch
      BY <1>6, <2>1, <2>2 DEF DeliversBatch, Rewritten, Batch, SignalRecords
    <3> QED BY <1>6, <2>2, <3>1 DEF DeliversBatch
  <2>3. CASE s # generation
    BY <1>3, <1>6, <2>1, <2>3 DEF DeliversBatch, Rewritten
  <2> QED BY <2>2, <2>3
<1>7. CASE CompletesBatch
  <2>1. PICK i \in DOMAIN signals : Rewritten(i, [signals[i] EXCEPT !.completed = TRUE])
    BY <1>7 DEF CompletesBatch
  <2>2. s \in DOMAIN signals /\ signals[i] \in SignalRecords
    BY <1>2, <2>1 DEF Rewritten, StoreInv
  <2>3. signals'[s].delivered = signals[s].delivered
    BY <2>1, <2>2 DEF Rewritten, SignalRecords
  <2> QED BY <1>3, <2>2, <2>3
<1>8. CASE \E cursor \in 1..MaxEvent : HandlesBatch(cursor)
  <2>1. PICK cursor \in 1..MaxEvent : HandlesBatch(cursor)
    BY <1>8
  <2>2. s \in DOMAIN signals /\ signals[generation] \in SignalRecords /\ generation \in DOMAIN signals
    BY <1>2, <2>1 DEF HandlesBatch, Rewritten, StoreInv
  <2>3. signals'[s].delivered = signals[s].delivered
    BY <2>1, <2>2 DEF HandlesBatch, Rewritten, Batch, SignalRecords
  <2> QED BY <1>3, <2>2, <2>3
<1> QED BY <1>4, <1>5, <1>6, <1>7, <1>8, StoreMoves

\* The noted batch is the claimed one while it counts as attempted.
LEMMA AttemptHoldsStep ==
    ASSUME Inv, Next
    PROVE  AttemptHolds'
<1>1. SUFFICES ASSUME attempted'
               PROVE  /\ pending'.attempt \in {"Awaiting"} \cup TerminalOutcomes
                      /\ pending'.signal = claim'.signal
                      /\ signals'[claim'.signal].delivered = claim'.batch
  BY DEF AttemptHolds
<1>2. PendingHolds /\ AttemptHolds
  BY DeliveryParts DEF Inv
<1>3. attempted => /\ claim # NoClaim /\ claim.signal = arm_generation /\ claim.signal \in DOMAIN signals
                   /\ pending # NoPending
                   /\ signals[claim.signal].delivered = claim.batch /\ claim.batch # NoBatch
  <2>1. SUFFICES ASSUME attempted
                 PROVE  /\ claim # NoClaim /\ claim.signal = arm_generation /\ claim.signal \in DOMAIN signals
                        /\ pending # NoPending
                        /\ signals[claim.signal].delivered = claim.batch /\ claim.batch # NoBatch
    OBVIOUS
  <2>2. pending # NoPending
    BY <1>2, <2>1 DEF AttemptHolds, NoPending, TerminalOutcomes
  <2>3. claim # NoClaim
    BY <1>2, <2>2 DEF PendingHolds
  <2>4. claim.signal = arm_generation /\ claim.batch \in Batches /\ arm_generation \in DOMAIN signals
    BY <2>3 DEF Inv, ClaimInv, StoreInv
  <2>5. claim.batch # NoBatch
    BY <2>4 DEF Batches, NoBatch
  <2> QED BY <1>2, <2>1, <2>2, <2>3, <2>4, <2>5 DEF AttemptHolds
<1>4. attempted => signals'[claim.signal].delivered = claim.batch
  BY <1>3, SignalsKeep
<1>5. CASE TakeRearm
  BY <1>1, <1>5, RearmStep
<1>6. CASE ChildMatched \/ RestartDrained
  <2>1. UNCHANGED <<pipeVars, claim>>
    BY <1>1, <1>2, <1>3, <1>6, ClaimedDelivery DEF pipeVars
  <2> QED BY <1>1, <1>2, <1>4, <2>1 DEF AttemptHolds, pipeVars
<1>7. CASE Adopt \/ RevokeLost \/ PollResult
  <2>1. /\ claim' = claim /\ attempted' = attempted /\ Reattempted
        /\ pending' = pending \/ pending'.attempt \in TerminalOutcomes
    BY <1>1, <1>7, AttemptStep
  <2> QED BY <1>1, <1>2, <1>3, <1>4, <2>1, ReattemptKeeps DEF AttemptHolds
<1>8. CASE FlushFails
  BY <1>1, <1>8 DEF FlushFails
<1>9. CASE FlushDelivery
  <2>1. /\ claim # NoClaim /\ link # NoLink /\ ~IsTerminal(pending) /\ DeliveryOk(link) /\ TakeDelivery(claim, link)
        /\ UNCHANGED claim
    BY <1>9 DEF FlushDelivery, Flushing, coverageVars
  <2>2. pending'.attempt = "Awaiting" /\ pending'.signal = arm_generation /\ pending'.batch = claim.batch
    BY <2>1, TakeStep DEF Inv
  <2>3. claim.signal = arm_generation /\ arm_generation \in DOMAIN signals /\ signals[arm_generation] \in SignalRecords
    BY <2>1 DEF Inv, ClaimInv, StoreInv
  <2>4. CASE attempted
    BY <1>4, <2>1, <2>2, <2>3, <2>4
  <2>5. CASE ~attempted
    <3>1. NoteDelivered(claim.signal, pending'.batch)
      BY <1>1, <1>9, <2>5 DEF FlushDelivery
    <3>2. signals' = [signals EXCEPT ![arm_generation].delivered = claim.batch]
      BY <2>2, <2>3, <3>1 DEF NoteDelivered
    <3>3. signals'[arm_generation].delivered = claim.batch
      BY <2>3, <3>2 DEF SignalRecords
    <3> QED BY <2>1, <2>2, <2>3, <3>3
  <2> QED BY <2>4, <2>5
<1>10. CASE UNCHANGED pipeVars /\ ~TakeRearm /\ ~(ChildMatched \/ RestartDrained)
  <2>1. UNCHANGED claim
    BY <1>10, CoverageQuiet DEF coverageVars
  <2> QED BY <1>1, <1>2, <1>4, <1>10, <2>1 DEF AttemptHolds, pipeVars
<1> QED BY <1>5, <1>6, <1>7, <1>8, <1>9, <1>10, DeliveryQuiet

LEMMA DeliveryInvStep ==
    ASSUME Inv, Next
    PROVE  DeliveryInv'
<1>1. DeliveryInv' <=> PendingHolds' /\ SentHolds' /\ StableDelivery' /\ NotesHold' /\ AttemptHolds'
  BY DEF DeliveryInv, PendingHolds, SentHolds, NotesHold, AttemptHolds, DeliverySound, DeliveredWasSent
<1> QED BY <1>1, PendingStep, SentStep, NotesStep, AttemptHoldsStep

-----------------------------------------------------------------------------
(* The waiters: what is recorded as completed was printed. *)

LEMMA WaiterUpdates ==
    ASSUME NEW w \in Waiters
    PROVE  /\ \A m \in Messages : [w EXCEPT !.inbox = m] \in Waiters /\ [w EXCEPT !.inbox = m].result = w.result
           /\ [w EXCEPT !.state = "gone"] \in Waiters /\ [w EXCEPT !.state = "gone"].result = w.result
           /\ [w EXCEPT !.result = NoResult] \in Waiters /\ [w EXCEPT !.result = NoResult].result = NoResult
           /\ [w EXCEPT !.state = "gone", !.inbox = NoMessage] \in Waiters
           /\ [w EXCEPT !.state = "gone", !.inbox = NoMessage].result = w.result
           /\ \A r \in Results : /\ [w EXCEPT !.state = "gone", !.inbox = NoMessage, !.result = r] \in Waiters
                                 /\ [w EXCEPT !.state = "gone", !.inbox = NoMessage, !.result = r].result = r
BY DEF Waiters

\* The waiter of one connection is replaced, by one whose answer is not of an unprinted batch.
Replaces(c, w) ==
    /\ waiters' = [waiters EXCEPT ![c] = w]
    /\ w \in Waiters
    /\ w.result.outcome = "return_completed" => w.result.signal \in printed'

LEMMA WaitersStep ==
    ASSUME Inv, Next
    PROVE  \/ UNCHANGED waiters
           \/ \E c \in Conns : \E w \in Waiters : Replaces(c, w)
<1>1. /\ waiters \in [Conns -> Waiters] /\ printed \subseteq printed'
      /\ \A c \in Conns : waiters[c].result.outcome = "return_completed" => waiters[c].result.signal \in printed
  BY PrintedGrows DEF Inv, PrintedInv
<1>2. NoMessage.delivery = 0 /\ NoResult.outcome = "none" /\ NoResult \notin Results
  BY DEF NoMessage, NoResult, Results, TerminalOutcomes
<1>3. ASSUME NEW c \in Conns, ReceiveDelivery(c)
      PROVE  \E w \in Waiters : Replaces(c, w)
  <2>1. waiters[c].inbox \in Messages
    BY <1>1, <1>3 DEF ReceiveDelivery, Waiters
  <2>2. CASE WaiterGone(c)
    <3> DEFINE w == [waiters[c] EXCEPT !.state = "gone", !.inbox = NoMessage]
    <3>1. waiters' = [waiters EXCEPT ![c] = w]
      BY <1>1, <2>2 DEF WaiterGone
    <3>2. w \in Waiters /\ w.result = waiters[c].result
      BY <1>1, WaiterUpdates
    <3> QED BY <1>1, <3>1, <3>2 DEF Replaces
  <2>3. ASSUME NEW outcome \in TerminalOutcomes, WaiterAnswers(c, outcome),
               outcome = "return_completed" => waiters[c].inbox.signal \in printed'
        PROVE  \E w \in Waiters : Replaces(c, w)
    <3> DEFINE r == ResultOf(waiters[c].inbox, outcome)
               w == [waiters[c] EXCEPT !.state = "gone", !.inbox = NoMessage, !.result = r]
    <3>1. r \in Results /\ r.signal = waiters[c].inbox.signal /\ r.outcome = outcome
      BY <2>1 DEF ResultOf, Messages, Results
    <3>2. waiters' = [waiters EXCEPT ![c] = w]
      BY <1>1, <2>3 DEF WaiterAnswers
    <3> HIDE DEF r
    <3>3. w \in Waiters /\ w.result = r
      BY <1>1, <3>1, WaiterUpdates
    <3> QED BY <2>3, <3>1, <3>2, <3>3 DEF Replaces
  <2>4. \/ WaiterGone(c)
        \/ WaiterAnswers(c, "return_completed") /\ waiters[c].inbox.signal \in printed'
        \/ WaiterAnswers(c, "return_failed")
    BY <1>3 DEF ReceiveDelivery
  <2>5. "return_completed" \in TerminalOutcomes /\ "return_failed" \in TerminalOutcomes
    BY DEF TerminalOutcomes
  <2> QED BY <2>2, <2>3, <2>4, <2>5
<1>4. ASSUME NEW c \in Conns, Leave(c) \/ WaiterDies(c)
      PROVE  \E w \in Waiters : Replaces(c, w)
  <2> DEFINE w == [waiters[c] EXCEPT !.state = "gone", !.inbox = NoMessage]
  <2>1. waiters' = [waiters EXCEPT ![c] = w]
    BY <1>1, <1>4 DEF Leave, WaiterDies, WaiterGone
  <2>2. w \in Waiters /\ w.result = waiters[c].result
    BY <1>1, WaiterUpdates
  <2> QED BY <1>1, <2>1, <2>2 DEF Replaces
<1>5. CASE Attaches
  <2>1. PICK c \in Conns, r \in Conns, gen \in Gens : AcceptAttach(c, r, gen)
    BY <1>5 DEF Attaches
  <2> DEFINE w == [AbsentWaiter EXCEPT !.state = "waiting", !.request = r, !.generation = gen]
  <2>2. w \in Waiters /\ w.result = NoResult
    BY DEF AbsentWaiter, Waiters
  <2>3. waiters' = [waiters EXCEPT ![c] = w]
    BY <2>1 DEF AcceptAttach
  <2> QED BY <1>2, <2>2, <2>3 DEF Replaces
<1>6. CASE CommitWrittenAttach \/ FailToWriteReply
  <2>1. accept.pc = "commit" /\ (UNCHANGED waiters \/ waiters' = [waiters EXCEPT ![accept.conn].state = "gone"])
    BY <1>6 DEF CommitWrittenAttach, FailToWriteReply
  <2>2. accept.conn \in Conns
    BY <2>1 DEF Inv, AcceptInv, Idle
  <2> DEFINE w == [waiters[accept.conn] EXCEPT !.state = "gone"]
  <2>3. w \in Waiters /\ w.result = waiters[accept.conn].result
    BY <1>1, <2>2, WaiterUpdates
  <2>4. UNCHANGED waiters \/ waiters' = [waiters EXCEPT ![accept.conn] = w]
    BY <1>1, <2>1, <2>2
  <2> HIDE DEF w
  <2>5. ASSUME waiters' = [waiters EXCEPT ![accept.conn] = w]
        PROVE  Replaces(accept.conn, w)
    BY <1>1, <2>2, <2>3, <2>5 DEF Replaces
  <2> QED BY <2>2, <2>3, <2>4, <2>5
<1>7. CASE FlushDelivery
  <2>1. /\ claim # NoClaim /\ link # NoLink /\ ~IsTerminal(pending) /\ DeliveryOk(link) /\ TakeDelivery(claim, link)
        /\ UNCHANGED waiters \/ waiters' = [waiters EXCEPT ![served.conn].inbox = Message(pending')]
        /\ served # NoServed
    BY <1>7 DEF FlushDelivery, Flushing
  <2>2. pending' \in Pendings
    BY <2>1, TakeStep DEF Inv
  <2>3. Message(pending') \in Messages
    BY <2>2 DEF Message, Messages, Pendings
  <2>4. served.conn \in Conns
    BY <2>1 DEF Inv, LinksInv
  <2> DEFINE m == Message(pending')
             w == [waiters[served.conn] EXCEPT !.inbox = m]
  <2>5. UNCHANGED waiters \/ waiters' = [waiters EXCEPT ![served.conn] = w]
    BY <2>1
  <2> HIDE DEF m
  <2>6. m \in Messages
    BY <2>3 DEF m
  <2>7. w \in Waiters /\ w.result = waiters[served.conn].result
    <3>1. waiters[served.conn] \in Waiters
      BY <1>1, <2>4
    <3> QED BY <2>6, <3>1, WaiterUpdates
  <2> HIDE DEF w
  <2>8. ASSUME waiters' = [waiters EXCEPT ![served.conn] = w]
        PROVE  Replaces(served.conn, w)
    BY <1>1, <2>4, <2>7, <2>8 DEF Replaces
  <2> QED BY <2>4, <2>5, <2>7, <2>8
<1>8. CASE PollResult
  <2>1. served.conn \in Conns /\ waiters' = [waiters EXCEPT ![served.conn].result = NoResult]
    BY <1>8 DEF PollResult, Inv, LinksInv, NoServed
  <2> DEFINE w == [waiters[served.conn] EXCEPT !.result = NoResult]
  <2>2. w \in Waiters /\ w.result = NoResult
    BY <1>1, <2>1, WaiterUpdates
  <2> QED BY <1>2, <2>1, <2>2 DEF Replaces
<1> QED BY <1>3, <1>4, <1>5, <1>6, <1>7, <1>8, WaitersQuiet

LEMMA ReceiptStep ==
    ASSUME Inv, Next
    PROVE  ReceiptTruthful'
<1>1. printed \subseteq printed' /\ ReceiptTruthful /\ StoreInv
  BY PrintedGrows DEF Inv, PrintedInv
<1>2. pending'.attempt = "return_completed" => pending'.signal \in printed'
  <2>1. SUFFICES ASSUME pending'.attempt = "return_completed" PROVE pending'.signal \in printed'
    OBVIOUS
  <2>2. CASE pending' = pending
    BY <1>1, <2>1, <2>2 DEF ReceiptTruthful
  <2>3. CASE TakeRearm
    BY <2>1, <2>3, RearmStep DEF NoPending
  <2>4. CASE Adopt \/ RevokeLost
    <3>1. pending' = pending \/ pending' = AfterLoss(pending, attempted)
      BY <2>4 DEF Adopt, RevokeLost, TransportLoss, pipeVars
    <3>2. SUFFICES ASSUME pending.attempt = "Awaiting", pending' = [pending EXCEPT !.attempt = "Lost"]
                   PROVE  pending'.signal \in printed'
      BY <2>2, <3>1 DEF AfterLoss
    <3>3. pending \in Pendings
      BY <3>2 DEF Inv, DeliveryInv, NoPending
    <3>4. pending'.attempt = "Lost"
      BY <3>2, <3>3 DEF Pendings
    <3> QED BY <2>1, <3>4
  <2>5. CASE FlushDelivery \/ FlushFails
    <3>1. claim # NoClaim /\ link # NoLink /\ ~IsTerminal(pending) /\ DeliveryOk(link) /\ TakeDelivery(claim, link)
      BY <2>5 DEF FlushDelivery, FlushFails, Flushing
    <3> QED BY <2>1, <3>1, TakeStep DEF Inv
  <2>6. CASE ChildMatched \/ RestartDrained
    <3>1. pending' = pending \/ pending'.attempt = "Awaiting"
      <4>1. \/ UNCHANGED pipeVars
            \/ pending' = Prepared(deliveries + 1, current, arm_generation, <<after, published>>)
        BY <2>6, DrainStep DEF Inv
      <4>2. Prepared(deliveries + 1, current, arm_generation, <<after, published>>).attempt = "Awaiting"
        BY DEF Prepared
      <4> QED BY <4>1, <4>2 DEF pipeVars
    <3> QED BY <2>1, <2>2, <3>1
  <2>7. CASE PollResult
    <3> DEFINE result == waiters[served.conn].result
    <3>1. served.conn \in Conns
      BY <2>7 DEF PollResult, Inv, LinksInv, NoServed
    <3>2. result.outcome = "return_completed" => result.signal \in printed
      BY <3>1 DEF Inv, PrintedInv
    <3> HIDE DEF result
    <3>3. SUFFICES ASSUME pending' # pending PROVE pending'.signal \in printed'
      BY <2>2
    <3>4. RecordOkFor(pending, result) /\ pending' = AfterResult(pending, result) /\ pending.attempt = "Awaiting"
      BY <2>7, <3>3 DEF PollResult, AfterResult, result
    <3>5. pending # NoPending /\ pending.signal = result.signal /\ pending \in Pendings
      BY <3>4 DEF RecordOkFor, Inv, DeliveryInv
    <3>6. pending'.attempt = (IF result.outcome = "link_lost" THEN "Lost" ELSE result.outcome)
          /\ pending'.signal = pending.signal
      BY <3>4, <3>5 DEF AfterResult, Pendings
    <3> QED BY <1>1, <2>1, <3>2, <3>5, <3>6
  <2>8. CASE UNCHANGED <<pipeVars, sent>>
    BY <2>2, <2>8 DEF pipeVars
  <2> QED BY <2>3, <2>4, <2>5, <2>6, <2>7, <2>8, DeliveryQuiet
<1>3. ASSUME NEW s \in DOMAIN signals', signals'[s].completed \/ (signals'[s].hold /\ signals'[s].handled # 0)
      PROVE  s \in printed'
  <2>1. CASE s \in DOMAIN signals /\ signals'[s].completed = signals[s].completed
             /\ signals'[s].hold = signals[s].hold /\ signals'[s].handled = signals[s].handled
    BY <1>1, <1>3, <2>1 DEF ReceiptTruthful
  <2>2. CASE UNCHANGED signals
    BY <1>3, <2>1, <2>2
  <2>3. CASE ClaimsBatch
    <3>1. PICK hold \in BOOLEAN : signals' = Append(signals, NewSignal(NoBatch, hold))
      BY <2>3 DEF ClaimsBatch
    <3>2. (s \in DOMAIN signals /\ signals'[s] = signals[s]) \/ signals'[s] = NewSignal(NoBatch, hold)
      BY <1>1, <1>3, <3>1 DEF StoreInv
    <3> QED BY <1>3, <2>1, <3>2 DEF NewSignal
  <2>4. CASE DeliversBatch
    <3>1. s \in DOMAIN signals /\ Batch \in SignalRecords /\ generation \in DOMAIN signals
      BY <1>1, <1>3, <2>4 DEF DeliversBatch, Rewritten, StoreInv, Batch
    <3>2. /\ signals'[s].completed = signals[s].completed
          /\ signals'[s].hold = signals[s].hold /\ signals'[s].handled = signals[s].handled
      BY <2>4, <3>1 DEF DeliversBatch, Rewritten, Batch, SignalRecords
    <3> QED BY <2>1, <3>1, <3>2
  <2>5. CASE CompletesBatch
    <3>1. PICK i \in DOMAIN signals : i \in printed /\ Rewritten(i, [signals[i] EXCEPT !.completed = TRUE])
      BY <2>5 DEF CompletesBatch
    <3>2. s \in DOMAIN signals
      BY <1>1, <1>3, <3>1 DEF Rewritten, StoreInv
    <3> QED BY <1>1, <2>1, <3>1, <3>2 DEF Rewritten
  <2>6. ASSUME NEW cursor \in 1..MaxEvent, HandlesBatch(cursor) PROVE s \in printed'
    <3>1. s \in DOMAIN signals /\ Batch \in SignalRecords /\ generation \in DOMAIN signals
      BY <1>1, <1>3, <2>6 DEF HandlesBatch, Rewritten, StoreInv, Batch
    <3>2. CASE s # generation
      BY <2>1, <2>6, <3>1, <3>2 DEF HandlesBatch, Rewritten
    <3>3. CASE s = generation
      <4>1. /\ signals'[s].completed = signals[s].completed /\ signals'[s].hold = signals[s].hold
            /\ signals[s].hold => signals[s].completed
        BY <2>6, <3>1, <3>3 DEF HandlesBatch, Rewritten, Batch, SignalRecords
      <4>2. signals[s].completed
        BY <1>3, <4>1
      <4> QED BY <1>1, <3>1, <4>2 DEF ReceiptTruthful
    <3> QED BY <3>2, <3>3
  <2> QED BY <2>2, <2>3, <2>4, <2>5, <2>6, StoreMoves
<1> QED BY <1>2, <1>3 DEF ReceiptTruthful

LEMMA PrintedInvStep ==
    ASSUME Inv, Next
    PROVE  PrintedInv'
<1>1. /\ waiters \in [Conns -> Waiters] /\ printed \subseteq printed'
      /\ \A c \in Conns : waiters[c].result.outcome = "return_completed" => waiters[c].result.signal \in printed
  BY PrintedGrows DEF Inv, PrintedInv
<1>2. /\ waiters' \in [Conns -> Waiters]
      /\ \A c \in Conns : waiters'[c].result.outcome = "return_completed" => waiters'[c].result.signal \in printed'
  <2>1. CASE UNCHANGED waiters
    BY <1>1, <2>1
  <2>2. ASSUME NEW d \in Conns, NEW w \in Waiters, Replaces(d, w)
        PROVE  /\ waiters' \in [Conns -> Waiters]
               /\ \A c \in Conns :
                     waiters'[c].result.outcome = "return_completed" => waiters'[c].result.signal \in printed'
    BY <1>1, <2>2 DEF Replaces
  <2> QED BY <2>1, <2>2, WaitersStep
<1> QED BY <1>2, ReceiptStep DEF PrintedInv


-----------------------------------------------------------------------------
(* The invariant is inductive. *)

LEMMA FaultsStep ==
    ASSUME faults \in 0..MaxFaults, Next
    PROVE  faults' \in 0..MaxFaults
<1>1. SUFFICES faults' = faults \/ (faults < MaxFaults /\ faults' = faults + 1)
  BY DaemonAssumption
<1>2. CASE MainLoop
  BY <1>2 DEF MainLoop, CoverageOver, TakeAttached, TakeRearm, NoEventInTime, Disconnected, Adopt, ReadLink,
     FlushNothing, FlushRefused, FlushDelivery, FlushFails, RevokeLost, RevokeTerminal, PollNoResult,
     PollSessionLost, PollResult, ChildQuiet, ChildTimedOut, ChildFailed, ChildMatched, RestartDrained,
     RestartEmpty, RestartFails, Halted, Fault
<1>3. CASE AcceptThread \/ Attaches \/ Acknowledges
  BY <1>3 DEF AcceptThread, Attaches, Acknowledges, PrepareAttach, CommitWrittenAttach, FailToWriteReply,
     SendEvent, AcceptAttach, ServeAck, Fault
<1>4. CASE Environment
  BY <1>4 DEF Environment, Publish, ChildExits, LeaseElapses, CoverageElapses, ListenerFails, ReceiveDelivery,
     Leave, WaiterDies, Fault
<1> QED BY <1>2, <1>3, <1>4 DEF Next

LEMMA InitInv == Init => Inv
<1> SUFFICES ASSUME Init PROVE Inv
  OBVIOUS
<1> USE DEF Init
<1>1. StoreInv
  BY DEF AckInit, StoreInv
<1>2. HistoryInv
  BY DEF AckInit, HistoryInv, NoEntry
<1>3. ClaimInv
  BY DaemonAssumption DEF AckInit, LedgerInit, ClaimInv, StartOf, NoClaim
<1>4. PlaceInv
  BY DEF PlaceInv, Places, CoveragePausedByClaim, ClaimNeverRefused
<1>5. ChannelInv
  BY DEF AckInit, ChannelInv, Idle
<1>6. AcceptInv
  BY DEF AcceptInv
<1>7. LinksInv
  BY DEF LinkInit, LinksInv, Links, Reachable
<1>8. DeliveryInv
  <2>1. /\ deliveries = 0 /\ pending = NoPending /\ arm_generation = 1 /\ sent = {} /\ signals = <<>>
    BY DEF AckInit, LedgerInit
  <2>2. deliveries \in Nat /\ deliveries <= arm_generation - 1
    BY <2>1
  <2>3. DOMAIN signals = {}
    BY <2>1
  <2>4. ~attempted /\ attempted \in BOOLEAN
    OBVIOUS
  <2>5. DeliverySound
    BY <2>1, <2>3, <2>4 DEF DeliverySound, StableDelivery, DeliveredWasSent
  <2> QED BY <2>1, <2>2, <2>4, <2>5 DEF DeliveryInv
<1>9. PrintedInv
  BY DEF AckInit, LedgerInit, PrintedInv, Waiters, AbsentWaiter, NoMessage, NoResult, NoPending, ReceiptTruthful
<1>10. faults \in 0..MaxFaults
  BY DaemonAssumption
<1> QED BY <1>1, <1>2, <1>3, <1>4, <1>5, <1>6, <1>7, <1>8, <1>9, <1>10 DEF Inv

LEMMA StutterInv ==
    ASSUME Inv, UNCHANGED vars
    PROVE  Inv'
<1> USE DEF vars, ackVars, linkVars, pipeVars, providerVars, clockVars, waiterVars, acceptVars, controlVars,
            coverageVars
<1>1. StoreInv' /\ HistoryInv'
  BY DEF Inv, StoreInv, HistoryInv, SignalHolds, StartOf
<1>2. ClaimInv' /\ PlaceInv'
  BY DEF Inv, ClaimInv, PlaceInv, StartOf, CoveragePausedByClaim, ClaimNeverRefused
<1>3. ChannelInv' /\ AcceptInv'
  BY DEF Inv, ChannelInv, AcceptInv, RearmDue
<1>4. LinksInv'
  BY DEF Inv, LinksInv, Reachable
<1>5. DeliveryInv' /\ PrintedInv'
  BY DEF Inv, DeliveryInv, DeliverySound, StableDelivery, DeliveredWasSent, PrintedInv, ReceiptTruthful
<1> QED BY <1>1, <1>2, <1>3, <1>4, <1>5 DEF Inv

\* The two threads, the waiters and the ACK store never leave the invariant: the
\* accept thread is at most one generation ahead (daemon.rs, serve_wait_on).
THEOREM InvHolds == Spec => []Inv
<1>1. Init => Inv
  BY InitInv
<1>2. Inv /\ [Next]_vars => Inv'
  <2>1. ASSUME Inv, Next PROVE Inv'
    BY <2>1, StoreInvStep, HistoryInvStep, ClaimInvStep, PlaceInvStep, ChannelInvStep, AcceptInvStep,
       LinksInvStep, DeliveryInvStep, PrintedInvStep, FaultsStep DEF Inv
  <2> QED BY <2>1, StutterInv
<1> QED BY <1>1, <1>2, PTL DEF Spec

-----------------------------------------------------------------------------
(* What the invariant says of the daemon. *)

\* The daemon is type correct and bounded: no more generations than events, no
\* more deliveries than generations, and in the channel at most one attach of
\* each connection and one re-arm (daemon.rs, the event channel of serve_wait_on).
THEOREM TypeCorrect == Spec => []TypeOK
<1>1. ASSUME Inv PROVE TypeOK
  <2>1. /\ MaxEvent \in Nat /\ generation \in Gens /\ generation \in {arm_generation, arm_generation + 1}
        /\ arm_generation \in Nat \ {0}
    BY <1>1, DaemonAssumption, GenerationBound DEF Inv, ClaimInv
  <2>2. arm_generation \in Gens
    BY <2>1 DEF Gens
  <2>3. Len(signals) \in 0..(MaxEvent + 1)
    BY <1>1, <2>1 DEF Inv, StoreInv, Gens
  <2>4. ASSUME NEW s \in DOMAIN signals
        PROVE  /\ signals[s].generation \in Gens
               /\ signals[s].delivered \in Batches \cup {NoBatch}
               /\ signals[s].handled \in 0..MaxEvent
    <3>1. signals \in Seq(SignalRecords) /\ SignalHolds(s)
      BY <1>1 DEF Inv, StoreInv
    <3>2. signals[s] \in SignalRecords /\ s \in Gens
      BY <2>1, <2>3, <3>1 DEF Gens
    <3> QED BY <3>1, <3>2 DEF SignalRecords, SignalHolds
  <2>5. /\ current \in Links /\ link \in Links /\ served.session \in Links
        /\ attach_history \in [Conns -> {"none", "accepted", "rejected"}]
    BY <1>1, LinksTyped DEF Inv, LinksInv, NoServed
  <2>6. pending.attempt \in {"none", "Awaiting", "Lost"} \cup TerminalOutcomes
    BY <1>1 DEF Inv, DeliveryInv, Pendings, NoPending
  <2>7. deliveries \in 0..(MaxEvent + 1) /\ attempted \in BOOLEAN
    BY <1>1, <2>1, <2>2 DEF Inv, DeliveryInv, Gens
  <2>8. published \in 0..MaxEvent /\ after \in 0..published
    BY <1>1 DEF Inv, ClaimInv
  <2>9. claim \in Claims
    BY <1>1, <2>2 DEF Inv, ClaimInv, Claims
  <2>10. /\ child \in {"none", "running", "matched", "timeout", "error"}
         /\ pc \in Places /\ then \in {"head", "result", "child"}
    BY <1>1 DEF Inv, PlaceInv
  <2>11. /\ \A i, j \in DOMAIN events : events[i].conn = events[j].conn => i = j
         /\ faults \in 0..MaxFaults
    BY <1>1 DEF Inv, ChannelInv
  <2> QED BY <2>1, <2>2, <2>3, <2>4, <2>5, <2>6, <2>7, <2>8, <2>9, <2>10, <2>11 DEF TypeOK
<1> QED BY <1>1, InvHolds, PTL

\* What is in the channel and in hand: one re-arm, if the store is ahead.
LEMMA UnderwayHolds ==
    ASSUME Inv
    PROVE  /\ Underway \in Seq(AttachEvents \cup RearmEvents)
           /\ \A i \in DOMAIN Underway : IsRearm(Underway[i]) => RearmDue(Underway[i])
           /\ \A i, j \in DOMAIN Underway : IsRearm(Underway[i]) /\ IsRearm(Underway[j]) => i = j
           /\ generation = arm_generation + 1 => \E i \in DOMAIN Underway : IsRearm(Underway[i])
<1>1. events \in Seq(AttachEvents \cup RearmEvents)
  BY DEF Inv, ChannelInv
<1>2. ASSUME NEW i \in DOMAIN events, NEW j \in DOMAIN events, IsRearm(events[i]), IsRearm(events[j])
      PROVE  i = j
  <2>1. events[i] \in AttachEvents \cup RearmEvents /\ events[j] \in AttachEvents \cup RearmEvents
    BY <1>1
  <2>2. events[i].conn = "none" /\ events[j].conn = "none"
    BY <1>2, <2>1, RearmHasNone
  <2> QED BY <2>2 DEF Inv, ChannelInv
<1>3. CASE accept.pc # "send"
  <2>1. Underway = events
    BY <1>3 DEF Underway
  <2> QED BY <1>1, <1>2, <1>3, <2>1 DEF Inv, ChannelInv
<1>4. CASE accept.pc = "send"
  <2> DEFINE e == accept.event
  <2>1. e \in AttachEvents \cup RearmEvents
    BY <1>4 DEF Inv, AcceptInv, Idle
  <2>2. /\ \A i \in DOMAIN events : events[i].conn # e.conn
        /\ \A i \in DOMAIN events : IsRearm(events[i]) => RearmDue(events[i])
        /\ IsRearm(e) => RearmDue(e)
        /\ generation = arm_generation + 1 => IsRearm(e) \/ \E i \in DOMAIN events : IsRearm(events[i])
    BY <1>4 DEF Inv, ChannelInv
  <2>3. Underway = Append(events, e)
    BY <1>4 DEF Underway
  <2> HIDE DEF e
  <2>4. /\ DOMAIN Underway = DOMAIN events \cup {Len(events) + 1} /\ Len(events) + 1 \notin DOMAIN events
        /\ \A i \in DOMAIN events : Underway[i] = events[i]
        /\ Underway[Len(events) + 1] = e
        /\ Underway \in Seq(AttachEvents \cup RearmEvents)
    BY <1>1, <2>1, <2>3, AppendFacts
  <2>5. \A i \in DOMAIN events : ~(IsRearm(events[i]) /\ IsRearm(e))
    <3>1. \A i \in DOMAIN events : events[i] \in AttachEvents \cup RearmEvents
      BY <1>1
    <3> QED BY <2>1, <2>2, <3>1, RearmHasNone
  <2> QED BY <1>2, <2>2, <2>4, <2>5
<1> QED BY <1>3, <1>4

\* The claim of a batch is never refused, every generation that the store is
\* ahead of the main loop is a re-arm on its way, and the main loop covers from
\* where the batch before its own was handled to (daemon.rs, ingest_match and
\* restart_after_ack; ack.rs, apply_handled_request).
THEOREM ClaimsAgree == Spec => []ClaimsExact
<1>1. ASSUME Inv PROVE ClaimsExact
  <2>1. /\ arm_generation \in Nat \ {0} /\ generation \in {arm_generation, arm_generation + 1}
        /\ after = StartOf(arm_generation) /\ ClaimNeverRefused /\ StoreInv
    BY <1>1 DEF Inv, ClaimInv, PlaceInv
  <2>2. ASSUME NEW i \in DOMAIN Underway, IsRearm(Underway[i])
        PROVE  generation = arm_generation + 1 /\ Underway[i].generation = generation
    BY <1>1, <2>2, UnderwayHolds DEF RearmDue
  <2>3. arm_generation <= generation
    BY <2>1
  <2>4. \A i \in DOMAIN Underway :
            IsRearm(Underway[i]) => Underway[i].generation \in (arm_generation + 1)..generation
    BY <2>1, <2>2
  <2>5. ASSUME NEW g \in (arm_generation + 1)..generation
        PROVE  \E i \in DOMAIN Underway : IsRearm(Underway[i]) /\ Underway[i].generation = g
    <3>1. g = generation /\ generation = arm_generation + 1
      BY <2>1
    <3> QED BY <1>1, <2>2, <3>1, UnderwayHolds
  <2>6. ASSUME NEW i \in DOMAIN Underway, NEW j \in DOMAIN Underway, IsRearm(Underway[i]), IsRearm(Underway[j])
        PROVE  ~(i < j)
    <3>1. i = j
      BY <1>1, <2>6, UnderwayHolds
    <3>2. i \in Int
      BY <1>1, UnderwayHolds
    <3> QED BY <3>1, <3>2
  <2>7. ASSUME NEW s \in DOMAIN signals, signals[s].closed, signals[s].generation + 1 = arm_generation
        PROVE  signals[s].handled = after
    <3>1. s \in Nat \ {0} /\ signals[s].generation = s
      BY <2>1 DEF StoreInv, SignalHolds
    <3>2. arm_generation # 1 /\ arm_generation - 1 = s
      BY <2>1, <2>7, <3>1
    <3> QED BY <2>1, <3>2 DEF StartOf
  <2> QED BY <2>1, <2>3, <2>4, <2>5, <2>6, <2>7 DEF ClaimsExact, RearmsExact
<1> QED BY <1>1, InvHolds, PTL

\* Batches are one for each generation, without a gap or an overlap, and all but
\* the newest are closed (ack.rs, note_claimed and apply_handled_request).
THEOREM BatchesFollow == Spec => []BatchesContiguous
<1>1. Inv => BatchesContiguous
  BY DEF Inv, StoreInv, SignalHolds, StartOf, BatchesContiguous
<1> QED BY <1>1, InvHolds, PTL

\* A batch is the same in every frame of it, and is noted as delivered or as
\* attempted only after a write of it (deliver.rs, redeliver_pending; daemon.rs,
\* deliver_claimed).
THEOREM DeliveryHolds == Spec => []DeliverySound
<1>1. Inv => DeliverySound
  BY DEF Inv, DeliveryInv
<1> QED BY <1>1, InvHolds, PTL

\* The child never runs beside a claim, and a daemon without a claim listens
\* (daemon.rs, ingest_match and restart_after_ack).
THEOREM CoverageHolds == Spec => []CoveragePausedByClaim
<1>1. Inv => CoveragePausedByClaim
  BY DEF Inv, PlaceInv
<1> QED BY <1>1, InvHolds, PTL

\* What is recorded as completed was printed, and a page that lost content is
\* not handled before (ack.rs, note_return_completed).
THEOREM ReceiptsHold == Spec => []ReceiptTruthful
<1>1. Inv => ReceiptTruthful
  BY DEF Inv, PrintedInv
<1> QED BY <1>1, InvHolds, PTL

-----------------------------------------------------------------------------
(* What a step may never do. *)

LEMMA StableStep ==
    ASSUME Inv, Next
    PROVE  /\ after' >= after /\ generation' >= generation /\ arm_generation' >= arm_generation
           /\ \A s \in DOMAIN signals :
                  /\ s \in DOMAIN signals'
                  /\ signals[s].delivered # NoBatch => signals'[s].delivered = signals[s].delivered
                  /\ signals[s].handled # 0 => signals'[s].handled = signals[s].handled
                  /\ signals[s].closed => signals'[s].closed
                  /\ signals[s].hold => signals'[s].hold
<1>1. generation' >= generation
  BY GenerationGrows
<1>2. after' >= after /\ arm_generation' >= arm_generation
  <2>1. /\ arm_generation \in Nat /\ after \in Nat /\ DaemonAssumption
        /\ StoreInv /\ ClaimInv /\ DeliveryInv
    BY DaemonAssumption DEF Inv, ClaimInv
  <2>2. CASE TakeRearm
    <3>1. generation = arm_generation + 1 /\ arm_generation' = generation
          /\ after' = signals[arm_generation].handled
      BY <2>2, RearmStep
    <3>2. /\ arm_generation \in DOMAIN signals
          /\ InBatch(signals[arm_generation].handled, signals[arm_generation].delivered)
          /\ signals[arm_generation].delivered = claim.batch /\ claim # NoClaim
      BY <2>1, <3>1, AheadIsPending
    <3>3. claim.batch[1] = after /\ signals[arm_generation] \in SignalRecords
      BY <2>1, <3>2 DEF ClaimInv, StoreInv
    <3>4. signals[arm_generation].handled \in Nat
      BY <2>1, <3>3 DEF SignalRecords
    <3>5. after < signals[arm_generation].handled
      BY <3>2, <3>3 DEF InBatch
    <3> QED BY <2>1, <3>1, <3>4, <3>5
  <2>3. CASE UNCHANGED <<arm_generation, after>>
    BY <2>1, <2>3
  <2> QED BY <2>2, <2>3, ArmQuiet
<1> QED BY <1>1, <1>2, SignalsKeep

\* What the ACK store recorded of a batch is never changed or taken back, and
\* neither the cursor nor a generation moves backwards, whichever thread acts
\* (ack.rs, note_delivered and apply_handled_request; daemon.rs, restart_after_ack).
THEOREM RecordsStable == Spec => RecordStable
<1>1. ASSUME Inv, UNCHANGED vars
      PROVE  /\ after' >= after /\ generation' >= generation /\ arm_generation' >= arm_generation
             /\ \A s \in DOMAIN signals :
                    /\ s \in DOMAIN signals'
                    /\ signals[s].delivered # NoBatch => signals'[s].delivered = signals[s].delivered
                    /\ signals[s].handled # 0 => signals'[s].handled = signals[s].handled
                    /\ signals[s].closed => signals'[s].closed
                    /\ signals[s].hold => signals'[s].hold
  BY <1>1, DaemonAssumption DEF vars, ackVars, coverageVars, Inv, StoreInv, ClaimInv
<1>2. Inv /\ [Next]_vars =>
          [ /\ after' >= after /\ generation' >= generation /\ arm_generation' >= arm_generation
            /\ \A s \in DOMAIN signals :
                   /\ s \in DOMAIN signals'
                   /\ signals[s].delivered # NoBatch => signals'[s].delivered = signals[s].delivered
                   /\ signals[s].handled # 0 => signals'[s].handled = signals[s].handled
                   /\ signals[s].closed => signals'[s].closed
                   /\ signals[s].hold => signals'[s].hold ]_vars
  BY <1>1, StableStep
<1> QED BY <1>2, InvHolds, PTL DEF Spec, RecordStable

-----------------------------------------------------------------------------
(* The daemon implements the contract of its event stream. *)

\* The open batch, if there is one, is the last record.
View ==
    /\ HandledTo = StartOf(generation)
    /\ HandledTo \in 0..MaxEvent
    /\ OfferedTo = IF Len(signals) = generation /\ Batch.delivered # NoBatch
                   THEN Batch.delivered[2] ELSE HandledTo
    /\ Len(signals) = generation => Batch \in SignalRecords /\ ~Batch.closed

LEMMA ContractView == StoreInv => View
<1> SUFFICES ASSUME StoreInv PROVE View
  OBVIOUS
<1> USE DEF View
<1>1. /\ signals \in Seq(SignalRecords) /\ generation \in Nat \ {0}
      /\ Len(signals) \in {generation - 1, generation} /\ MaxEvent \in Nat
      /\ \A s \in DOMAIN signals : SignalHolds(s)
  BY DaemonAssumption DEF StoreInv
<1>2. CASE Len(signals) = generation
  <2>1. generation \in DOMAIN signals /\ signals # <<>>
    BY <1>1, <1>2
  <2>2. Batch \in SignalRecords /\ ~Batch.closed
    BY <1>1, <2>1 DEF Batch, SignalHolds
  <2>3. LastClosed = generation - 1
    BY <1>1, <1>2, <2>1, <2>2 DEF LastClosed, Batch
  <2>4. HandledTo = StartOf(generation)
    BY <1>1, <2>3 DEF HandledTo, StartOf
  <2>5. OfferedTo = IF Batch.delivered # NoBatch THEN Batch.delivered[2] ELSE HandledTo
    BY <1>2, <2>1, <2>2 DEF OfferedTo, Batch
  <2>6. StartOf(generation) \in 0..MaxEvent
    BY <1>1, <2>1, StartIsPast
  <2> QED BY <1>2, <2>2, <2>4, <2>5, <2>6
<1>3. CASE Len(signals) = generation - 1
  <2>1. CASE signals = <<>>
    <3>1. generation = 1 /\ LastClosed = -1
      BY <1>1, <1>3, <2>1 DEF LastClosed
    <3> QED BY <1>1, <1>3, <2>1, <3>1 DEF HandledTo, StartOf, OfferedTo
  <2>2. CASE signals # <<>>
    <3>1. Len(signals) \in DOMAIN signals /\ Len(signals) = generation - 1 /\ Len(signals) > 0
      BY <1>1, <1>3, <2>2
    <3>2. signals[Len(signals)].closed
      BY <1>1, <3>1 DEF SignalHolds
    <3>3. LastClosed = generation - 1
      BY <1>1, <2>2, <3>1, <3>2 DEF LastClosed
    <3>4. HandledTo = StartOf(generation) /\ OfferedTo = HandledTo
      BY <1>1, <3>1, <3>2, <3>3 DEF HandledTo, StartOf, OfferedTo
    <3>5. StartOf(generation) \in 0..MaxEvent
      BY <1>1, <1>3, StartIsPast
    <3> QED BY <1>1, <1>3, <3>4, <3>5
  <2> QED BY <2>1, <2>2
<1> QED BY <1>1, <1>2, <1>3

LEMMA ContractViewNext == StoreInv' => View'
BY ContractView, PTL

LEMMA ContractStep ==
    ASSUME Inv, Next
    PROVE  Contract!Next \/ UNCHANGED <<generation, HandledTo, OfferedTo>>
<1>1. StoreInv /\ StoreInv' /\ ClaimInv /\ MaxEvent \in Nat
  BY StoreInvStep, DaemonAssumption DEF Inv
<1>2. /\ HandledTo = StartOf(generation) /\ HandledTo \in 0..MaxEvent
      /\ OfferedTo = IF Len(signals) = generation /\ Batch.delivered # NoBatch
                     THEN Batch.delivered[2] ELSE HandledTo
      /\ Len(signals) = generation => Batch \in SignalRecords /\ ~Batch.closed
  BY <1>1, ContractView DEF View
<1>3. /\ HandledTo' = StartOf(generation)'
      /\ OfferedTo' = IF Len(signals') = generation' /\ Batch'.delivered # NoBatch
                      THEN Batch'.delivered[2] ELSE HandledTo'
  BY <1>1, ContractViewNext DEF View
<1>4. signals \in Seq(SignalRecords) /\ generation \in Nat \ {0}
      /\ Len(signals) \in {generation - 1, generation}
  BY <1>1 DEF StoreInv
<1>5. CASE UNCHANGED <<generation, signals>>
  BY <1>2, <1>3, <1>5 DEF StartOf, Batch
<1>6. CASE ClaimsBatch
  <2>1. PICK hold \in BOOLEAN : signals' = Append(signals, NewSignal(NoBatch, hold))
    BY <1>6 DEF ClaimsBatch
  <2>2. generation' = generation /\ Len(signals) = generation - 1
    BY <1>6 DEF ClaimsBatch
  <2>3. Batch'.delivered = NoBatch /\ \A s \in DOMAIN signals : signals'[s] = signals[s]
    BY <1>4, <2>1, <2>2 DEF Batch, NewSignal
  <2>4. HandledTo' = HandledTo
    BY <1>2, <1>3, <1>4, <2>2, <2>3 DEF StartOf
  <2> QED BY <1>2, <1>3, <1>4, <2>2, <2>3, <2>4
<1>7. CASE DeliversBatch
  <2>1. /\ Len(signals) = generation /\ generation = arm_generation /\ claim # NoClaim
        /\ Batch.delivered \in {NoBatch, claim.batch} /\ generation' = generation
        /\ Rewritten(generation, [Batch EXCEPT !.delivered = claim.batch])
    BY <1>7 DEF DeliversBatch
  <2>2. /\ claim.batch \in Batches /\ claim.batch[1] = HandledTo
    BY <1>1, <1>2, <2>1 DEF ClaimInv
  <2>3. /\ claim.batch # NoBatch /\ claim.batch[2] \in (HandledTo + 1)..MaxEvent
    BY <2>2 DEF Batches, NoBatch
  <2>4. Batch'.delivered = claim.batch /\ Len(signals') = generation
        /\ \A s \in DOMAIN signals : s # generation => signals'[s] = signals[s]
    BY <1>2, <2>1 DEF Rewritten, Batch, SignalRecords
  <2>5. HandledTo' = HandledTo
    BY <1>2, <1>3, <1>4, <2>1, <2>4 DEF StartOf
  <2>6. OfferedTo' = claim.batch[2]
    BY <1>3, <2>1, <2>3, <2>4
  <2>7. CASE Batch.delivered = NoBatch
    <3>1. OfferedTo = HandledTo
      BY <1>2, <2>7
    <3> QED BY <2>1, <2>3, <2>5, <2>6, <3>1 DEF Contract!Next, Contract!Offer, Contract!Open
  <2>8. CASE Batch.delivered = claim.batch
    BY <1>2, <2>1, <2>3, <2>5, <2>6, <2>8
  <2> QED BY <2>1, <2>7, <2>8
<1>8. CASE CompletesBatch
  <2>1. PICK i \in DOMAIN signals : Rewritten(i, [signals[i] EXCEPT !.completed = TRUE])
    BY <1>8 DEF CompletesBatch
  <2>2. generation' = generation /\ Len(signals') = Len(signals)
    BY <1>8, <2>1 DEF CompletesBatch, Rewritten
  <2>3. \A s \in DOMAIN signals :
            signals'[s].delivered = signals[s].delivered /\ signals'[s].handled = signals[s].handled
    <3>1. signals[i] \in SignalRecords
      BY <1>4
    <3>2. LET v == [signals[i] EXCEPT !.completed = TRUE]
          IN  v.delivered = signals[i].delivered /\ v.handled = signals[i].handled
      BY <3>1 DEF SignalRecords
    <3> QED BY <2>1, <3>2 DEF Rewritten
  <2>4. HandledTo' = HandledTo
    BY <1>2, <1>3, <1>4, <2>2, <2>3 DEF StartOf
  <2>5. Len(signals) = generation => Batch'.delivered = Batch.delivered
    BY <1>4, <2>2, <2>3 DEF Batch
  <2> QED BY <1>2, <1>3, <2>2, <2>4, <2>5
<1>9. ASSUME NEW cursor \in 1..MaxEvent, HandlesBatch(cursor)
      PROVE  Contract!Next
  <2>1. /\ Len(signals) = generation /\ Batch.delivered # NoBatch /\ InBatch(cursor, Batch.delivered)
        /\ generation' = generation + 1
        /\ Rewritten(generation, [Batch EXCEPT !.handled = cursor, !.closed = TRUE])
    BY <1>9 DEF HandlesBatch
  <2>2. generation \in DOMAIN signals /\ SignalHolds(generation) /\ Batch \in SignalRecords
    BY <1>1, <1>2, <1>4, <2>1 DEF StoreInv
  <2>3. /\ OfferedTo = Batch.delivered[2] /\ Batch.delivered[1] = HandledTo
        /\ Batch.delivered \in Batches
    BY <1>2, <2>1, <2>2 DEF SignalHolds, Batch, SignalRecords
  <2>4. /\ OfferedTo \in 0..MaxEvent /\ HandledTo \in 0..MaxEvent /\ HandledTo < OfferedTo
        /\ cursor \in (HandledTo + 1)..OfferedTo
    BY <1>2, <2>1, <2>3 DEF Batches, InBatch
  <2>5. signals'[generation].handled = cursor /\ Len(signals') = generation
    BY <2>1, <2>2 DEF Rewritten, SignalRecords
  <2>6. HandledTo' = cursor
    BY <1>3, <1>4, <2>1, <2>5 DEF StartOf
  <2>7. OfferedTo' = HandledTo'
    BY <1>3, <1>4, <2>1, <2>5
  <2> QED BY <2>1, <2>4, <2>6, <2>7 DEF Contract!Next, Contract!Handle, Contract!Open
<1> QED BY <1>5, <1>6, <1>7, <1>8, <1>9, StoreMoves

\* The accept thread and the main loop together offer and handle one batch after
\* another, as CoverageContract says: the delivery of a batch offers it, the
\* accepted cursor handles it, and nothing else is seen (daemon.rs, serve_wait_on).
THEOREM DaemonCovers == Spec => CoverageSpec
<1>1. Init => Contract!Init
  <2> SUFFICES ASSUME Init PROVE Contract!Init
    OBVIOUS
  <2>1. generation = 1 /\ signals = <<>>
    BY DEF Init, AckInit
  <2>2. LastClosed = -1
    BY <2>1 DEF LastClosed
  <2> QED BY <2>1, <2>2 DEF Contract!Init, HandledTo, OfferedTo
<1>2. Inv /\ [Next]_vars => [Contract!Next]_<<generation, HandledTo, OfferedTo>>
  <2>1. ASSUME Inv, UNCHANGED vars
        PROVE  UNCHANGED <<generation, HandledTo, OfferedTo>>
    BY <2>1 DEF vars, ackVars, HandledTo, OfferedTo, LastClosed
  <2> QED BY <2>1, ContractStep
<1> QED BY <1>1, <1>2, InvHolds, PTL DEF Spec, CoverageSpec, Contract!Spec

=============================================================================
