---------------------------- MODULE WaiterDaemon ----------------------------
(***************************************************************************)
(* The wait-on daemon (gearwit-cli/src/daemon.rs): an accept thread that   *)
(* serves attach and handled-cursor connections, a main loop that owns the *)
(* provider child, the claim, the delivery ledger and the served writer,   *)
(* and between them the link table and the ACK store, each under its own   *)
(* lock, and one event channel.  An action is one critical section, with   *)
(* the thread-local work before and after it.                              *)
(*                                                                         *)
(* External, from how the daemon and its clients use them: the provider    *)
(* (events are published; a child that waits past a cursor matches, times  *)
(* out or fails), the attaching waiters (attach.rs) and the agents that    *)
(* acknowledge (ack_handled.rs), and the clock.                            *)
(***************************************************************************)
EXTENDS AckStore, LinkTable, DeliveryLedger

CONSTANTS Drain,       \* what an EventDrain answers to an empty history
          LossyEvents, \* events whose body lost content in the local drain
          FaultKinds,  \* kinds of failures that may happen
          MaxFaults    \* bound on how many do

ASSUME DaemonAssumption ==
    /\ MaxEvent \in Nat \ {0}
    /\ MaxFaults \in Nat
    /\ "none" \notin Conns
    \* ChanvoyDrain refuses an empty history, the drains of the tests return it.
    /\ Drain \in {"refuses_empty", "returns_empty"}
    /\ LossyEvents \subseteq 1..MaxEvent
    /\ FaultKinds \subseteq {"lease", "waiter", "print", "write", "child", "drain",
                             "listener", "coverage", "resend"}

NoClaim == [signal |-> 0]
NoServed == [conn |-> "none", session |-> NoSession]
NoEvent == [type |-> "none", conn |-> "none", session |-> NoSession]
Idle == [pc |-> "idle"]
NoMessage == [delivery |-> 0, link |-> "none"]
NoResult == [outcome |-> "none", link |-> "none"]

AbsentWaiter == [state |-> "absent", request |-> "none", generation |-> 0,
                 inbox |-> NoMessage, result |-> NoResult]

VARIABLES
    published,        \* events the provider has published
    child,            \* the coverage child: "none", "running" or its exit
    lapsed,           \* links whose lease has elapsed
    covered,          \* coverage_until is still ahead
    waiters,          \* the waiter at the other end of each connection
    sent,             \* every deliver_events message written so far
    printed,          \* signals whose receipt a waiter has printed
    faults,           \* failures so far
    accept,           \* state of the accept thread
    events,           \* the channel from the accept thread to the main loop
    pc, then,         \* where the main loop is, and where it goes on after a flush or a revoke
    next, link,       \* locals of the main loop: the attach being adopted, a read of the table
    seen,             \* `now' of the main loop: the leases elapsed at the head of the iteration
    arm_generation,   \* generation of the main loop's copy of the arm
    after,            \* spec.after
    claim,            \* DaemonPipe.claim
    attempted,        \* DaemonPipe.attempted
    served,           \* the served writer and its session
    halt_cause

providerVars == <<published, child>>
clockVars == <<lapsed, covered>>
waiterVars == <<waiters, sent, printed>>
acceptVars == <<accept, events>>
controlVars == <<pc, then, next, link, seen>>
coverageVars == <<arm_generation, after, claim>>
pipeVars == <<pending, deliveries, attempted>>
vars == <<ackVars, linkVars, pipeVars, providerVars, clockVars, waiterVars, acceptVars,
          controlVars, coverageVars, served, faults, halt_cause>>

Attached(conn, session) == [type |-> "attached", conn |-> conn, session |-> session]

Init ==
    /\ AckInit
    /\ LinkInit
    /\ LedgerInit
    /\ published = 0 /\ child = "running"
    /\ lapsed = {} /\ covered = TRUE
    /\ waiters = [c \in Conns |-> AbsentWaiter] /\ sent = {} /\ printed = {}
    /\ faults = 0
    /\ accept = Idle /\ events = <<>>
    /\ pc = "head" /\ then = "head" /\ next = NoEvent /\ link = NoLink /\ seen = {}
    /\ arm_generation = 1 /\ after = 0 /\ claim = NoClaim /\ attempted = FALSE
    /\ served = NoServed
    /\ halt_cause = "none"

Fault(kind) ==
    /\ kind \in FaultKinds
    /\ faults < MaxFaults
    /\ faults' = faults + 1

Stopping == pc \in {"halting", "halted"}
Goto(place) == pc' = place /\ UNCHANGED then
Call(place, return) == pc' = place /\ then' = return
Halt(cause) == Goto("halting") /\ halt_cause' = cause

-----------------------------------------------------------------------------
(* The provider and the clock. *)

Publish ==
    /\ published < MaxEvent
    /\ published' = published + 1
    /\ UNCHANGED <<ackVars, linkVars, pipeVars, child, clockVars, waiterVars, acceptVars,
                   controlVars, coverageVars, served, faults, halt_cause>>

\* A match without an event past the cursor, and an error, are failures.
ChildExits ==
    /\ child = "running"
    /\ \/ child' = "matched" /\ published > after /\ UNCHANGED faults
       \/ child' = "timeout" /\ UNCHANGED faults
       \/ child' \in {"matched", "error"} /\ Fault("child")
    /\ UNCHANGED <<ackVars, linkVars, pipeVars, published, clockVars, waiterVars, acceptVars,
                   controlVars, coverageVars, served, halt_cause>>

LeaseElapses ==
    /\ current # NoLink
    /\ current.link \notin lapsed
    /\ Fault("lease")
    /\ lapsed' = lapsed \cup {current.link}
    /\ UNCHANGED <<ackVars, linkVars, pipeVars, providerVars, covered, waiterVars, acceptVars,
                   controlVars, coverageVars, served, halt_cause>>

\* Every lease ends with coverage_until at the latest.
CoverageElapses ==
    /\ covered
    /\ Fault("coverage")
    /\ covered' = FALSE
    /\ lapsed' = Conns
    /\ UNCHANGED <<ackVars, linkVars, pipeVars, providerVars, waiterVars, acceptVars,
                   controlVars, coverageVars, served, halt_cause>>

-----------------------------------------------------------------------------
(* The accept thread.  It serves one connection at a time. *)

ServedConns == {served.conn, next.conn} \cup (IF accept = Idle \/ accept.pc = "gone" THEN {} ELSE {accept.conn})
               \cup {events[i].conn : i \in DOMAIN events}

\* The daemon holds the other end of the connection.
Held(c) == c \in ServedConns

\* Some request, link or session is named by the connection.
Named(c) ==
    \/ c \in {current.link, link.link, served.session.link, next.session.link}
    \/ pending # NoPending /\ pending.link = c
    \/ \E d \in Conns \ {c} : waiters[d].state = "waiting" /\ c \in {waiters[d].request, waiters[d].inbox.link}
    \/ \E d \in Conns \ {c} : Held(d) /\ c \in {waiters[d].request, waiters[d].result.link}
    \/ \E i \in DOMAIN events : events[i].session.link = c

Unused(c) == waiters[c].state \in {"absent", "gone"} /\ ~Held(c)

\* A connection is taken and its attach request read, with the arms as the ACK
\* store has them.  A resent request is the one of another connection.
AcceptAttach(c, request, gen) ==
    /\ accept = Idle /\ ~Stopping
    /\ Unused(c)
    /\ \/ /\ request = c /\ ~Named(c)
          /\ attach_history' = [attach_history EXCEPT ![c] = "none"]
          /\ lapsed' = lapsed \ {c} /\ seen' = seen \ {c}
          /\ UNCHANGED faults
       \/ /\ request # c
          /\ waiters[request].request = request /\ waiters[request].generation = gen
          /\ Fault("resend")
          /\ UNCHANGED <<attach_history, lapsed, seen>>
    /\ waiters' = [waiters EXCEPT ![c] = [AbsentWaiter EXCEPT !.state = "waiting",
                                              !.request = request, !.generation = gen]]
    /\ accept' = [pc |-> "prepare", conn |-> c, request |-> request, generation |-> gen,
                  arm |-> generation]
    /\ UNCHANGED <<ackVars, current, pipeVars, providerVars, covered, sent, printed, events,
                   pc, then, next, link, coverageVars, served, halt_cause>>

PrepareAttach ==
    /\ accept.pc = "prepare"
    /\ LET table == DropExpired(lapsed)
           decision == DecideAttach(accept.request, accept.generation, accept.arm, covered, table)
       IN /\ current' = table
          /\ accept' = [pc |-> "commit", conn |-> accept.conn, request |-> accept.request,
                        generation |-> accept.generation, decision |-> decision,
                        session |-> IF decision = "accepted"
                                    THEN AdmittedLink(accept.request, accept.generation)
                                    ELSE IF decision = "replay" /\ table.link = accept.request
                                    THEN table ELSE NoSession]
    /\ UNCHANGED <<ackVars, attach_history, pipeVars, providerVars, clockVars, waiterVars, events,
                   controlVars, coverageVars, served, faults, halt_cause>>

\* The reply is written, and only then the decision committed.
CommitWrittenAttach ==
    /\ accept.pc = "commit"
    /\ waiters[accept.conn].state = "waiting"
    /\ IF CommitOk(accept.decision, accept.generation)
       THEN /\ CommitAttach(accept.decision, accept.request, accept.generation)
            /\ accept' = [pc |-> "send", conn |-> accept.conn,
                          event |-> Attached(accept.conn, accept.session)]
       ELSE UNCHANGED linkVars /\ accept' = Idle
    /\ waiters' = IF \/ accept.decision = "rejected"
                     \/ accept.decision = "replay" /\ attach_history[accept.request] = "rejected"
                  THEN [waiters EXCEPT ![accept.conn].state = "gone"] ELSE waiters
    /\ UNCHANGED <<ackVars, pipeVars, providerVars, clockVars, sent, printed, events,
                   controlVars, coverageVars, served, faults, halt_cause>>

FailToWriteReply ==
    /\ accept.pc = "commit"
    /\ IF waiters[accept.conn].state = "gone" THEN UNCHANGED faults ELSE Fault("write")
    /\ accept' = Idle
    /\ waiters' = [waiters EXCEPT ![accept.conn].state = "gone"]
    /\ UNCHANGED <<ackVars, linkVars, pipeVars, providerVars, clockVars, sent, printed, events,
                   controlVars, coverageVars, served, halt_cause>>
\* Mutant: the re-arm of an accepted request never reaches the channel.
ServeAckWithoutEvent(id, request) ==
    /\ accept = Idle /\ ~Stopping
    /\ \E message \in sent : message.signal = request.signal /\ message.generation = request.generation
    /\ ApplyHandledRequest(id, request)
    /\ UNCHANGED <<linkVars, pipeVars, providerVars, clockVars, waiterVars, acceptVars,
                   controlVars, coverageVars, served, faults, halt_cause>>

\* A handled-cursor connection.  The agent names a batch that was sent.  The
\* reply may be lost: the request can be made again.
ServeAck(id, request) ==
    /\ accept = Idle /\ ~Stopping
    /\ \E message \in sent : message.signal = request.signal /\ message.generation = request.generation
    /\ ApplyHandledRequest(id, request)
    /\ accept' = IF Rearms(id, request)
                 THEN [pc |-> "send", conn |-> "none", event |-> AckRearm(request)]
                 ELSE Idle
    /\ UNCHANGED <<linkVars, pipeVars, providerVars, clockVars, waiterVars, events,
                   controlVars, coverageVars, served, faults, halt_cause>>

SendEvent ==
    /\ accept.pc = "send"
    /\ events' = Append(events, accept.event)
    /\ accept' = Idle
    /\ UNCHANGED <<ackVars, linkVars, pipeVars, providerVars, clockVars, waiterVars,
                   controlVars, coverageVars, served, faults, halt_cause>>

\* accept() fails and the thread ends; the channel is disconnected with it.
ListenerFails ==
    /\ accept = Idle /\ ~Stopping
    /\ Fault("listener")
    /\ accept' = [pc |-> "gone"]
    /\ UNCHANGED <<ackVars, linkVars, pipeVars, providerVars, clockVars, waiterVars, events,
                   controlVars, coverageVars, served, halt_cause>>

-----------------------------------------------------------------------------
(* The attached waiters: wait for one delivery, print it, answer, exit. *)

Correlates(c) ==
    /\ waiters[c].inbox.link = waiters[c].request
    /\ waiters[c].inbox.generation = waiters[c].generation
    /\ waiters[c].request \notin lapsed

WaiterAnswers(c, outcome) ==
    waiters' = [waiters EXCEPT ![c].state = "gone", ![c].inbox = NoMessage,
                               ![c].result = ResultOf(waiters[c].inbox, outcome)]

WaiterGone(c) ==
    waiters' = [waiters EXCEPT ![c].state = "gone", ![c].inbox = NoMessage]

ReceiveDelivery(c) ==
    /\ waiters[c].state = "waiting"
    /\ waiters[c].inbox # NoMessage
    /\ \/ Correlates(c) /\ printed' = printed \cup {waiters[c].inbox.signal}
          /\ \/ WaiterAnswers(c, "return_completed") /\ UNCHANGED faults
             \/ WaiterGone(c) /\ Fault("waiter")
       \/ Correlates(c) /\ Fault("print") /\ WaiterAnswers(c, "return_failed") /\ UNCHANGED printed
       \/ ~Correlates(c) /\ WaiterGone(c) /\ UNCHANGED <<printed, faults>>
    /\ UNCHANGED <<ackVars, linkVars, pipeVars, providerVars, clockVars, sent, acceptVars,
                   controlVars, coverageVars, served, halt_cause>>

\* The lease ends or the daemon has closed the connection.
Leave(c) ==
    /\ waiters[c].state = "waiting"
    /\ waiters[c].request \in lapsed \/ ~Held(c)
    /\ WaiterGone(c)
    /\ UNCHANGED <<ackVars, linkVars, pipeVars, providerVars, clockVars, sent, printed, acceptVars,
                   controlVars, coverageVars, served, faults, halt_cause>>

WaiterDies(c) ==
    /\ waiters[c].state = "waiting" /\ Held(c)
    /\ Fault("waiter")
    /\ WaiterGone(c)
    /\ UNCHANGED <<ackVars, linkVars, pipeVars, providerVars, clockVars, sent, printed, acceptVars,
                   controlVars, coverageVars, served, halt_cause>>

-----------------------------------------------------------------------------
(* The main loop: one event, then the served reader, then the child. *)

\* The pending delivery for a link: the same one again, or a new one.
DeliveryOk(l) == ShouldRedeliver(pending) => RedeliverOk(pending, l)
DeliveryFor(live, l) ==
    IF ShouldRedeliver(pending) THEN Redelivered(pending, l)
    ELSE Prepared(deliveries + 1, l, live.signal, live.batch)
\* Mutant: a delivery sent again is counted as a new one.
TakeDeliveryCounted(live, l) ==
    /\ pending' = DeliveryFor(live, l)
    /\ deliveries' = deliveries + 1

TakeDelivery(live, l) ==
    /\ pending' = DeliveryFor(live, l)
    /\ deliveries' = IF ShouldRedeliver(pending) THEN deliveries ELSE deliveries + 1
\* Mutant: the lost writer still counts as written to.
TransportLossAttempted(session) ==
    /\ pending' = AfterLoss(pending, attempted)
    /\ current' = DropSession(current, session)
    /\ UNCHANGED <<attempted, deliveries, attach_history>>

\* on_transport_loss of a session.
TransportLoss(session) ==
    /\ pending' = AfterLoss(pending, attempted)
    /\ attempted' = FALSE
    /\ current' = DropSession(current, session)
    /\ UNCHANGED <<deliveries, attach_history>>

CoverageOver ==
    /\ pc = "head" /\ ~covered
    /\ Halt("coverage")
    /\ UNCHANGED <<ackVars, linkVars, pipeVars, providerVars, clockVars, waiterVars, acceptVars,
                   next, link, seen, coverageVars, served, faults>>

TakeAttached ==
    /\ pc = "head" /\ covered
    /\ events # <<>> /\ Head(events).type = "attached"
    /\ next' = Head(events) /\ events' = Tail(events)
    /\ seen' = lapsed
    /\ Goto("adopt")
    /\ UNCHANGED <<ackVars, linkVars, pipeVars, providerVars, clockVars, waiterVars, accept,
                   link, coverageVars, served, faults, halt_cause>>

\* take_coverage_rearm, then revoke_older_generation.
TakeRearm ==
    /\ pc = "head" /\ covered
    /\ events # <<>> /\ Head(events).type = "rearm"
    /\ events' = Tail(events)
    /\ seen' = lapsed
    /\ LET rearm == Head(events)
       IN IF /\ arm_generation = rearm.generation /\ after = rearm.after
             /\ claim = NoClaim /\ pending = NoPending
          THEN Goto("result") /\ UNCHANGED <<coverageVars, pipeVars, served, current>>
          ELSE /\ arm_generation' = rearm.generation /\ after' = rearm.after /\ claim' = NoClaim
               /\ pending' = NoPending /\ attempted' = FALSE /\ UNCHANGED deliveries
               /\ served' = IF served # NoServed /\ served.session.generation < rearm.generation
                            THEN NoServed ELSE served
               /\ current' = IF current # NoLink /\ current.generation < rearm.generation
                             THEN NoLink ELSE current
               /\ Goto("restart")
    /\ UNCHANGED <<ackVars, attach_history, providerVars, clockVars, waiterVars, accept, next, link,
                   faults, halt_cause>>

NoEventInTime ==
    /\ pc = "head" /\ covered
    /\ events = <<>> /\ accept.pc # "gone"
    /\ seen' = lapsed
    /\ Goto("result")
    /\ UNCHANGED <<ackVars, linkVars, pipeVars, providerVars, clockVars, waiterVars, acceptVars,
                   next, link, coverageVars, served, faults, halt_cause>>

Disconnected ==
    /\ pc = "head" /\ covered
    /\ events = <<>> /\ accept.pc = "gone"
    /\ Halt("listener")
    /\ UNCHANGED <<ackVars, linkVars, pipeVars, providerVars, clockVars, waiterVars, acceptVars,
                   next, link, seen, coverageVars, served, faults>>
\* Mutant: the writer is kept without flushing the claimed batch to it.
AdoptWithoutFlush ==
    /\ pc = "adopt"
    /\ next' = NoEvent
    /\ IF next.session # NoSession /\ current = next.session /\ served.session # current
       THEN /\ IF served = NoServed THEN UNCHANGED <<pipeVars, linkVars>>
               ELSE TransportLoss(served.session)
            /\ served' = [conn |-> next.conn, session |-> next.session]
       ELSE UNCHANGED <<pipeVars, linkVars, served>>
    /\ Goto("result")
    /\ UNCHANGED <<ackVars, providerVars, clockVars, waiterVars, acceptVars, link, seen,
                   coverageVars, faults, halt_cause>>

\* adopt_attached up to its flush: retain_live_attach, the loss of the writer
\* that is replaced, and the lease of the link then in the table.
Adopt ==
    /\ pc = "adopt"
    /\ next' = NoEvent
    /\ IF next.session # NoSession /\ current = next.session /\ served.session # current
       THEN /\ IF served = NoServed THEN UNCHANGED <<pipeVars, linkVars>>
               ELSE TransportLoss(served.session)
            /\ served' = [conn |-> next.conn, session |-> next.session]
            /\ IF current'.link \in seen THEN Call("lost", "result") ELSE Call("link", "result")
       ELSE Goto("result") /\ UNCHANGED <<pipeVars, linkVars, served>>
    /\ UNCHANGED <<ackVars, providerVars, clockVars, waiterVars, acceptVars, link, seen,
                   coverageVars, faults, halt_cause>>

ReadLink ==
    /\ pc = "link"
    /\ link' = current
    /\ Goto("flush")
    /\ UNCHANGED <<ackVars, linkVars, pipeVars, providerVars, clockVars, waiterVars, acceptVars,
                   next, seen, coverageVars, served, faults, halt_cause>>

\* flush_attached has nothing to do, or nobody to do it for.
FlushNothing ==
    /\ pc = "flush"
    /\ served = NoServed \/ IsTerminal(pending) \/ claim = NoClaim \/ link = NoLink
    /\ pc' = then /\ then' = "head" /\ link' = NoLink
    /\ UNCHANGED <<ackVars, linkVars, pipeVars, providerVars, clockVars, waiterVars, acceptVars,
                   next, seen, coverageVars, served, faults, halt_cause>>

Flushing ==
    /\ pc = "flush"
    /\ served # NoServed /\ ~IsTerminal(pending) /\ claim # NoClaim /\ link # NoLink

\* The lease is over, or the ledger refuses the link: the writer is revoked.
FlushRefused ==
    /\ Flushing
    /\ link.link \in seen \/ ~DeliveryOk(link)
    /\ pc' = IF link.link \in seen \/ (pending # NoPending /\ ~attempted) THEN "lost" ELSE then
    /\ link' = NoLink /\ UNCHANGED then
    /\ UNCHANGED <<ackVars, linkVars, pipeVars, providerVars, clockVars, waiterVars, acceptVars,
                   next, seen, coverageVars, served, faults, halt_cause>>

\* deliver_claimed writes the batch and notes it as delivered, unless it was
\* written before and waits for its result.
FlushDelivery ==
    /\ Flushing
    /\ link.link \notin seen /\ DeliveryOk(link)
    /\ TakeDelivery(claim, link)
    /\ link' = NoLink /\ UNCHANGED then
    /\ IF attempted /\ pending'.attempt = "Awaiting"
       THEN pc' = then /\ UNCHANGED <<attempted, signals, waiters, sent>>
       ELSE /\ sent' = sent \cup {[delivery |-> pending'.delivery, signal |-> pending'.signal,
                                   generation |-> pending'.generation, batch |-> pending'.batch]}
            /\ waiters' = IF waiters[served.conn].state = "waiting"
                          THEN [waiters EXCEPT ![served.conn].inbox = Message(pending')]
                          ELSE waiters
            /\ IF NoteDeliveredOk(claim.signal, pending'.batch)
               THEN /\ NoteDelivered(claim.signal, pending'.batch)
                    /\ attempted' = TRUE /\ pc' = then
               ELSE /\ UNCHANGED <<signals, attempted>>
                    /\ pc' = IF attempted THEN then ELSE "lost"
    /\ UNCHANGED <<generation, ack_history, linkVars, providerVars, clockVars, printed, acceptVars,
                   next, seen, coverageVars, served, faults, halt_cause>>

\* The write fails.
FlushFails ==
    /\ Flushing
    /\ link.link \notin seen /\ DeliveryOk(link)
    /\ ~(attempted /\ DeliveryFor(claim, link).attempt = "Awaiting")
    /\ IF waiters[served.conn].state = "gone" THEN UNCHANGED faults ELSE Fault("write")
    /\ TakeDelivery(claim, link)
    /\ attempted' = FALSE
    /\ link' = NoLink /\ Goto("lost")
    /\ UNCHANGED <<ackVars, linkVars, providerVars, clockVars, waiterVars, acceptVars,
                   next, seen, coverageVars, served, halt_cause>>

\* revoke_exact, of a lost session or of one whose delivery is terminal.
RevokeLost ==
    /\ pc = "lost"
    /\ TransportLoss(served.session)
    /\ served' = NoServed
    /\ pc' = then /\ then' = "head"
    /\ UNCHANGED <<ackVars, providerVars, clockVars, waiterVars, acceptVars, next, link, seen,
                   coverageVars, faults, halt_cause>>

RevokeTerminal ==
    /\ pc = "terminal"
    /\ current' = DropSession(current, served.session)
    /\ served' = NoServed
    /\ pc' = then /\ then' = "head"
    /\ UNCHANGED <<ackVars, attach_history, pipeVars, providerVars, clockVars, waiterVars, acceptVars,
                   next, link, seen, coverageVars, faults, halt_cause>>

\* poll_result: the served session must still own the table and its lease
\* last, then one frame is read.
SessionLost == current # served.session \/ served.session.link \in seen
Closed(c) == waiters[c].state = "gone"

PollNoResult ==
    /\ pc = "result"
    /\ \/ served = NoServed
       \/ /\ served # NoServed /\ ~SessionLost
          /\ waiters[served.conn].result = NoResult /\ ~Closed(served.conn)
    /\ Goto("child")
    /\ UNCHANGED <<ackVars, linkVars, pipeVars, providerVars, clockVars, waiterVars, acceptVars,
                   next, link, seen, coverageVars, served, faults, halt_cause>>

PollSessionLost ==
    /\ pc = "result"
    /\ served # NoServed
    /\ SessionLost \/ (waiters[served.conn].result = NoResult /\ Closed(served.conn))
    /\ Call("lost", "child")
    /\ UNCHANGED <<ackVars, linkVars, pipeVars, providerVars, clockVars, waiterVars, acceptVars,
                   next, link, seen, coverageVars, served, faults, halt_cause>>

\* apply_waiter_result_with_ack_visibility.
PollResult ==
    /\ pc = "result"
    /\ served # NoServed
    /\ ~SessionLost
    /\ LET result == waiters[served.conn].result
           terminal == RecordOkFor(pending, result) /\ result.outcome \in TerminalOutcomes
       IN /\ result # NoResult
          /\ waiters' = [waiters EXCEPT ![served.conn].result = NoResult]
          /\ pending' = IF RecordOkFor(pending, result) THEN AfterResult(pending, result) ELSE pending
          /\ IF terminal THEN Call("terminal", "child") /\ UNCHANGED attempted
             ELSE Call("lost", "child") /\ attempted' = FALSE
          /\ IF terminal /\ result.outcome = "return_completed"
             THEN NoteReturnCompleted(result.signal) ELSE UNCHANGED signals
    /\ UNCHANGED <<generation, ack_history, linkVars, deliveries, providerVars, clockVars, sent, printed,
                   acceptVars, next, link, seen, coverageVars, served, faults, halt_cause>>

\* ingest_match of a non-empty drain: claim the batch once, bind it to the
\* link in the table, if any, and pause coverage.
Ingest(table, place) ==
    LET batch == <<after, published>>
        is_new == claim = NoClaim
        live == IF is_new THEN [signal |-> Len(signals) + 1, generation |-> arm_generation,
                                batch |-> batch]
                ELSE claim
        occupied == live.generation # arm_generation \/ live.batch # batch
        refused == is_new /\ ~NoteClaimedOk(live.signal)
    IN /\ claim' = live
       /\ IF refused THEN Halt("refused") ELSE Goto(place) /\ UNCHANGED halt_cause
       /\ IF is_new /\ ~refused
          THEN NoteClaimed(live.signal, \E e \in LossyEvents : InBatch(e, batch))
          ELSE UNCHANGED signals
       /\ IF table # NoLink /\ DeliveryOk(table) /\ ~occupied /\ ~refused
          THEN TakeDelivery(live, table) /\ attempted' = FALSE
          ELSE UNCHANGED pipeVars

\* poll_chanvoy.
ChildQuiet ==
    /\ pc = "child" /\ child \in {"none", "running"}
    /\ Goto("head")
    /\ UNCHANGED <<ackVars, linkVars, pipeVars, providerVars, clockVars, waiterVars, acceptVars,
                   next, link, seen, coverageVars, served, faults, halt_cause>>

ChildTimedOut ==
    /\ pc = "child" /\ child = "timeout"
    /\ \/ child' = "running" /\ Goto("head") /\ UNCHANGED <<faults, halt_cause>>
       \/ child' = "none" /\ Fault("child") /\ Halt("child")
    /\ UNCHANGED <<ackVars, linkVars, pipeVars, published, clockVars, waiterVars, acceptVars,
                   next, link, seen, coverageVars, served>>

ChildFailed ==
    /\ pc = "child" /\ child = "error"
    /\ child' = "none" /\ Halt("child")
    /\ UNCHANGED <<ackVars, linkVars, pipeVars, published, clockVars, waiterVars, acceptVars,
                   next, link, seen, coverageVars, served, faults>>

\* A match is only a hint: the drain decides, and must not be empty.
ChildMatched ==
    /\ pc = "child" /\ child = "matched"
    /\ child' = "none"
    /\ \/ published = after /\ Halt("drain")
          /\ UNCHANGED <<signals, claim, pipeVars, faults>>
       \/ Fault("drain") /\ Halt("drain") /\ UNCHANGED <<signals, claim, pipeVars>>
       \/ published > after /\ Ingest(current, "link") /\ UNCHANGED faults
    /\ UNCHANGED <<generation, ack_history, linkVars, published, clockVars, waiterVars, acceptVars,
                   next, link, seen, arm_generation, after, served>>
\* Mutant: the successor child is left running beside the claim of the drain.
RestartDrainedRunning ==
    /\ pc = "restart"
    /\ published > after
    /\ child' = "running"
    /\ Ingest(NoLink, "result")
    /\ UNCHANGED <<generation, ack_history, linkVars, published, clockVars, waiterVars, acceptVars,
                   next, link, seen, arm_generation, after, served, faults>>

\* restart_after_ack after its rearm was taken: reap the child and drain, then
\* claim what is there or wait for more.
RestartDrained ==
    /\ pc = "restart"
    /\ published > after
    /\ child' = "none"
    /\ Ingest(NoLink, "result")
    /\ UNCHANGED <<generation, ack_history, linkVars, published, clockVars, waiterVars, acceptVars,
                   next, link, seen, arm_generation, after, served, faults>>

RestartEmpty ==
    /\ pc = "restart"
    /\ published = after
    /\ IF Drain = "returns_empty"
       THEN child' = "running" /\ Goto("result") /\ UNCHANGED halt_cause
       ELSE child' = "none" /\ Halt("drain")
    /\ UNCHANGED <<ackVars, linkVars, pipeVars, published, clockVars, waiterVars, acceptVars,
                   next, link, seen, coverageVars, served, faults>>

RestartFails ==
    /\ pc = "restart"
    /\ \/ Fault("child") /\ Halt("child")
       \/ Fault("drain") /\ Halt("drain")
    /\ child' = "none"
    /\ UNCHANGED <<ackVars, linkVars, pipeVars, published, clockVars, waiterVars, acceptVars,
                   next, link, seen, coverageVars, served>>

\* halt joins the accept thread, reaps the child and drops the session.
Halted ==
    /\ pc = "halting" /\ accept.pc \in {"idle", "gone"}
    /\ accept' = [pc |-> "gone"]
    /\ child' = "none"
    /\ current' = NoLink
    /\ Goto("halted")
    /\ UNCHANGED <<ackVars, attach_history, pipeVars, published, clockVars, waiterVars, events,
                   next, link, seen, coverageVars, served, faults, halt_cause>>

-----------------------------------------------------------------------------
MainLoop ==
    \/ CoverageOver \/ TakeAttached \/ TakeRearm \/ NoEventInTime \/ Disconnected
    \/ Adopt \/ ReadLink \/ FlushNothing \/ FlushRefused \/ FlushDelivery \/ FlushFails
    \/ RevokeLost \/ RevokeTerminal
    \/ PollNoResult \/ PollSessionLost \/ PollResult
    \/ ChildQuiet \/ ChildTimedOut \/ ChildFailed \/ ChildMatched
    \/ RestartDrained \/ RestartEmpty \/ RestartFails
    \/ Halted

AcceptThread == PrepareAttach \/ CommitWrittenAttach \/ FailToWriteReply \/ SendEvent

Gens == 1..(MaxEvent + 1)

Attaches == \E c, r \in Conns, gen \in Gens : AcceptAttach(c, r, gen)
Acknowledges == \E id \in AckRequests \cup {FreshRequest}, request \in AckRequest : ServeAck(id, request)

Environment ==
    \/ Publish \/ ChildExits \/ LeaseElapses \/ CoverageElapses \/ ListenerFails
    \/ \E c \in Conns : ReceiveDelivery(c) \/ Leave(c) \/ WaiterDies(c)

Next == MainLoop \/ AcceptThread \/ Attaches \/ Acknowledges \/ Environment

Spec == Init /\ [][Next]_vars

\* Both threads of the daemon loop unconditionally until it halts.
DaemonFairness == WF_vars(MainLoop) /\ WF_vars(AcceptThread)

FairSpec == Spec /\ DaemonFairness

\* A seat that is being looked after: new waiters attach at the live generation,
\* read, and exit when they are refused or dropped; the agent acknowledges
\* the batches that were printed; an event past the cursor is matched.
SeatFairness ==
    /\ SF_vars(ChildExits /\ child' = "matched")
    /\ SF_vars(\E c \in Conns : AcceptAttach(c, c, generation))
    /\ SF_vars(\E request \in AckRequest :
                   request.signal \in printed /\ ServeAck(FreshRequest, request))
    /\ \A c \in Conns : WF_vars(ReceiveDelivery(c)) /\ WF_vars(Leave(c))

SeatSpec == FairSpec /\ SeatFairness

-----------------------------------------------------------------------------
(* What must hold. *)

Links == [link : Conns, generation : Gens] \cup {NoLink}
Claims == [signal : Gens, generation : Gens, batch : Batches] \cup {NoClaim}
Places == {"head", "adopt", "restart", "link", "flush", "lost", "terminal", "result", "child",
           "halting", "halted"}

\* Types, and how far the counters and the channel can grow: the channel holds at
\* most one attach of each connection and one re-arm.
TypeOK ==
    /\ generation \in Gens /\ arm_generation \in Gens
    /\ Len(signals) \in 0..(MaxEvent + 1)
    /\ \A s \in DOMAIN signals :
           /\ signals[s].generation \in Gens
           /\ signals[s].delivered \in Batches \cup {NoBatch}
           /\ signals[s].handled \in 0..MaxEvent
    /\ current \in Links /\ link \in Links /\ served.session \in Links
    /\ attach_history \in [Conns -> {"none", "accepted", "rejected"}]
    /\ pending.attempt \in {"none", "Awaiting", "Lost"} \cup TerminalOutcomes
    /\ deliveries \in 0..(MaxEvent + 1)
    /\ published \in 0..MaxEvent /\ after \in 0..published
    /\ child \in {"none", "running", "matched", "timeout", "error"}
    /\ claim \in Claims /\ attempted \in BOOLEAN
    /\ pc \in Places /\ then \in {"head", "result", "child"}
    /\ \A i, j \in DOMAIN events : events[i].conn = events[j].conn => i = j
    /\ faults \in 0..MaxFaults

\* The ACK store never refuses the claim of a batch, although the accept thread
\* moves its generation while the main loop still covers the old one: a refusal
\* would halt the daemon (daemon.rs, ingest_match).
ClaimNeverRefused == halt_cause # "refused"

\* What is between the accept thread and the main loop.
Underway == IF accept.pc = "send" THEN Append(events, accept.event) ELSE events
IsRearm(e) == e.type = "rearm"

\* Every generation that the ACK store is ahead of the main loop is one re-arm
\* on its way, in order; the main loop covers from the cursor that closed the
\* generation before its own (apply_handled_request, restart_after_ack).
RearmsExact ==
    /\ arm_generation <= generation
    /\ \A i \in DOMAIN Underway : IsRearm(Underway[i]) => Underway[i].generation \in (arm_generation + 1)..generation
    /\ \A g \in (arm_generation + 1)..generation :
           \E i \in DOMAIN Underway : IsRearm(Underway[i]) /\ Underway[i].generation = g
    /\ \A i, j \in DOMAIN Underway :
           i < j /\ IsRearm(Underway[i]) /\ IsRearm(Underway[j])
               => Underway[i].generation < Underway[j].generation
    /\ \A s \in DOMAIN signals :
           signals[s].closed /\ signals[s].generation + 1 = arm_generation
               => signals[s].handled = after

\* The two threads agree on generations, whichever of them is ahead.
ClaimsExact == ClaimNeverRefused /\ RearmsExact

\* Batches follow each other without a gap and without an overlap, one for each
\* generation, and only the newest may be open.
BatchesContiguous ==
    \A s \in DOMAIN signals :
        /\ signals[s].generation = s
        /\ s < generation <=> signals[s].closed
        /\ signals[s].closed => InBatch(signals[s].handled, signals[s].delivered)
        /\ signals[s].delivered # NoBatch =>
               signals[s].delivered[1] = IF s = 1 THEN 0 ELSE signals[s - 1].handled

\* A batch keeps its delivery id, generation and events over every link it is
\* sent on (deliver.rs, "stable deliver_events batches").
StableDelivery == \A m, n \in sent : m.signal = n.signal => m = n

\* A batch is noted as delivered, and as attempted, only after a write of it,
\* and an attempted batch is one that can still be answered or was.
DeliveredWasSent ==
    /\ \A s \in DOMAIN signals :
           signals[s].delivered # NoBatch =>
               \E m \in sent : m.signal = s /\ m.batch = signals[s].delivered
    /\ attempted =>
           /\ pending.attempt \in {"Awaiting"} \cup TerminalOutcomes
           /\ pending.signal = claim.signal
           /\ signals[claim.signal].delivered = claim.batch

\* The ledger, the sent frames and the ACK store agree on what was delivered.
DeliverySound == StableDelivery /\ DeliveredWasSent

\* Coverage is paused exactly while a claim is live: the child never runs
\* beside a claim, and a daemon without a claim never stops listening.
CoveragePausedByClaim ==
    pc \notin {"restart", "halting", "halted"} => (claim = NoClaim <=> child # "none")

\* What is recorded as completed was printed by a waiter, and a page that lost
\* content is not handled before (require_return_completed_before_handled).
ReceiptTruthful ==
    /\ pending.attempt = "return_completed" => pending.signal \in printed
    /\ \A s \in DOMAIN signals :
           signals[s].completed \/ (signals[s].hold /\ signals[s].handled # 0) => s \in printed

\* What the ACK store recorded of a batch is never changed or taken back, and
\* neither the cursor nor a generation moves backwards.
RecordStable ==
    [][ /\ after' >= after /\ generation' >= generation /\ arm_generation' >= arm_generation
        /\ \A s \in DOMAIN signals :
               /\ s \in DOMAIN signals'
               /\ signals[s].delivered # NoBatch => signals'[s].delivered = signals[s].delivered
               /\ signals[s].handled # 0 => signals'[s].handled = signals[s].handled
               /\ signals[s].closed => signals'[s].closed
               /\ signals[s].hold => signals'[s].hold ]_vars

\* With no failure, a batch handled to its end leaves a daemon that waits for
\* the next event (daemon.rs:777, "Empty history; exactly one successor wait").
SuccessorWaits == faults = 0 => halt_cause # "drain"

\* The daemon implements the contract of its event stream.
LastClosed == Len(signals) - (IF signals # <<>> /\ signals[Len(signals)].closed THEN 0 ELSE 1)
HandledTo == IF LastClosed > 0 THEN signals[LastClosed].handled ELSE 0
OfferedTo ==
    IF signals # <<>> /\ ~signals[Len(signals)].closed /\ signals[Len(signals)].delivered # NoBatch
    THEN signals[Len(signals)].delivered[2] ELSE HandledTo

Contract == INSTANCE CoverageContract
                WITH Last <- MaxEvent, epoch <- generation, handled <- HandledTo, offered <- OfferedTo
CoverageSpec == Contract!Spec

-----------------------------------------------------------------------------
(* What must happen. *)

\* An accepted ACK reaches coverage: the main loop follows every generation.
RearmApplied == \A g \in Gens : generation = g ~> arm_generation >= g \/ Stopping

\* A link that stays in the table gets a writer, and a writer that stays gets
\* the batch that is claimed, however attach, claim and loss interleave.
OwnsTable == current # NoLink /\ served.session = current
LinkServed == current # NoLink ~> OwnsTable \/ current = NoLink \/ Stopping
BatchOffered ==
    OwnsTable /\ claim # NoClaim
        ~> attempted \/ IsTerminal(pending) \/ claim = NoClaim \/ ~OwnsTable \/ Stopping

\* Delivery never stalls between the link table and the writer.
WriterServed == LinkServed /\ BatchOffered

\* Every event of the provider is handled, or the daemon has halted: no batch is
\* left behind by a lost writer, a lease or a re-arm (SeatSpec).
EventsHandled == \A e \in 1..MaxEvent : published >= e ~> after >= e \/ Stopping

=============================================================================
