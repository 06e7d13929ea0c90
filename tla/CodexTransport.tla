--------------------------- MODULE CodexTransport ---------------------------
(***************************************************************************)
(* The stdio transport to one application server, and the controller calls *)
(* that read and write it: create or resume a thread, receive a late       *)
(* create, probe, write a reserved turn, poll and reconcile.               *)
(*                                                                         *)
(* A call is a sequence of steps; each step reads at most one line or      *)
(* writes at most one frame, and the server acts in between.  A request is *)
(* named by its id and a turn by the id of the request that started it.    *)
(* Frames and lines are records of what the code reads in them; sizes,     *)
(* helper paths and coordinates are left out.                              *)
(***************************************************************************)
EXTENDS Integers, Sequences, FiniteSets

CONSTANTS
    MaxId,          \* the last request id (u64 in the code)
    MaxQueue,       \* MAX_QUEUE
    MaxLines,       \* the lines that fit in MAX_STDOUT
    MaxNotes,       \* notifications the server sends
    MaxInbound,     \* lines in the pipe
    MaxFaults,      \* failures of writes, reads, the store and the server
    SlowPipe        \* whether a refusal may miss its write deadline

ASSUME TransportAssumption ==
    /\ {MaxId, MaxQueue, MaxLines, MaxNotes, MaxInbound, MaxFaults} \subseteq Nat
    /\ MaxId >= 1
    /\ SlowPipe \in BOOLEAN

VARIABLES
    pending, notifications, ambiguous, initialized, next_id, frame, stdout,
    at, purpose, probed, epoch, lane, reconciling, response, turn,
    started_turn, pending_terminal, terminal, lost_reported, degraded_reported,
    inbound, received, torn, accepted, refused, finished, alive, announced, sent,
    created, written, facts, quiet, popped, faults

transport == <<pending, notifications, ambiguous, initialized, next_id, frame, stdout>>
controller == <<at, purpose, probed, epoch, lane, reconciling, response, turn>>
observation == <<started_turn, pending_terminal, terminal, lost_reported, degraded_reported>>
server == <<accepted, refused, finished, alive, sent>>
pipes == <<inbound, received, torn, announced>>
history == <<created, written, facts>>
vars == <<transport, controller, observation, server, pipes, history, quiet, popped, faults>>

-----------------------------------------------------------------------------
(* What is written and read.                                               *)

None == 0
Ids == 1..MaxId
Requests == [id : Ids, kind : {"initialize", "thread/start", "thread/resume", "thread/read", "turn/start"}]

\* The result of a response: which thread it names, if it can be parsed at all,
\* and what it says of it.  `turns` are the statuses it lists.
Results == [thread : {"ours", "other", "malformed"}, status : {"idle", "active", "none"},
            flags : {"known", "unknown", "absent"}, turns : {"settled", "one", "several", "odd", "absent"}]

NoNote == [n |-> 0, what |-> "signal", turn |-> None]
Notifications == [n : Nat, what : {"signal", "started", "terminal", "degraded"}, turn : Ids \cup {None}]
Lines ==
       [kind : {"response"}, id : Ids, result : Results]
  \cup [kind : {"error"}, id : Ids]
  \cup [kind : {"note"}, note : Notifications]
  \cup [kind : {"request", "junk"}]

\* A thread is idle or active only when status, flags and turns agree.
ThreadState(r) ==
    IF r.status = "idle" /\ r.turns = "settled" THEN "Idle"
    ELSE IF r.status = "active" /\ r.flags = "known" /\ r.turns = "one" THEN "ActiveTurn"
    ELSE "Unproven"

\* parse_response: what an object is, as the result of request p.
Parsed(p, result) ==
    IF p.kind = "initialize" THEN "Initialized"
    ELSE IF result.thread = "malformed" THEN "Malformed"
    ELSE IF p.kind = "thread/start" THEN "ThreadStarted"
    ELSE IF p.kind = "turn/start" THEN "TurnStarted"
    ELSE IF result.thread = "other" THEN "Correlation"
    ELSE IF p.kind = "thread/resume" THEN "ThreadResumed" ELSE ThreadState(result)

-----------------------------------------------------------------------------
(* Writing.  A frame is written whole, in part or not at all; the receipt  *)
(* says which as far as the writer can tell.  A frame behind a torn one    *)
(* does not reach the server.                                              *)

Fault == faults < MaxFaults /\ faults' = faults + 1
NoFault == UNCHANGED faults

\* The receipts write_all_until can give, with what really left.
Writes ==
    {[receipt |-> "Written", left |-> "whole"], [receipt |-> "PossiblyWritten", left |-> "whole"],
     [receipt |-> "PossiblyWritten", left |-> "part"], [receipt |-> "ProvenNotWritten", left |-> "nothing"]}

WriteFails(w) ==
    IF w.receipt = "Written" THEN alive /\ NoFault
    ELSE \/ Fault /\ (alive \/ w.left = "nothing")
         \/ ~alive /\ w.left = "nothing" /\ NoFault

\* A frame leaves that carries the given requests, one or none.
Leaves(w, requests) ==
    /\ torn' = IF w.left = "nothing" THEN torn ELSE w.left = "part"
    /\ received' = IF w.left = "whole" /\ ~torn THEN received \cup requests ELSE received

\* Mutant: a partial frame is an ordinary failure.
AmbiguousAfterSendForgets(w) == ambiguous

\* send: the transport is ambiguous after a frame that may have left.
AmbiguousAfterSend(w) == ambiguous \/ w.receipt = "PossiblyWritten"

MayRequest == ~ambiguous /\ initialized /\ pending = <<>> /\ next_id <= MaxId

\* send_request under MayRequest; the outcome says whether it returned Ok.
SendRequest(kind, w) ==
    /\ next_id' = next_id + 1
    /\ frame' = None
    /\ WriteFails(w)
    /\ Leaves(w, {[id |-> next_id, kind |-> kind]})
    /\ ambiguous' = AmbiguousAfterSend(w)
    /\ pending' = IF w.receipt = "Written" THEN Append(pending, [id |-> next_id, kind |-> kind]) ELSE pending
    /\ UNCHANGED <<notifications, initialized, stdout, inbound, announced, server, quiet, popped>>

-----------------------------------------------------------------------------
(* Reading.  Receive(r) is one turn of next_until: r.is names what it      *)
(* returns, or is "again" when it goes on reading.                         *)

Is(name) == [is |-> name, note |-> NoNote]
Noted(note) == [is |-> "Notification", note |-> note]

AmbiguousIfPending == ambiguous \/ pending # <<>>

PopQueued(r) ==
    /\ pending = <<>> /\ notifications # <<>>
    /\ r = Noted(Head(notifications))
    /\ notifications' = Tail(notifications)
    /\ popped' = Head(notifications).n
    /\ UNCHANGED <<pending, ambiguous, initialized, next_id, frame, stdout, pipes, faults>>

\* Mutant: a line is read before the queue is emptied.
ReadsLineFirst == TRUE

ReadsLine == pending # <<>> \/ notifications = <<>>

\* No whole line: the deadline passes, or the stream is closed.  A line that was
\* begun at the deadline has lost its head, and reads as junk next time.
NoLine(r) ==
    /\ ReadsLine
    /\ \/ inbound = <<>> /\ NoFault /\ UNCHANGED inbound
       \/ inbound # <<>> /\ inbound[1].kind # "junk" /\ Fault /\ inbound' = [inbound EXCEPT ![1] = [kind |-> "junk"]]
    /\ ambiguous' = AmbiguousIfPending
    /\ r = Is(IF pending # <<>> THEN "Ambiguous" ELSE IF alive THEN "Deadline" ELSE "Closed")
    /\ UNCHANGED <<pending, notifications, initialized, next_id, frame, stdout, received, torn, announced, popped>>

TakeLine == ReadsLine /\ inbound # <<>> /\ inbound' = Tail(inbound)
Line == inbound[1]

OverStdout(r) ==
    /\ TakeLine /\ stdout = MaxLines
    /\ r = Is("Bounds")
    /\ UNCHANGED <<transport, received, torn, announced, popped, faults>>

CountLine == TakeLine /\ stdout < MaxLines /\ stdout' = stdout + 1

\* A malformed line, an answer nobody waits for, or one for another request.
Unmatched == Line.kind \in {"response", "error"} /\ \A k \in DOMAIN pending : pending[k].id # Line.id

ReadUnusable(r) ==
    /\ CountLine /\ (Line.kind = "junk" \/ Unmatched)
    /\ r = Is(IF Line.kind = "junk" THEN "Malformed" ELSE "Correlation")
    /\ ambiguous' = AmbiguousIfPending
    /\ UNCHANGED <<pending, notifications, initialized, next_id, frame, received, torn, announced, popped, faults>>

\* The answer to `initialize` is only good once the server has been told so.
ReadResponse(r) ==
    /\ CountLine /\ Line.kind = "response" /\ ~Unmatched
    /\ LET parsed == Parsed(pending[1], Line.result)
       IN IF parsed = "Initialized"
          THEN \E w \in Writes :
                  /\ WriteFails(w) /\ Leaves(w, {}) /\ frame' = None
                  /\ ambiguous' = (w.receipt = "PossiblyWritten")
                  /\ initialized' = (w.receipt = "Written")
                  /\ announced' = (announced \/ w.left = "whole")
                  /\ pending' = IF w.receipt = "Written" THEN <<>> ELSE pending
                  /\ r = Is(IF w.receipt = "Written" THEN parsed ELSE "Ambiguous")
          ELSE /\ r = Is(parsed)
               /\ ambiguous' = (parsed \in {"Malformed", "Correlation"})
               /\ pending' = IF ambiguous' THEN pending ELSE <<>>
               /\ UNCHANGED <<initialized, frame, received, torn, announced, faults>>
    /\ UNCHANGED <<notifications, next_id, popped>>

ReadNativeError(r) ==
    /\ CountLine /\ Line.kind = "error" /\ ~Unmatched
    /\ r = Is("Native") /\ ambiguous' = FALSE /\ pending' = <<>>
    /\ UNCHANGED <<notifications, initialized, next_id, frame, received, torn, announced, popped, faults>>

\* Mutant: the queue grows while a request is pending.
QueueFullNever == FALSE

QueueFull == Len(notifications) = MaxQueue

ReadNotification(r) ==
    /\ CountLine /\ Line.kind = "note"
    /\ IF ~initialized
       THEN r = Is("Correlation") /\ ambiguous' = AmbiguousIfPending /\ UNCHANGED <<notifications, popped>>
       ELSE IF pending = <<>>
       THEN r = Noted(Line.note) /\ popped' = Line.note.n /\ UNCHANGED <<notifications, ambiguous>>
       ELSE IF QueueFull
       THEN r = Is("Degraded") /\ UNCHANGED <<notifications, ambiguous, popped>>
       ELSE r = Is("again") /\ notifications' = Append(notifications, Line.note) /\ UNCHANGED <<ambiguous, popped>>
    /\ UNCHANGED <<pending, initialized, next_id, frame, received, torn, announced, faults>>

\* A request of the server is refused.  The refusal is encoded in the frame
\* buffer, where a prepared turn may lie.
ReadServerRequest(r) ==
    /\ CountLine /\ Line.kind = "request"
    /\ \/ /\ ambiguous /\ r = Is("Ambiguous")
          /\ UNCHANGED <<ambiguous, frame, received, torn, faults>>
       \/ /\ ~ambiguous /\ frame' = None
          /\ \E w \in Writes :
                /\ WriteFails(w) /\ Leaves(w, {}) /\ ambiguous' = AmbiguousAfterSend(w)
                /\ IF w.receipt = "ProvenNotWritten"
                   THEN r \in {Is("Closed")} \cup (IF SlowPipe /\ alive THEN {Is("Deadline")} ELSE {})
                   ELSE r = Is(IF w.receipt = "PossiblyWritten" THEN "Ambiguous"
                               ELSE IF pending = <<>> THEN "ServerRequestRejected" ELSE "again")
    /\ UNCHANGED <<pending, notifications, initialized, next_id, announced, popped>>

\* An answer that shows the thread idle makes it quiet, until a line is read.
Hears(r) ==
    quiet' = IF r.is = "Idle" THEN Line.result.turns = "settled"
             ELSE quiet /\ Len(inbound') = Len(inbound) /\ r.is # "Notification"

Outcomes == {"again", "Initialized", "ThreadStarted", "ThreadResumed", "TurnStarted", "Idle", "ActiveTurn",
             "Unproven", "ServerRequestRejected", "Bounds", "Malformed", "Correlation", "Ambiguous", "Deadline",
             "Closed", "Native", "Degraded"}
Ok(r) == r.is \in {"Initialized", "ThreadStarted", "ThreadResumed", "TurnStarted", "Idle", "ActiveTurn",
                   "Unproven", "ServerRequestRejected", "Notification"}

\* The results a step can have: every outcome, or the next notification.
Reads ==
    {Is(name) : name \in Outcomes} \cup
    {Noted(note) : note \in (IF notifications # <<>> THEN {notifications[1]} ELSE {}) \cup
                           (IF inbound # <<>> /\ inbound[1].kind = "note" THEN {inbound[1].note} ELSE {})}

Receive(r) ==
    /\ \/ PopQueued(r) \/ NoLine(r) \/ OverStdout(r) \/ ReadUnusable(r) \/ ReadResponse(r)
       \/ ReadNativeError(r) \/ ReadNotification(r) \/ ReadServerRequest(r)
    /\ Hears(r)
    /\ UNCHANGED server

-----------------------------------------------------------------------------
(* Creating and resuming.  `stopped` has no controller: the transport was   *)
(* dropped and its process reaped.                                         *)

Goes(place) == at' = place
NoLane == -1
KeepsCalls == UNCHANGED <<purpose, probed, epoch, lane, reconciling, response, turn>>

CreateEnds(answer) ==
    /\ Goes("stopped")
    /\ created' = IF purpose = "create" THEN answer ELSE "failed"

\* CodexTransport::start ends with `initialize`, id 1.
Start(w, why) ==
    /\ at = "down"
    /\ purpose' = why
    /\ WriteFails(w) /\ Leaves(w, {[id |-> 1, kind |-> "initialize"]})
    /\ ambiguous' = (w.receipt = "PossiblyWritten")
    /\ IF w.receipt = "Written"
       THEN /\ pending' = <<[id |-> 1, kind |-> "initialize"]>>
            /\ Goes("handshake") /\ UNCHANGED created
       ELSE /\ Goes("stopped") /\ UNCHANGED pending
            /\ created' = IF why = "create" THEN "notAccepted" ELSE "failed"
    /\ UNCHANGED <<notifications, initialized, next_id, frame, stdout, probed, epoch, lane, reconciling,
                   response, turn, observation, server, inbound, announced, written, facts, quiet, popped>>

Handshake(r) ==
    /\ at = "handshake" /\ Receive(r)
    /\ IF r.is = "again" THEN UNCHANGED <<at, created>>
       ELSE IF r.is = "Initialized" THEN Goes("attach") /\ UNCHANGED created
       ELSE CreateEnds("notAccepted")
    /\ KeepsCalls /\ UNCHANGED <<observation, written, facts>>

\* start_attached_thread or resume_thread; the helper may have been replaced.
Attach(w) ==
    /\ at = "attach"
    /\ \/ /\ MayRequest /\ alive
          /\ SendRequest(IF purpose = "create" THEN "thread/start" ELSE "thread/resume", w)
          /\ IF w.receipt = "Written" THEN Goes("creating") /\ UNCHANGED created
             ELSE IF w.receipt = "PossiblyWritten" /\ purpose = "create"
             THEN Goes("quarantined") /\ created' = "unknown"
             ELSE CreateEnds("notAccepted")
       \/ /\ w.receipt = "ProvenNotWritten"
          /\ CreateEnds("notAccepted")
          /\ UNCHANGED <<transport, pipes, server, quiet, popped, faults>>
    /\ KeepsCalls /\ UNCHANGED <<observation, written, facts>>

\* An exact thread is owned once its coordinate is sealed; until then it is kept.
Owned ==
    \/ Goes("free") /\ created' = "owned"
    \/ Goes("exact") /\ created' = "unknown"

Creating(r) ==
    /\ at = "creating" /\ Receive(r)
    /\ IF r.is = "again" THEN UNCHANGED <<at, created>>
       ELSE IF purpose = "create"
       THEN IF r.is = "ThreadStarted" THEN Owned
            ELSE IF r.is = "Native" THEN CreateEnds("notAccepted")
            ELSE Goes("quarantined") /\ created' = "unknown"
       ELSE IF r.is \in {"ThreadResumed", "Idle", "ActiveTurn", "Unproven"} THEN Goes("free") /\ created' = "owned"
       ELSE CreateEnds("failed")
    /\ KeepsCalls /\ UNCHANGED <<observation, written, facts>>

SettlesCreate(r) == r.is = "Native"

ReceiveLate(r) ==
    /\ at = "quarantined" /\ Receive(r)
    /\ IF r.is = "ThreadStarted" THEN Owned
       ELSE IF SettlesCreate(r) THEN CreateEnds("notAccepted")
       ELSE UNCHANGED <<at, created>>
    /\ KeepsCalls /\ UNCHANGED <<observation, written, facts>>

SealExact ==
    /\ at = "exact" /\ Goes("free") /\ created' = "owned"
    /\ KeepsCalls
    /\ UNCHANGED <<transport, observation, server, pipes, written, facts, quiet, popped, faults>>

-----------------------------------------------------------------------------
(* Probing: read all that is there, ask for the thread, read again.        *)

\* One read of drain_before_mutation: a line that was read moves the epoch.
Drains(r) ==
    /\ Receive(r)
    /\ epoch' = IF Ok(r) THEN epoch + 1 ELSE epoch

GoesOn(r) == Ok(r) \/ r.is = "again"

\* A birth has one attempt and an attempt one probe scope, which the probe takes.
Probe ==
    /\ at = "free" /\ ~probed
    /\ Goes("drain") /\ probed' = TRUE
    /\ UNCHANGED <<purpose, epoch, lane, reconciling, response, turn, transport, observation, server,
                   pipes, history, quiet, popped, faults>>

ProbeDrain(r) ==
    /\ at = "drain" /\ Drains(r)
    /\ IF GoesOn(r) THEN UNCHANGED at ELSE Goes(IF r.is = "Deadline" THEN "ask" ELSE "free")
    /\ UNCHANGED <<purpose, probed, lane, reconciling, response, turn, observation, history>>

AskThread(w) ==
    /\ at = "ask" /\ KeepsCalls
    /\ \/ /\ MayRequest /\ alive
          /\ SendRequest("thread/read", w)
          /\ Goes(IF w.receipt = "Written" THEN "await" ELSE "free")
       \/ /\ ~(MayRequest /\ alive) /\ w.receipt = "ProvenNotWritten" /\ Goes("free")
          /\ UNCHANGED <<transport, pipes, server, quiet, popped, faults>>
    /\ UNCHANGED <<observation, history>>

ReadThread(r) ==
    /\ at = "await" /\ Receive(r)
    /\ epoch' = IF r.is \in {"Notification", "ServerRequestRejected"} THEN epoch + 1 ELSE epoch
    /\ IF r.is \in {"Idle", "ActiveTurn", "Unproven"}
       THEN Goes("settle") /\ response' = [is |-> r.is, epoch |-> epoch]
       ELSE /\ UNCHANGED response
            /\ IF r.is \in {"again", "Notification", "ServerRequestRejected"} THEN UNCHANGED at ELSE Goes("free")
    /\ UNCHANGED <<purpose, probed, lane, reconciling, turn, observation, history>>

\* The lane is granted when nothing was read since an idle answer.
GrantsLane(r) == r.is = "Deadline" /\ epoch = response.epoch /\ response.is = "Idle"

ProbeSettles(r) ==
    /\ at = "settle" /\ Drains(r)
    /\ IF GoesOn(r) THEN UNCHANGED <<at, lane>>
       ELSE Goes("free") /\ lane' = IF GrantsLane(r) THEN epoch ELSE NoLane
    /\ UNCHANGED <<purpose, probed, reconciling, response, turn, observation, history>>

-----------------------------------------------------------------------------
(* Writing a reserved turn.                                                *)

\* The permit is presented with another lane, or the thread cannot be opened.
RefuseWrite ==
    /\ at = "free" /\ lane # NoLane /\ lane' = NoLane
    /\ UNCHANGED <<transport, at, purpose, probed, epoch, reconciling, response, turn,
                   observation, server, pipes, history, quiet, popped, faults>>

PrepareTurn ==
    /\ at = "free" /\ lane # NoLane /\ MayRequest /\ alive
    /\ next_id' = next_id + 1 /\ frame' = next_id /\ turn' = next_id
    /\ Goes("recheck")
    /\ UNCHANGED <<pending, notifications, ambiguous, initialized, stdout, purpose, probed, epoch, lane, reconciling, response,
                   observation, server, pipes, history, quiet, popped, faults>>

Answers(disposition) ==
    /\ written' = [written EXCEPT ![turn] = disposition]
    /\ lane' = NoLane /\ Goes("free")

\* Mutant: only an error of the drain stops the write.
EpochHoldsAlways == TRUE

EpochHolds == epoch = lane

\* The last drain: an error or a moved epoch discards the frame.
Recheck(r) ==
    /\ at = "recheck"
    /\ \/ GoesOn(r) /\ Drains(r) /\ UNCHANGED <<at, lane, written>>
       \/ r.is = "Deadline" /\ EpochHolds /\ Drains(r) /\ Goes("dispatch") /\ UNCHANGED <<lane, written>>
       \/ ~GoesOn(r) /\ ~(r.is = "Deadline" /\ EpochHolds) /\ Drains(r) /\ Answers("notAccepted")
    /\ UNCHANGED <<purpose, probed, reconciling, response, turn, observation, created, facts>>

\* The binding is no longer that of the birth, or its lease is over.
RefuseAtLastCheck ==
    /\ at = "dispatch" /\ frame' = None /\ Answers("notAccepted")
    /\ UNCHANGED <<pending, notifications, ambiguous, initialized, next_id, stdout, purpose, probed, epoch, reconciling,
                   response, turn, observation, server, pipes, created, facts, quiet, popped, faults>>

\* failed_write_disposition
Failed(w) == IF w.receipt = "ProvenNotWritten" THEN "notAccepted" ELSE "unknown"

Dispatch(w) ==
    /\ at = "dispatch" /\ WriteFails(w)
    /\ IF frame = None THEN UNCHANGED <<torn, received>> ELSE Leaves(w, {[id |-> frame, kind |-> "turn/start"]})
    /\ frame' = None
    /\ IF w.receipt = "ProvenNotWritten" THEN UNCHANGED <<pending, ambiguous>>
       ELSE /\ pending' = Append(pending, [id |-> turn, kind |-> "turn/start"])
            /\ ambiguous' = (w.receipt # "Written")
    /\ IF w.receipt = "Written" THEN Goes("answer") /\ UNCHANGED <<lane, written, reconciling>>
       ELSE /\ Answers(Failed(w))
            /\ reconciling' = IF Failed(w) = "unknown" THEN turn ELSE reconciling
    /\ UNCHANGED <<notifications, initialized, next_id, stdout, purpose, probed, epoch, response, turn, observation, server,
                   inbound, announced, created, facts, quiet, popped>>

\* Mutant: a closed stream or a malformed answer is taken for a refusal.
DispositionGuesses(r) ==
    IF r.is = "TurnStarted" THEN {"accepted", "unknown"}
    ELSE IF r.is \in {"Native", "Malformed", "Closed", "Ambiguous"} THEN {"notAccepted"} ELSE {"unknown"}

\* What the answer to a turn request says of the write; a turn that cannot be
\* sealed stays unknown.
Disposition(r) ==
    IF r.is = "TurnStarted" THEN {"accepted", "unknown"}
    ELSE IF r.is = "Native" THEN {"notAccepted"} ELSE {"unknown"}

ReadTurn(r) ==
    /\ at = "answer" /\ Receive(r)
    /\ IF r.is = "again" THEN UNCHANGED <<at, lane, written, reconciling>>
       ELSE \E disposition \in Disposition(r) :
               /\ Answers(disposition)
               /\ reconciling' = IF disposition = "unknown" THEN turn ELSE None
    /\ UNCHANGED <<purpose, probed, epoch, response, turn, observation, created, facts>>

-----------------------------------------------------------------------------
(* Observing and reconciling.                                              *)

Reports(i, fact) == facts' = facts \cup {[turn |-> i, fact |-> fact]}
Once(i, fact) ==
    /\ degraded_reported' = TRUE
    /\ IF degraded_reported THEN UNCHANGED facts ELSE Reports(i, fact)

\* poll_exact_observation up to its first read.
Poll(i) ==
    /\ at = "free" /\ written[i] = "accepted" /\ ~lost_reported
    /\ turn' = i
    /\ \/ /\ started_turn = i /\ pending_terminal # None
          /\ pending_terminal' = None
          /\ IF pending_terminal = i
             THEN terminal' = TRUE /\ Reports(i, "Terminal") /\ UNCHANGED degraded_reported
             ELSE Once(i, "Degraded") /\ UNCHANGED terminal
          /\ UNCHANGED at
       \/ /\ ~(started_turn = i /\ pending_terminal # None)
          /\ \/ Goes("poll") /\ UNCHANGED <<facts, degraded_reported>>
             \/ UNCHANGED at /\ Once(i, "Degraded")
          /\ UNCHANGED <<pending_terminal, terminal>>
    /\ UNCHANGED <<transport, purpose, probed, epoch, lane, reconciling, response, started_turn, lost_reported,
                   server, pipes, created, written, quiet, popped, faults>>

Ours(r, what) == r.is = "Notification" /\ r.note.what = what /\ r.note.turn = turn

HoldsTerminal == started_turn # turn

\* The loop of exact_notification: what each read does to the observation, and
\* whether it ends the call.
Observes(r) ==
    \/ /\ Ours(r, "started") /\ started_turn # turn
       /\ started_turn' = turn /\ Reports(turn, "Started") /\ Goes("free")
       /\ UNCHANGED <<pending_terminal, terminal, lost_reported, degraded_reported>>
    \/ /\ Ours(r, "terminal") /\ ~terminal /\ ~HoldsTerminal
       /\ terminal' = TRUE /\ Reports(turn, "Terminal") /\ Goes("free")
       /\ UNCHANGED <<started_turn, pending_terminal, lost_reported, degraded_reported>>
    \/ /\ Ours(r, "terminal") /\ ~terminal /\ HoldsTerminal
       /\ IF pending_terminal = None
          THEN pending_terminal' = turn /\ UNCHANGED <<at, facts, degraded_reported>>
          ELSE Once(turn, "Degraded") /\ Goes("free") /\ UNCHANGED pending_terminal
       /\ UNCHANGED <<started_turn, terminal, lost_reported>>
    \/ /\ Ours(r, "degraded") /\ Reports(turn, "Degraded") /\ Goes("free")
       /\ UNCHANGED observation
    \/ /\ \/ r.is = "again"
          \/ r.is = "Notification" /\ r.note.turn # turn
          \/ Ours(r, "signal")
          \/ Ours(r, "started") /\ started_turn = turn
          \/ Ours(r, "terminal") /\ terminal
       /\ UNCHANGED <<at, facts, observation>>
    \/ /\ r.is \in {"Closed", "Ambiguous"}
       /\ lost_reported' = TRUE /\ Reports(turn, "ControllerLost") /\ Goes("free")
       /\ UNCHANGED <<started_turn, pending_terminal, terminal, degraded_reported>>
    \/ /\ r.is = "Deadline" /\ Goes("free") /\ UNCHANGED <<facts, observation>>
    \/ /\ r.is \notin {"again", "Notification", "Closed", "Ambiguous", "Deadline"}
       /\ Once(turn, IF r.is = "Native" THEN "Unknown" ELSE "Degraded") /\ Goes("free")
       /\ UNCHANGED <<started_turn, pending_terminal, terminal, lost_reported>>

PollReads(r) ==
    /\ at = "poll" /\ Receive(r)
    /\ epoch' = IF r.is = "Notification" THEN epoch + 1 ELSE epoch
    /\ Observes(r)
    /\ UNCHANGED <<purpose, probed, lane, reconciling, response, turn, created, written>>

\* reconcile_exact of a write that is on record as unknown.
MayReconcile(i) == written[i] = "unknown" /\ reconciling \in {None, i}

Reconcile(i) ==
    /\ at = "free" /\ MayReconcile(i)
    /\ turn' = i /\ Goes("reconcile")
    /\ UNCHANGED <<transport, purpose, probed, epoch, lane, reconciling, response, observation,
                   server, pipes, history, quiet, popped, faults>>

ReconcileReads(r) ==
    /\ at = "reconcile" /\ Receive(r)
    /\ IF r.is = "again" THEN UNCHANGED <<at, written>>
       ELSE /\ Goes("free")
            /\ \E disposition \in Disposition(r) : written' = [written EXCEPT ![turn] = disposition]
    /\ UNCHANGED <<purpose, probed, epoch, lane, reconciling, response, turn, observation, created, facts>>

-----------------------------------------------------------------------------
(* The server: it answers a request once, runs and finishes turns, and      *)
(* sends notifications and requests of its own.                            *)

Turns == {q.id : q \in {q \in received : q.kind = "turn/start"}}
Running == (Turns \cap accepted) \ finished
Unanswered == {q \in received : q.id \notin accepted \cup refused}

\* What it says of the thread: the truth, or that another client's turn runs; a
\* faulty answer contradicts itself, names another thread or cannot be parsed.
Truths ==
    {[thread |-> "ours", status |-> "idle", flags |-> "absent", turns |-> "settled"] : x \in IF Running = {} THEN {1} ELSE {}}
    \cup {[thread |-> "ours", status |-> "active", flags |-> "known", turns |-> "one"]}
Faulty ==
    {[thread |-> "ours", status |-> "idle", flags |-> "absent", turns |-> "one"],
     [thread |-> "other", status |-> "idle", flags |-> "absent", turns |-> "settled"],
     [thread |-> "malformed", status |-> "none", flags |-> "absent", turns |-> "absent"]}

Pipe(line) == alive /\ Len(inbound) < MaxInbound /\ inbound' = Append(inbound, line)
ServerKeeps == UNCHANGED <<transport, controller, observation, history, received, torn, announced, quiet, popped>>

Accept(q) ==
    /\ q \in Unanswered
    /\ \E result \in Truths \cup Faulty :
          /\ Pipe([kind |-> "response", id |-> q.id, result |-> result])
          /\ IF result \in Faulty THEN Fault ELSE NoFault
    /\ accepted' = accepted \cup {q.id}
    /\ UNCHANGED <<refused, finished, alive, sent>> /\ ServerKeeps

Refuse(q) ==
    /\ q \in Unanswered
    /\ Pipe([kind |-> "error", id |-> q.id])
    /\ refused' = refused \cup {q.id}
    /\ UNCHANGED <<accepted, finished, alive, sent, faults>> /\ ServerKeeps

Finish(i) ==
    /\ i \in Running /\ alive
    /\ finished' = finished \cup {i}
    /\ UNCHANGED <<accepted, refused, alive, sent, inbound, faults>> /\ ServerKeeps

\* A notification of a turn of ours says what is true; of another turn, anything.
Notify(what, i) ==
    /\ sent < MaxNotes /\ sent' = sent + 1
    /\ what = "started" => i \in Turns \cap accepted \/ i = None
    /\ what \in {"terminal", "degraded"} => i \in finished \/ i = None
    /\ what = "signal" => i = None
    /\ Pipe([kind |-> "note", note |-> [n |-> sent + 1, what |-> what, turn |-> i]])
    /\ UNCHANGED <<accepted, refused, finished, alive, faults>> /\ ServerKeeps

Asks ==
    /\ sent < MaxNotes /\ sent' = sent + 1
    /\ Pipe([kind |-> "request"])
    /\ UNCHANGED <<accepted, refused, finished, alive, faults>> /\ ServerKeeps

\* A second answer to what was answered, garbage, or the end of the process.
Misbehaves ==
    /\ Fault
    /\ \/ \E i \in accepted \cup refused :
             /\ \A k \in DOMAIN pending : pending[k].id # i
             /\ Pipe([kind |-> "error", id |-> i]) /\ UNCHANGED alive
       \/ Pipe([kind |-> "junk"]) /\ UNCHANGED alive
       \/ alive /\ alive' = FALSE /\ UNCHANGED inbound
    /\ UNCHANGED <<accepted, refused, finished, sent>> /\ ServerKeeps

-----------------------------------------------------------------------------
Init ==
    /\ pending = <<>> /\ notifications = <<>> /\ ambiguous = FALSE /\ initialized = FALSE
    /\ next_id = 2 /\ frame = None /\ stdout = 0
    /\ at = "down" /\ purpose = "create" /\ probed = FALSE /\ epoch = 0 /\ lane = NoLane /\ reconciling = None
    /\ response = [is |-> "Unproven", epoch |-> 0] /\ turn = None
    /\ started_turn = None /\ pending_terminal = None
    /\ terminal = FALSE /\ lost_reported = FALSE /\ degraded_reported = FALSE
    /\ inbound = <<>> /\ received = {} /\ torn = FALSE /\ announced = FALSE
    /\ accepted = {} /\ refused = {} /\ finished = {} /\ alive = TRUE /\ sent = 0
    /\ created = "none" /\ written = [i \in Ids |-> "none"] /\ facts = {}
    /\ quiet = FALSE /\ popped = 0 /\ faults = 0

Calls ==
    \/ \E w \in Writes : \/ \E why \in {"create", "resume"} : Start(w, why)
                         \/ Attach(w) \/ AskThread(w) \/ Dispatch(w)
    \/ SealExact \/ Probe \/ RefuseWrite \/ PrepareTurn \/ RefuseAtLastCheck
    \/ \E i \in Ids : Poll(i) \/ Reconcile(i)

ReadSteps ==
    \E r \in Reads :
       \/ Handshake(r) \/ Creating(r) \/ ReceiveLate(r)
       \/ ProbeDrain(r) \/ ReadThread(r) \/ ProbeSettles(r)
       \/ Recheck(r) \/ ReadTurn(r) \/ PollReads(r) \/ ReconcileReads(r)

ServerSteps ==
    \/ \E q \in received : Accept(q) \/ Refuse(q)
    \/ \E i \in accepted : Finish(i)
    \/ \E what \in {"signal", "started", "terminal", "degraded"}, i \in accepted \cup {None} : Notify(what, i)
    \/ Asks \/ Misbehaves

Next == Calls \/ ReadSteps \/ ServerSteps
Spec == Init /\ [][Next]_vars

-----------------------------------------------------------------------------
Dispositions == {"none", "accepted", "notAccepted", "unknown"}
Places == {"down", "handshake", "attach", "creating", "quarantined", "exact", "free", "drain", "ask", "await", "settle",
           "recheck", "dispatch", "answer", "poll", "reconcile", "stopped"}

\* Types, and what single flight means to the queues.
TypeOK ==
    /\ pending \in Seq(Requests) /\ Len(pending) <= 1
    /\ notifications \in Seq(Notifications) /\ Len(notifications) <= MaxQueue
    /\ next_id \in 2..MaxId + 1 /\ frame \in Ids \cup {None} /\ stdout \in 0..MaxLines
    /\ {ambiguous, initialized, torn, alive, announced, quiet, terminal, lost_reported, degraded_reported} \subseteq BOOLEAN
    /\ at \in Places /\ lane \in -1..epoch
    /\ inbound \in Seq(Lines) /\ received \subseteq Requests
    /\ written \in [Ids -> Dispositions]
    /\ created \in {"none", "owned", "unknown", "notAccepted", "failed"}

\* What the controller calls not accepted never runs: the thread or the turn was
\* refused, or the server has not got the request and never will.
NotAcceptedTruthful ==
    \A q \in received :
       \/ q.id \in refused
       \/ ~(q.kind = "turn/start" /\ written[q.id] = "notAccepted")
          /\ ~(q.kind = "thread/start" /\ created = "notAccepted")

\* What is called accepted, started or terminal is so at the server, however the
\* answers and notifications were delayed, reordered or repeated; a terminal is
\* reported of a turn whose start was.
PositiveTruthful ==
    /\ \A i \in Ids : written[i] = "accepted" => i \in Turns \cap accepted
    /\ \A f \in facts :
          /\ f.fact \in {"Started", "Terminal"} => f.turn \in accepted
          /\ f.fact = "Terminal" => f.turn \in finished /\ [f EXCEPT !.fact = "Started"] \in facts

\* The server holds at most one request it has not answered, the pending one or
\* one whose write failed, behind which nothing is written any more; and nothing
\* but `initialize` before it was told of the end of the handshake.
SingleFlight ==
    /\ at # "stopped" => \A q \in Unanswered : IF pending = <<>> THEN ambiguous ELSE pending[1] = q
    /\ \A q \in received : q.kind = "initialize" \/ announced

\* The bytes that are about to leave are those of the turn that was prepared,
\* and they begin a line: no server request read in between took the frame
\* buffer or left a torn refusal on the wire.
DispatchIntact == at = "dispatch" => frame = turn /\ ~torn /\ ~ambiguous /\ pending = <<>>

\* A turn is only dispatched into a thread the server called idle, with nothing
\* read from it since, and while no turn of ours runs or may start.
DispatchAlone == at = "dispatch" => quiet /\ Running = {} /\ Turns \cap {q.id : q \in Unanswered} = {}

\* Notifications come out in the order the server sent them, none twice.
NotesInOrder ==
    LET queued == [k \in DOMAIN notifications |-> notifications[k].n]
        piped == {k \in DOMAIN inbound : inbound[k].kind = "note"}
    IN /\ \A k \in DOMAIN queued : queued[k] > popped /\ \A l \in DOMAIN queued : k < l => queued[k] < queued[l]
       /\ \A k \in piped : inbound[k].note.n > popped /\ \A l \in DOMAIN queued : queued[l] < inbound[k].note.n

\* A lane is granted to a thread that has been silent since its idle answer.
LaneQuiet == at = "free" /\ lane = epoch => quiet

\* What the controller says of a create, a write or a turn is so at the server.
AnswersTruthful == NotAcceptedTruthful /\ PositiveTruthful

\* At the last moment before the bytes leave, they are the prepared turn and the
\* thread is free for it.
DispatchSafe == DispatchIntact /\ DispatchAlone
=============================================================================
