------------------------- MODULE CodexTransportProofs -------------------------
(***************************************************************************)
(* Proofs about the transport and the controller calls over it, for any    *)
(* number of requests, queue and stream limits, notifications and faults.  *)
(*                                                                         *)
(* The argument rests on what an answer can be an answer to: ids are       *)
(* fresh, at most one request is out, and a line that names the pending    *)
(* request was sent for it.  A controller has one probe and one lane; as   *)
(* long as it is fresh no turn was ever written, and once a turn is on     *)
(* record it is the only one.                                              *)
(***************************************************************************)
EXTENDS CodexTransport, TLAPS

(* The inductive invariant. *)

ReceivedIds == {q.id : q \in received}

\* What the state variables without a type of their own range over.
RangeInv ==
    /\ epoch \in Nat /\ sent \in Nat /\ popped \in 0..sent /\ faults \in Nat
    /\ purpose \in {"create", "resume"}
    /\ turn \in Ids \cup {None}
    /\ at \in {"recheck", "dispatch", "answer", "poll", "reconcile"} => turn \in Ids
    /\ accepted \subseteq ReceivedIds /\ refused \subseteq ReceivedIds /\ finished \subseteq accepted

\* Ids are fresh, and one request is out at most.
FlightInv ==
    /\ \A q \in received : q.id < next_id
    /\ \A k \in DOMAIN pending :
           /\ pending[k].id < next_id
           /\ pending[k].id \in ReceivedIds => pending[k] \in received
    /\ SingleFlight
    /\ initialized => announced
    /\ at \notin {"down", "handshake", "stopped"} => initialized

\* A line that names the pending request was sent for it.
LineTrue(line) ==
    /\ line.kind = "response" => line.id \in accepted
    /\ line.kind = "error" =>
           /\ line.id \in accepted \cup refused
           /\ line.id \in refused \/ \A k \in DOMAIN pending : pending[k].id # line.id
LinesInv == \A k \in DOMAIN inbound : LineTrue(inbound[k])

\* Which request is out where, up to the end of the create.
CreateInv ==
    /\ at = "down" => received = {} /\ pending = <<>>
    /\ \A k \in DOMAIN pending : pending[k].kind = "initialize" => at \in {"handshake", "stopped"}
    /\ at \in {"down", "handshake", "attach"} => \A q \in received : q.kind = "initialize"
    /\ at \in {"creating", "quarantined"} =>
           \A q \in received : q.kind = "thread/start" => pending = <<>> \/ q = pending[1]
    /\ created = "notAccepted" => at = "stopped"
    /\ at \in {"down", "handshake", "attach", "creating", "quarantined", "exact"} => ~probed

\* No turn was written, and none is on record.
Fresh ==
    \/ ~probed
    \/ at \in {"drain", "ask", "await", "settle"}
    \/ lane # NoLane /\ at # "answer"

\* One controller writes one turn.
WriteInv ==
    /\ lane # NoLane => probed
    /\ at \in {"drain", "ask", "await", "settle"} => probed
    /\ at \in {"recheck", "dispatch", "answer"} => lane # NoLane
    /\ Fresh => /\ \A q \in received : q.kind # "turn/start"
                /\ \A k \in DOMAIN pending : pending[k].kind # "turn/start"
    /\ Fresh \/ at = "answer" => \A i \in Ids : written[i] = "none"
    /\ at \in {"recheck", "dispatch"} =>
           /\ turn \notin ReceivedIds /\ turn < next_id /\ frame \in {None, turn}
           /\ pending = <<>> /\ ~ambiguous
    /\ at = "answer" => /\ pending = <<[id |-> turn, kind |-> "turn/start"]>>
                        /\ \A q \in received : q.kind = "turn/start" => q.id = turn
    /\ at = "poll" => written[turn] = "accepted"
    /\ at = "reconcile" => written[turn] = "unknown"
    /\ \A i, j \in Ids : written[i] # "none" /\ written[j] # "none" => i = j
    /\ \A i \in Ids : written[i] # "none" =>
           /\ \A k \in DOMAIN pending : pending[k].kind = "turn/start" /\ pending[k].id = i /\ written[i] = "unknown"
           /\ \A q \in received : q.kind = "turn/start" => q.id = i

\* From the idle answer to the write nothing is read, unless a refusal is slow.
SilenceInv ==
    /\ at \in {"drain", "ask", "await", "settle"} => lane = NoLane
    /\ at = "await" => ~torn /\ ~ambiguous /\ pending # <<>>
    /\ at = "settle" => /\ ~torn /\ ~ambiguous /\ pending = <<>>
                        /\ response.epoch \in 0..epoch
                        /\ ~SlowPipe /\ response.is = "Idle" /\ response.epoch = epoch => quiet
    /\ lane # NoLane /\ at \in {"free", "recheck", "dispatch"} =>
           /\ ~torn /\ ~ambiguous /\ pending = <<>>
           /\ ~SlowPipe /\ epoch = lane => quiet
    /\ at = "recheck" /\ ~SlowPipe /\ epoch = lane => frame = turn
    /\ at = "dispatch" => epoch = lane /\ (~SlowPipe => frame = turn)

\* Notifications are numbered as they are sent: what is queued was sent before
\* what is in the pipe, and says what is so.
NoteTrue(note) ==
    /\ note.what = "started" => note.turn \in accepted \cup {None}
    /\ note.what \in {"terminal", "degraded"} => note.turn \in finished \cup {None}

IsNote(line) == line.kind = "note"
QueueInv ==
    /\ \A k \in DOMAIN notifications : notifications[k].n \in (popped + 1)..sent /\ NoteTrue(notifications[k])
    /\ \A k, l \in DOMAIN notifications : k < l => notifications[k].n < notifications[l].n
PipeInv ==
    /\ \A k \in DOMAIN inbound :
           IsNote(inbound[k]) => inbound[k].note.n \in (popped + 1)..sent /\ NoteTrue(inbound[k].note)
    /\ \A k, l \in DOMAIN inbound :
           k < l /\ IsNote(inbound[k]) /\ IsNote(inbound[l]) => inbound[k].note.n < inbound[l].note.n
    /\ \A k \in DOMAIN notifications, l \in DOMAIN inbound :
           IsNote(inbound[l]) => notifications[k].n < inbound[l].note.n

\* What is on record of a turn is so.
RecordInv ==
    /\ AnswersTruthful
    /\ started_turn # None => [turn |-> started_turn, fact |-> "Started"] \in facts
    /\ pending_terminal # None => pending_terminal \in finished

Inv == /\ TypeOK /\ RangeInv /\ FlightInv /\ LinesInv /\ CreateInv /\ WriteInv /\ SilenceInv
       /\ QueueInv /\ PipeInv /\ RecordInv

-----------------------------------------------------------------------------
(* What a read may do. *)

Pend == pending[1]

LEMMA OneLong ==
    ASSUME NEW S, NEW q \in Seq(S), q # <<>>, Len(q) <= 1
    PROVE  Len(q) = 1 /\ DOMAIN q = {1} /\ q[1] \in S /\ q = <<q[1]>>
<1>1. Len(q) \in Nat /\ Len(q) # 0
  OBVIOUS
<1>2. Len(q) = 1
  BY <1>1
<1> QED BY <1>2

LEMMA PendingIsOne ==
    ASSUME TypeOK, pending # <<>>
    PROVE  /\ Len(pending) = 1 /\ DOMAIN pending = {1} /\ Pend \in Requests
           /\ pending = <<Pend>>
<1>1. pending \in Seq(Requests) /\ Len(pending) <= 1
  BY DEF TypeOK
<1> QED BY <1>1, OneLong DEF Pend

\* An answer that matches is one to the pending request.
LEMMA Matches ==
    ASSUME TypeOK, Line.kind \in {"response", "error"}, ~Unmatched
    PROVE  pending # <<>> /\ Pend.id = Line.id
BY PendingIsOne DEF Unmatched, TypeOK

LEMMA LineForms ==
    ASSUME NEW line \in Lines
    PROVE  /\ line.kind \in {"response", "error", "note", "request", "junk"}
           /\ line.kind = "response" => line.id \in Ids /\ line.result \in Results
           /\ line.kind = "error" => line.id \in Ids
           /\ line.kind = "note" => line.note \in Notifications
BY DEF Lines

LEMMA LineIsOne ==
    ASSUME TypeOK, inbound # <<>>
    PROVE  1 \in DOMAIN inbound /\ Line \in Lines
BY DEF TypeOK, Line

\* What a read leaves of the request that is out, and what its answer proves.
AnswerTaken == pending # <<>> /\ pending' = <<>> /\ ~ambiguous'
ReadEffect(r) ==
    /\ UNCHANGED <<next_id, received, server>>
    /\ pending' \in {pending, <<>>}
    /\ pending' # pending => Pend.id \in accepted \cup refused
    /\ pending = <<>> /\ ambiguous => ambiguous'
    /\ announced => announced'
    /\ initialized' # initialized => pending # <<>> /\ Pend.kind = "initialize"
    /\ initialized' => initialized \/ announced'
    /\ r.is = "Initialized" => initialized' /\ pending' = <<>>
    /\ r.is = "again" => pending' = pending
    /\ r.is = "Native" => AnswerTaken /\ Pend.id \in refused
    /\ r.is = "TurnStarted" => AnswerTaken /\ Pend.kind = "turn/start" /\ Pend.id \in accepted
    /\ r.is = "ThreadStarted" => AnswerTaken /\ Pend.kind = "thread/start" /\ Pend.id \in accepted

LEMMA ParsedForms ==
    ASSUME NEW p \in Requests, NEW result
    PROVE  /\ Parsed(p, result) \in {"Initialized", "Malformed", "ThreadStarted", "TurnStarted", "Correlation",
                                     "ThreadResumed", "Idle", "ActiveTurn", "Unproven"}
           /\ Parsed(p, result) = "Initialized" <=> p.kind = "initialize"
           /\ Parsed(p, result) = "TurnStarted" => p.kind = "turn/start"
           /\ Parsed(p, result) = "ThreadStarted" => p.kind = "thread/start"
           /\ Parsed(p, result) = "Idle" => result.turns = "settled"
BY DEF Parsed, ThreadState, Requests

LEMMA ReadHasEffect ==
    ASSUME TypeOK, LinesInv, NEW r, Receive(r)
    PROVE  ReadEffect(r)
<1>1. UNCHANGED server
  BY DEF Receive
<1>2. CASE PopQueued(r)
  BY <1>1, <1>2 DEF PopQueued, ReadEffect, Noted, pipes
<1>3. CASE NoLine(r)
  BY <1>1, <1>3 DEF NoLine, ReadEffect, Is, AmbiguousIfPending
<1>4. CASE OverStdout(r)
  BY <1>1, <1>4 DEF OverStdout, ReadEffect, Is, transport
<1>5. CASE ReadUnusable(r)
  BY <1>1, <1>5 DEF ReadUnusable, ReadEffect, Is, AmbiguousIfPending
<1>6. CASE ReadResponse(r)
  <2>1. pending # <<>> /\ Pend.id = Line.id /\ Line.kind = "response"
    BY <1>6, Matches DEF ReadResponse
  <2>2. Pend.id \in accepted /\ Pend \in Requests
    BY <1>6, <2>1, LineIsOne, PendingIsOne DEF ReadResponse, CountLine, TakeLine, LinesInv, LineTrue, Line
  <2> DEFINE parsed == Parsed(Pend, Line.result)
  <2>3. /\ parsed \in {"Initialized", "Malformed", "ThreadStarted", "TurnStarted", "Correlation",
                       "ThreadResumed", "Idle", "ActiveTurn", "Unproven"}
        /\ parsed = "Initialized" => Pend.kind = "initialize"
        /\ parsed = "TurnStarted" => Pend.kind = "turn/start"
        /\ parsed = "ThreadStarted" => Pend.kind = "thread/start"
    BY <2>2, ParsedForms
  <2>4. CASE parsed = "Initialized"
    <3>1. PICK w \in Writes :
              /\ WriteFails(w) /\ Leaves(w, {}) /\ frame' = None
              /\ ambiguous' = (w.receipt = "PossiblyWritten")
              /\ initialized' = (w.receipt = "Written")
              /\ announced' = (announced \/ w.left = "whole")
              /\ pending' = IF w.receipt = "Written" THEN <<>> ELSE pending
              /\ r = Is(IF w.receipt = "Written" THEN "Initialized" ELSE "Ambiguous")
      BY <1>6, <2>4 DEF ReadResponse, Pend
    <3>2. w.receipt = "Written" => w.left = "whole"
      BY DEF Writes
    <3>3. received' = received /\ next_id' = next_id
      BY <1>6, <3>1 DEF ReadResponse, Leaves
    <3>4. r.is \in {"Initialized", "Ambiguous"} /\ (r.is = "Initialized" <=> w.receipt = "Written")
      BY <3>1 DEF Is
    <3>5. announced => announced'
      BY <3>1
    <3>6. initialized' => announced'
      BY <3>1, <3>2
    <3> QED BY <1>1, <2>1, <2>2, <2>3, <2>4, <3>1, <3>3, <3>4, <3>5, <3>6 DEF ReadEffect
  <2>5. CASE parsed # "Initialized"
    <3>1. /\ r = Is(parsed)
          /\ ambiguous' = (parsed \in {"Malformed", "Correlation"})
          /\ pending' = IF ambiguous' THEN pending ELSE <<>>
          /\ UNCHANGED <<initialized, received, announced, next_id>>
      BY <1>6, <2>5 DEF ReadResponse, Pend
    <3>2. r.is = parsed
      BY <3>1 DEF Is
    <3>3. CASE parsed \in {"Malformed", "Correlation"}
      BY <1>1, <2>1, <2>2, <3>1, <3>2, <3>3 DEF ReadEffect
    <3>4. CASE parsed \notin {"Malformed", "Correlation"}
      <4>1. ~ambiguous' /\ pending' = <<>>
        BY <3>1, <3>4
      <4> QED BY <1>1, <2>1, <2>2, <2>3, <2>5, <3>1, <3>2, <4>1 DEF ReadEffect, AnswerTaken
    <3> QED BY <3>3, <3>4
  <2> QED BY <2>4, <2>5
<1>7. CASE ReadNativeError(r)
  <2>1. pending # <<>> /\ Pend.id = Line.id /\ Line.kind = "error"
    BY <1>7, Matches DEF ReadNativeError
  <2>2. Pend.id \in refused
    BY <1>7, <2>1, LineIsOne, PendingIsOne DEF ReadNativeError, CountLine, TakeLine, LinesInv, LineTrue, Line, Pend
  <2>3. r.is = "Native" /\ ~ambiguous' /\ pending' = <<>>
    BY <1>7 DEF ReadNativeError, Is
  <2>4. UNCHANGED <<next_id, received, announced, initialized>>
    BY <1>7 DEF ReadNativeError
  <2> QED BY <1>1, <2>1, <2>2, <2>3, <2>4 DEF ReadEffect, AnswerTaken
<1>8. CASE ReadNotification(r)
  <2>1. UNCHANGED <<pending, initialized, next_id, received, announced>>
    BY <1>8 DEF ReadNotification
  <2>2. ambiguous => ambiguous'
    BY <1>8 DEF ReadNotification, AmbiguousIfPending
  <2>3. r.is \in {"Correlation", "Notification", "Degraded", "again"}
    BY <1>8 DEF ReadNotification, Is, Noted
  <2> QED BY <1>1, <2>1, <2>2, <2>3 DEF ReadEffect
<1>9. CASE ReadServerRequest(r)
  <2>1. UNCHANGED <<pending, initialized, next_id, received, announced>>
    BY <1>9 DEF ReadServerRequest, Leaves
  <2>2. ambiguous => ambiguous'
    BY <1>9 DEF ReadServerRequest
  <2>3. r.is \in {"Ambiguous", "Closed", "Deadline", "ServerRequestRejected", "again"}
    BY <1>9 DEF ReadServerRequest, Is
  <2> QED BY <1>1, <2>1, <2>2, <2>3 DEF ReadEffect
<1> QED BY <1>2, <1>3, <1>4, <1>5, <1>6, <1>7, <1>8, <1>9 DEF Receive

\* What is not yet spoiled stays so: a read that does not fail leaves a clean wire,
\* and a deadline with nothing out has read nothing, unless a refusal was slow.
ReadSilence(r) ==
    /\ r.is \in {"Idle", "ActiveTurn", "Unproven"} =>
           AnswerTaken /\ torn' = torn /\ (r.is = "Idle" => quiet')
    /\ ~ambiguous /\ ~torn =>
           \/ r.is \notin {"again", "Notification", "ServerRequestRejected"} /\ (r.is = "Deadline" => pending # <<>>)
           \/ pending' = pending /\ ~ambiguous' /\ ~torn'
    /\ pending = <<>> => r.is # "again"
    /\ pending = <<>> /\ r.is = "Deadline" /\ ~SlowPipe => (quiet => quiet') /\ frame' = frame
    /\ frame' \in {None, frame}

LEMMA ReadIsSilent ==
    ASSUME TypeOK, NEW r, Receive(r)
    PROVE  ReadSilence(r)
<1>1. Hears(r)
  BY DEF Receive
<1>2. CASE PopQueued(r)
  <2>1. r.is = "Notification" /\ pending = <<>>
    BY <1>2 DEF PopQueued, Noted
  <2> QED BY <1>2, <2>1 DEF PopQueued, ReadSilence, pipes
<1>3. CASE NoLine(r)
  <2>1. /\ UNCHANGED <<pending, torn, frame>> /\ ambiguous' = AmbiguousIfPending
        /\ r.is \in {"Ambiguous", "Deadline", "Closed"}
        /\ r.is = "Deadline" => pending = <<>>
    BY <1>3 DEF NoLine, Is
  <2>2. Len(inbound') = Len(inbound)
    BY <1>3 DEF NoLine, TypeOK
  <2> QED BY <1>1, <2>1, <2>2 DEF ReadSilence, Hears, AmbiguousIfPending
<1>4. CASE OverStdout(r)
  BY <1>4 DEF OverStdout, ReadSilence, Is, transport
<1>5. CASE ReadUnusable(r)
  BY <1>5 DEF ReadUnusable, ReadSilence, Is
<1>6. CASE ReadResponse(r)
  <2>1. pending # <<>> /\ Pend \in Requests
    BY <1>6, Matches, PendingIsOne DEF ReadResponse
  <2> DEFINE parsed == Parsed(Pend, Line.result)
  <2>2. /\ parsed \in {"Initialized", "Malformed", "ThreadStarted", "TurnStarted", "Correlation",
                       "ThreadResumed", "Idle", "ActiveTurn", "Unproven"}
        /\ parsed = "Idle" => Line.result.turns = "settled"
    BY <2>1, ParsedForms
  <2>3. CASE parsed = "Initialized"
    <3>1. r.is \in {"Initialized", "Ambiguous"} /\ frame' = None
      BY <1>6, <2>3 DEF ReadResponse, Pend, Is
    <3> QED BY <2>1, <3>1 DEF ReadSilence
  <2>4. CASE parsed # "Initialized"
    <3>0. /\ r = Is(parsed)
          /\ ambiguous' = (parsed \in {"Malformed", "Correlation"})
          /\ pending' = IF ambiguous' THEN pending ELSE <<>>
          /\ UNCHANGED <<frame, torn>>
      BY <1>6, <2>4 DEF ReadResponse, Pend
    <3>1. /\ r.is = parsed /\ UNCHANGED <<frame, torn>>
          /\ parsed \notin {"Malformed", "Correlation"} => ~ambiguous' /\ pending' = <<>>
      BY <3>0 DEF Is
    <3>2. r.is = "Idle" => quiet'
      BY <1>1, <2>2, <3>1 DEF Hears
    <3> QED BY <2>1, <2>2, <3>1, <3>2 DEF ReadSilence, AnswerTaken
  <2> QED BY <2>3, <2>4
<1>7. CASE ReadNativeError(r)
  <2>1. pending # <<>>
    BY <1>7, Matches DEF ReadNativeError
  <2> QED BY <1>7, <2>1 DEF ReadNativeError, ReadSilence, Is
<1>8. CASE ReadNotification(r)
  <2>1. UNCHANGED <<pending, torn, frame>>
    BY <1>8 DEF ReadNotification
  <2>2. /\ r.is \in {"Correlation", "Notification", "Degraded", "again"}
        /\ r.is \in {"again", "Notification"} => ambiguous' = ambiguous
        /\ r.is = "again" => pending # <<>>
    BY <1>8 DEF ReadNotification, Is, Noted
  <2> QED BY <2>1, <2>2 DEF ReadSilence
<1>9. CASE ReadServerRequest(r)
  <2>1. CASE ambiguous
    BY <1>9, <2>1 DEF ReadServerRequest, ReadSilence, Is
  <2>2. CASE ~ambiguous
    <3>1. PICK w \in Writes :
              /\ Leaves(w, {}) /\ ambiguous' = AmbiguousAfterSend(w)
              /\ IF w.receipt = "ProvenNotWritten"
                 THEN r \in {Is("Closed")} \cup (IF SlowPipe /\ alive THEN {Is("Deadline")} ELSE {})
                 ELSE r = Is(IF w.receipt = "PossiblyWritten" THEN "Ambiguous"
                             ELSE IF pending = <<>> THEN "ServerRequestRejected" ELSE "again")
      BY <1>9, <2>2 DEF ReadServerRequest
    <3>2. pending' = pending /\ frame' = None
      BY <1>9, <2>2 DEF ReadServerRequest
    <3>3. CASE w.receipt = "ProvenNotWritten"
      <4>1. w.left = "nothing"
        BY <3>3 DEF Writes
      <4>2. r.is \in {"Closed", "Deadline"} /\ (r.is = "Deadline" => SlowPipe)
        BY <3>1, <3>3 DEF Is
      <4>3. torn' = torn /\ ~ambiguous'
        BY <2>2, <3>1, <3>3, <4>1 DEF Leaves, AmbiguousAfterSend
      <4> QED BY <3>2, <4>2, <4>3 DEF ReadSilence
    <3>4. CASE w.receipt = "PossiblyWritten"
      BY <3>1, <3>2, <3>4 DEF ReadSilence, Is
    <3>5. CASE w.receipt = "Written"
      <4>1. w.left = "whole"
        BY <3>5 DEF Writes
      <4>2. ~torn' /\ ~ambiguous'
        BY <2>2, <3>1, <3>5, <4>1 DEF Leaves, AmbiguousAfterSend
      <4>3. r.is = IF pending = <<>> THEN "ServerRequestRejected" ELSE "again"
        BY <3>1, <3>5 DEF Is
      <4> QED BY <3>2, <4>2, <4>3 DEF ReadSilence
    <3> QED BY <3>3, <3>4, <3>5 DEF Writes
  <2> QED BY <2>1, <2>2
<1> QED BY <1>2, <1>3, <1>4, <1>5, <1>6, <1>7, <1>8, <1>9 DEF Receive

\* An answer is only returned when a request was out.
LEMMA ReadAnswers ==
    ASSUME TypeOK, NEW r, Receive(r),
           r.is \in {"Initialized", "ThreadStarted", "ThreadResumed", "TurnStarted", "Idle", "ActiveTurn", "Unproven",
                    "Native"}
    PROVE  pending # <<>>
<1>1. CASE ReadResponse(r) \/ ReadNativeError(r)
  BY <1>1, Matches DEF ReadResponse, ReadNativeError
<1>2. CASE PopQueued(r) \/ NoLine(r) \/ OverStdout(r) \/ ReadUnusable(r)
  BY <1>2 DEF PopQueued, NoLine, OverStdout, ReadUnusable, Is, Noted
<1>3. CASE ReadNotification(r)
  BY <1>3 DEF ReadNotification, Is, Noted
<1>4. CASE ReadServerRequest(r)
  BY <1>4 DEF ReadServerRequest, Is
<1> QED BY <1>1, <1>2, <1>3, <1>4 DEF Receive

\* What a read does to the queue and the pipe.
Popped(r) ==
    /\ notifications # <<>> /\ notifications' = Tail(notifications)
    /\ popped' = Head(notifications).n /\ r = Noted(Head(notifications))
    /\ inbound' = inbound
Spoiled == inbound # <<>> /\ inbound' = [inbound EXCEPT ![1] = [kind |-> "junk"]]
Taken == inbound # <<>> /\ inbound' = Tail(inbound)
Passed(r) ==
    /\ notifications = <<>> /\ Taken /\ Line.kind = "note"
    /\ popped' = Line.note.n /\ r = Noted(Line.note) /\ notifications' = notifications
Queued ==
    /\ Taken /\ Line.kind = "note" /\ Len(notifications) # MaxQueue
    /\ notifications' = Append(notifications, Line.note) /\ popped' = popped
ReadQueues(r) ==
    \/ Popped(r)
    \/ Passed(r)
    \/ r.is # "Notification" /\ Queued
    \/ /\ r.is # "Notification"
       /\ UNCHANGED <<notifications, popped>>
       /\ UNCHANGED inbound \/ Spoiled \/ Taken

LEMMA ReadMovesQueues ==
    ASSUME TypeOK, NEW r, Receive(r)
    PROVE  ReadQueues(r)
<1>1. CASE PopQueued(r)
  BY <1>1 DEF PopQueued, ReadQueues, Popped, pipes
<1>2. CASE NoLine(r)
  BY <1>2 DEF NoLine, ReadQueues, Spoiled, Is
<1>3. CASE OverStdout(r)
  BY <1>3 DEF OverStdout, TakeLine, ReadQueues, Taken, Is, transport
<1>4. CASE ReadUnusable(r)
  BY <1>4 DEF ReadUnusable, CountLine, TakeLine, ReadQueues, Taken, Is
<1>5. CASE ReadResponse(r)
  <2>1. Taken /\ UNCHANGED <<notifications, popped>>
    BY <1>5 DEF ReadResponse, CountLine, TakeLine, Taken
  <2>2. pending # <<>> /\ Pend \in Requests
    BY <1>5, Matches, PendingIsOne DEF ReadResponse
  <2>3. r.is \in {"Initialized", "Ambiguous"} \/ r.is = Parsed(Pend, Line.result)
    BY <1>5 DEF ReadResponse, Is, Pend
  <2>4. r.is # "Notification"
    BY <2>2, <2>3, ParsedForms
  <2> QED BY <2>1, <2>4 DEF ReadQueues
<1>6. CASE ReadNativeError(r)
  BY <1>6 DEF ReadNativeError, CountLine, TakeLine, ReadQueues, Taken, Is
<1>7. CASE ReadNotification(r)
  <2>1. Taken /\ Line.kind = "note"
    BY <1>7 DEF ReadNotification, CountLine, TakeLine, Taken
  <2>2. CASE pending = <<>> /\ initialized
    <3>1. notifications = <<>>
      BY <1>7, <2>2 DEF ReadNotification, CountLine, TakeLine, ReadsLine
    <3> QED BY <1>7, <2>1, <2>2, <3>1 DEF ReadNotification, ReadQueues, Passed
  <2>3. CASE ~(pending = <<>> /\ initialized)
    BY <1>7, <2>1, <2>3 DEF ReadNotification, ReadQueues, Queued, QueueFull, Is
  <2> QED BY <2>2, <2>3
<1>8. CASE ReadServerRequest(r)
  <2>1. Taken /\ UNCHANGED <<notifications, popped>>
    BY <1>8 DEF ReadServerRequest, CountLine, TakeLine, Taken
  <2>2. r.is # "Notification"
    BY <1>8 DEF ReadServerRequest, Is
  <2> QED BY <2>1, <2>2 DEF ReadQueues
<1> QED BY <1>1, <1>2, <1>3, <1>4, <1>5, <1>6, <1>7, <1>8 DEF Receive

-----------------------------------------------------------------------------
(* Who moves what. *)

\* A call writes; only a read or the server touches the queues and the server's side.
LEMMA CallsKeep ==
    ASSUME Calls
    PROVE  UNCHANGED <<notifications, popped, inbound, server, quiet>>
<1>1. ASSUME NEW w, NEW kind, SendRequest(kind, w) PROVE UNCHANGED <<notifications, popped, inbound, server, quiet>>
  BY <1>1 DEF SendRequest
<1>2. ASSUME NEW w, Attach(w) \/ AskThread(w) PROVE UNCHANGED <<notifications, popped, inbound, server, quiet>>
  BY <1>1, <1>2 DEF Attach, AskThread, transport, pipes
<1>3. ASSUME NEW w, NEW why, Start(w, why) \/ Dispatch(w) PROVE UNCHANGED <<notifications, popped, inbound, server, quiet>>
  BY <1>3 DEF Start, Dispatch
<1>4. CASE SealExact \/ Probe \/ RefuseWrite \/ PrepareTurn \/ RefuseAtLastCheck
  BY <1>4 DEF SealExact, Probe, RefuseWrite, PrepareTurn, RefuseAtLastCheck, transport, pipes
<1>5. ASSUME NEW i, Poll(i) \/ Reconcile(i) PROVE UNCHANGED <<notifications, popped, inbound, server, quiet>>
  BY <1>5 DEF Poll, Reconcile, transport, pipes
<1> QED BY <1>2, <1>3, <1>4, <1>5 DEF Calls

LEMMA ReadsReceive ==
    ASSUME ReadSteps
    PROVE  \E r \in Reads : Receive(r) /\ UNCHANGED <<purpose, probed, turn>>
BY DEF ReadSteps, Handshake, Creating, ReceiveLate, ProbeDrain, ReadThread, ProbeSettles, Recheck, ReadTurn,
   PollReads, ReconcileReads, Drains, KeepsCalls

\* A line the server sends is true when it is sent.
NewLine(line) ==
    /\ line \in Lines
    /\ line.kind = "response" => line.id \in accepted'
    /\ line.kind = "error" =>
           /\ line.id \in accepted' \cup refused'
           /\ line.id \in refused' \/ \A k \in DOMAIN pending : pending[k].id # line.id
    /\ IsNote(line) => /\ sent' = sent + 1 /\ line.note.n = sent + 1
                       /\ line.note.what = "started" => line.note.turn \in accepted' \cup {None}
                       /\ line.note.what \in {"terminal", "degraded"} => line.note.turn \in finished' \cup {None}

ServerEffect ==
    /\ ServerKeeps
    /\ accepted \subseteq accepted' /\ accepted' \subseteq ReceivedIds
    /\ refused \subseteq refused' /\ refused' \subseteq ReceivedIds
    /\ finished \subseteq finished' /\ finished' \subseteq accepted
    /\ sent' \in {sent, sent + 1}
    /\ UNCHANGED inbound \/ \E line : inbound' = Append(inbound, line) /\ NewLine(line)

LEMMA AcceptedAreIds ==
    ASSUME TypeOK, RangeInv
    PROVE  /\ ReceivedIds \subseteq Ids /\ accepted \subseteq Ids /\ refused \subseteq Ids /\ finished \subseteq Ids
           /\ Turns \subseteq ReceivedIds
BY DEF TypeOK, RangeInv, ReceivedIds, Requests, Turns

LEMMA ServerHasEffect ==
    ASSUME TypeOK, RangeInv, ServerSteps
    PROVE  ServerEffect
<1>1. ASSUME NEW q \in received, Accept(q) PROVE ServerEffect
  <2>1. PICK result \in Truths \cup Faulty : Pipe([kind |-> "response", id |-> q.id, result |-> result])
    BY <1>1 DEF Accept
  <2>2. accepted' = accepted \cup {q.id} /\ UNCHANGED <<refused, finished, sent>> /\ ServerKeeps
    BY <1>1 DEF Accept
  <2>3. result \in Results
    BY DEF Truths, Faulty, Results
  <2>4. q.id \in Ids
    BY DEF TypeOK, Requests
  <2> DEFINE line == [kind |-> "response", id |-> q.id, result |-> result]
  <2>5. line \in Lines
    BY <2>3, <2>4 DEF Lines
  <2>6. NewLine(line)
    BY <2>2, <2>5 DEF NewLine, IsNote
  <2>7. q.id \in ReceivedIds
    BY DEF ReceivedIds
  <2>8. inbound' = Append(inbound, line)
    BY <2>1 DEF Pipe
  <2> HIDE DEF line
  <2> QED BY <2>2, <2>6, <2>7, <2>8 DEF ServerEffect, RangeInv
<1>2. ASSUME NEW q \in received, Refuse(q) PROVE ServerEffect
  <2>1. /\ Pipe([kind |-> "error", id |-> q.id])
        /\ refused' = refused \cup {q.id} /\ UNCHANGED <<accepted, finished, sent>> /\ ServerKeeps
    BY <1>2 DEF Refuse
  <2>4. q.id \in Ids
    BY DEF TypeOK, Requests
  <2> DEFINE line == [kind |-> "error", id |-> q.id]
  <2>5. line \in Lines
    BY <2>4 DEF Lines
  <2>6. NewLine(line)
    BY <2>1, <2>5 DEF NewLine, IsNote
  <2>7. q.id \in ReceivedIds
    BY DEF ReceivedIds
  <2>8. inbound' = Append(inbound, line)
    BY <2>1 DEF Pipe
  <2> HIDE DEF line
  <2> QED BY <2>1, <2>6, <2>7, <2>8 DEF ServerEffect, RangeInv
<1>3. ASSUME NEW i \in accepted, Finish(i) PROVE ServerEffect
  BY <1>3 DEF Finish, ServerEffect, RangeInv
<1>4. ASSUME NEW what \in {"signal", "started", "terminal", "degraded"}, NEW i \in accepted \cup {None},
             Notify(what, i)
      PROVE  ServerEffect
  <2>1. /\ sent' = sent + 1 /\ UNCHANGED <<accepted, refused, finished>> /\ ServerKeeps
        /\ what = "started" => i \in accepted \cup {None}
        /\ what \in {"terminal", "degraded"} => i \in finished \cup {None}
        /\ Pipe([kind |-> "note", note |-> [n |-> sent + 1, what |-> what, turn |-> i]])
    BY <1>4 DEF Notify
  <2> DEFINE note == [n |-> sent + 1, what |-> what, turn |-> i]
  <2> DEFINE line == [kind |-> "note", note |-> note]
  <2>2. note \in Notifications
    BY AcceptedAreIds DEF Notifications, RangeInv
  <2>3. note.n = sent + 1 /\ note.what = what /\ note.turn = i
    OBVIOUS
  <2>8. inbound' = Append(inbound, line)
    BY <2>1 DEF Pipe
  <2> HIDE DEF note
  <2>5. line \in Lines
    BY <2>2 DEF Lines
  <2>6. NewLine(line)
    BY <2>1, <2>3, <2>5 DEF NewLine, IsNote
  <2> HIDE DEF line
  <2> QED BY <2>1, <2>6, <2>8 DEF ServerEffect, RangeInv
<1>5. CASE Asks
  <2>1. /\ Pipe([kind |-> "request"])
        /\ sent' = sent + 1 /\ UNCHANGED <<accepted, refused, finished>> /\ ServerKeeps
    BY <1>5 DEF Asks
  <2> DEFINE line == [kind |-> "request"]
  <2>2. NewLine(line)
    BY DEF NewLine, IsNote, Lines
  <2>3. inbound' = Append(inbound, line)
    BY <2>1 DEF Pipe
  <2> HIDE DEF line
  <2> QED BY <2>1, <2>2, <2>3 DEF ServerEffect, RangeInv
<1>6. CASE Misbehaves
  <2>1. UNCHANGED <<accepted, refused, finished, sent>> /\ ServerKeeps
    BY <1>6 DEF Misbehaves
  <2>2. CASE UNCHANGED inbound
    BY <2>1, <2>2 DEF ServerEffect, RangeInv
  <2>3. ASSUME NEW i \in accepted \cup refused,
               \A k \in DOMAIN pending : pending[k].id # i, Pipe([kind |-> "error", id |-> i])
        PROVE  ServerEffect
    <3> DEFINE line == [kind |-> "error", id |-> i]
    <3>1. line \in Lines
      BY AcceptedAreIds DEF Lines
    <3>2. NewLine(line)
      BY <2>1, <2>3, <3>1 DEF NewLine, IsNote
    <3>3. inbound' = Append(inbound, line)
      BY <2>3 DEF Pipe
    <3> HIDE DEF line
    <3> QED BY <2>1, <3>2, <3>3 DEF ServerEffect, RangeInv
  <2>4. CASE Pipe([kind |-> "junk"])
    <3> DEFINE line == [kind |-> "junk"]
    <3>1. NewLine(line)
      BY DEF NewLine, IsNote, Lines
    <3>2. inbound' = Append(inbound, line)
      BY <2>4 DEF Pipe
    <3> HIDE DEF line
    <3> QED BY <2>1, <3>1, <3>2 DEF ServerEffect, RangeInv
  <2> QED BY <1>6, <2>2, <2>3, <2>4 DEF Misbehaves
<1> QED BY <1>1, <1>2, <1>3, <1>4, <1>5, <1>6 DEF ServerSteps

-----------------------------------------------------------------------------
(* What is queued and what is in the pipe. *)

LEMMA TailFacts ==
    ASSUME NEW S, NEW q \in Seq(S), q # <<>>
    PROVE  /\ Tail(q) \in Seq(S) /\ Len(Tail(q)) = Len(q) - 1
           /\ \A i \in DOMAIN Tail(q) : i + 1 \in DOMAIN q /\ i + 1 > 1 /\ Tail(q)[i] = q[i + 1]
           /\ 1 \in DOMAIN q /\ Head(q) = q[1]
OBVIOUS

LEMMA AppendFacts ==
    ASSUME NEW S, NEW q \in Seq(S), NEW e \in S
    PROVE  /\ Append(q, e) \in Seq(S) /\ Len(Append(q, e)) = Len(q) + 1
           /\ DOMAIN Append(q, e) = DOMAIN q \cup {Len(q) + 1} /\ \A i \in DOMAIN q : i < Len(q) + 1
           /\ \A i \in DOMAIN q : Append(q, e)[i] = q[i]
           /\ Append(q, e)[Len(q) + 1] = e
OBVIOUS

LEMMA SpoilFacts ==
    ASSUME NEW q \in Seq(Lines), q # <<>>
    PROVE  LET s == [q EXCEPT ![1] = [kind |-> "junk"]]
           IN /\ s \in Seq(Lines) /\ DOMAIN s = DOMAIN q /\ Len(s) = Len(q)
              /\ s[1].kind = "junk" /\ \A i \in DOMAIN q : i # 1 => s[i] = q[i]
<1>1. [kind |-> "junk"] \in Lines
  BY DEF Lines
<1> QED BY <1>1

\* The numbers of what is queued and in the pipe, and what the notes say.
NumbersInv ==
    /\ notifications \in Seq(Notifications) /\ inbound \in Seq(Lines)
    /\ popped \in 0..sent /\ sent \in Nat
    /\ QueueInv /\ PipeInv

LEMMA Ordered ==
    ASSUME TypeOK, RangeInv, QueueInv, PipeInv
    PROVE  NumbersInv
BY DEF TypeOK, RangeInv, NumbersInv

\* The queue ahead of the pipe.
QueueAhead ==
    \A k \in DOMAIN notifications, l \in DOMAIN inbound :
        IsNote(inbound[l]) => notifications[k].n < inbound[l].note.n
PipeTrue ==
    \A k \in DOMAIN inbound :
        IsNote(inbound[k]) => inbound[k].note.n \in (popped + 1)..sent /\ NoteTrue(inbound[k].note)
PipeOrdered ==
    \A k, l \in DOMAIN inbound :
        k < l /\ IsNote(inbound[k]) /\ IsNote(inbound[l]) => inbound[k].note.n < inbound[l].note.n

LEMMA PipeParts == PipeInv <=> PipeTrue /\ PipeOrdered /\ QueueAhead
BY DEF PipeInv, PipeTrue, PipeOrdered, QueueAhead

LEMMA PipePartsNext == PipeInv' <=> PipeTrue' /\ PipeOrdered' /\ QueueAhead'
BY PipeParts, PTL

LEMMA NoteForms ==
    ASSUME inbound \in Seq(Lines), NEW k \in DOMAIN inbound, IsNote(inbound[k])
    PROVE  inbound[k].note \in Notifications /\ inbound[k].note.n \in Nat
BY LineForms DEF IsNote, Notifications

LEMMA TakingKeeps ==
    ASSUME NumbersInv, Taken, UNCHANGED <<notifications, popped, sent, accepted, finished>>
    PROVE  QueueInv' /\ PipeInv'
<1>1. /\ inbound' = Tail(inbound)
      /\ \A k \in DOMAIN inbound' : k + 1 \in DOMAIN inbound /\ inbound'[k] = inbound[k + 1]
      /\ \A k, l \in DOMAIN inbound' : k < l => k + 1 < l + 1
  BY TailFacts DEF NumbersInv, Taken
<1>2. QueueInv'
  BY DEF NumbersInv, QueueInv, NoteTrue
<1>3. PipeTrue'
  BY <1>1 DEF NumbersInv, PipeInv, PipeTrue, NoteTrue, IsNote
<1>4. PipeOrdered'
  BY <1>1 DEF NumbersInv, PipeInv, PipeOrdered, IsNote
<1>5. QueueAhead'
  BY <1>1 DEF NumbersInv, PipeInv, QueueAhead, IsNote
<1> QED BY <1>2, <1>3, <1>4, <1>5, PipePartsNext

LEMMA ReadKeepsOrder ==
    ASSUME TypeOK, RangeInv, QueueInv, PipeInv, NEW r, Receive(r)
    PROVE  QueueInv' /\ PipeInv'
<1>0. NumbersInv /\ UNCHANGED <<sent, accepted, finished>>
  BY Ordered DEF Receive, server
<1>1. CASE Popped(r)
  <2>1. /\ notifications' = Tail(notifications) /\ popped' = notifications[1].n /\ inbound' = inbound
        /\ 1 \in DOMAIN notifications /\ notifications[1] \in Notifications
        /\ \A k \in DOMAIN notifications' :
               k + 1 \in DOMAIN notifications /\ k + 1 > 1 /\ notifications'[k] = notifications[k + 1]
        /\ \A k, l \in DOMAIN notifications' : k < l => k + 1 < l + 1
    BY <1>0, <1>1, TailFacts DEF Popped, NumbersInv
  <2>2. popped' \in Nat
    BY <2>1 DEF Notifications
  <2>3. QueueInv'
    <3>1. ASSUME NEW k \in DOMAIN notifications'
          PROVE  notifications'[k].n \in (popped' + 1)..sent' /\ NoteTrue(notifications[k])'
      <4>1. /\ notifications[1].n < notifications[k + 1].n /\ notifications[k + 1] \in Notifications
            /\ notifications[k + 1].n <= sent /\ NoteTrue(notifications[k + 1])
        BY <1>0, <2>1 DEF NumbersInv, QueueInv
      <4>2. notifications[k + 1].n \in Nat
        BY <4>1 DEF Notifications
      <4> QED BY <1>0, <2>1, <2>2, <4>1, <4>2 DEF NoteTrue, NumbersInv
    <3>2. \A k, l \in DOMAIN notifications' : k < l => notifications'[k].n < notifications'[l].n
      BY <1>0, <2>1 DEF NumbersInv, QueueInv
    <3> QED BY <3>1, <3>2 DEF QueueInv
  <2>4. PipeTrue'
    <3> SUFFICES ASSUME NEW k \in DOMAIN inbound, IsNote(inbound[k])
                 PROVE  inbound[k].note.n \in (popped' + 1)..sent' /\ NoteTrue(inbound[k].note)'
      BY <2>1 DEF PipeTrue, IsNote, NoteTrue
    <3>1. /\ notifications[1].n < inbound[k].note.n /\ inbound[k].note.n <= sent /\ NoteTrue(inbound[k].note)
      BY <1>0, <2>1 DEF NumbersInv, PipeInv
    <3>2. inbound[k].note.n \in Nat
      BY <1>0, NoteForms DEF NumbersInv
    <3> QED BY <1>0, <2>1, <2>2, <3>1, <3>2 DEF NoteTrue, NumbersInv
  <2>5. PipeOrdered'
    BY <1>0, <2>1 DEF NumbersInv, PipeInv, PipeOrdered, IsNote
  <2>6. QueueAhead'
    BY <1>0, <2>1 DEF NumbersInv, PipeInv, QueueAhead, IsNote
  <2> QED BY <2>3, <2>4, <2>5, <2>6, PipePartsNext
<1>2. CASE Passed(r)
  <2>1. /\ notifications = <<>> /\ notifications' = <<>> /\ popped' = inbound[1].note.n
        /\ 1 \in DOMAIN inbound /\ IsNote(inbound[1])
        /\ \A k \in DOMAIN inbound' : k + 1 \in DOMAIN inbound /\ k + 1 > 1 /\ inbound'[k] = inbound[k + 1]
        /\ \A k, l \in DOMAIN inbound' : k < l => k + 1 < l + 1
    BY <1>0, <1>2, TailFacts DEF Passed, Taken, NumbersInv, IsNote, Line
  <2>2. QueueInv' /\ QueueAhead'
    BY <2>1 DEF QueueInv, QueueAhead
  <2>3. PipeTrue'
    <3> SUFFICES ASSUME NEW k \in DOMAIN inbound', IsNote(inbound'[k])
                 PROVE  inbound'[k].note.n \in (popped' + 1)..sent' /\ NoteTrue(inbound[k].note)'
      BY DEF PipeTrue, IsNote
    <3>0. inbound'[k] = inbound[k + 1] /\ IsNote(inbound[k + 1])
      BY <2>1
    <3>1. /\ inbound[1].note.n < inbound[k + 1].note.n /\ inbound[k + 1].note.n <= sent
          /\ NoteTrue(inbound[k + 1].note)
      BY <1>0, <2>1, <3>0 DEF NumbersInv, PipeInv
    <3>2. inbound[1].note.n \in Nat /\ inbound[k + 1].note.n \in Nat
      BY <1>0, <2>1, <3>0, NoteForms DEF NumbersInv
    <3> QED BY <1>0, <2>1, <3>0, <3>1, <3>2 DEF NoteTrue, NumbersInv
  <2>4. PipeOrdered'
    BY <1>0, <2>1 DEF NumbersInv, PipeInv, PipeOrdered, IsNote
  <2> QED BY <2>2, <2>3, <2>4, PipePartsNext
<1>3. CASE Queued
  <2>1. /\ notifications' = Append(notifications, inbound[1].note) /\ popped' = popped
        /\ 1 \in DOMAIN inbound /\ IsNote(inbound[1]) /\ inbound[1].note \in Notifications
        /\ \A k \in DOMAIN inbound' : k + 1 \in DOMAIN inbound /\ k + 1 > 1 /\ inbound'[k] = inbound[k + 1]
        /\ \A k, l \in DOMAIN inbound' : k < l => k + 1 < l + 1
    BY <1>0, <1>3, TailFacts, NoteForms DEF Queued, Taken, NumbersInv, IsNote, Line
  <2> DEFINE m == Len(notifications) + 1
  <2>2. /\ DOMAIN notifications' = DOMAIN notifications \cup {m} /\ \A k \in DOMAIN notifications : k < m
        /\ \A k \in DOMAIN notifications : notifications'[k] = notifications[k]
        /\ notifications'[m] = inbound[1].note /\ m \in Nat
        /\ \A k \in DOMAIN notifications : k \in Nat
    BY <1>0, <2>1, AppendFacts DEF NumbersInv
  <2> HIDE DEF m
  <2>3. /\ inbound[1].note.n \in (popped + 1)..sent /\ NoteTrue(inbound[1].note)
        /\ \A k \in DOMAIN notifications : notifications[k].n < inbound[1].note.n
        /\ \A k \in DOMAIN notifications : notifications[k].n \in (popped + 1)..sent /\ NoteTrue(notifications[k])
    BY <1>0, <2>1 DEF NumbersInv, PipeInv, QueueInv
  <2>4. QueueInv'
    <3>1. \A k \in DOMAIN notifications' :
              notifications'[k].n \in (popped' + 1)..sent' /\ NoteTrue(notifications[k])'
      BY <1>0, <2>1, <2>2, <2>3 DEF NoteTrue
    <3>2. \A k, l \in DOMAIN notifications' : k < l => notifications'[k].n < notifications'[l].n
      <4> SUFFICES ASSUME NEW k \in DOMAIN notifications', NEW l \in DOMAIN notifications', k < l
                   PROVE  notifications'[k].n < notifications'[l].n
        OBVIOUS
      <4>1. CASE l \in DOMAIN notifications
        <5>1. k \in DOMAIN notifications
          BY <2>2, <4>1
        <5> QED BY <1>0, <2>2, <4>1, <5>1 DEF NumbersInv, QueueInv
      <4>2. CASE l = m
        <5>1. k \in DOMAIN notifications
          BY <2>2, <4>2
        <5> QED BY <2>2, <2>3, <4>2, <5>1
      <4> QED BY <2>2, <4>1, <4>2
    <3> QED BY <3>1, <3>2 DEF QueueInv
  <2>5. PipeTrue'
    BY <1>0, <2>1 DEF NumbersInv, PipeInv, PipeTrue, NoteTrue, IsNote
  <2>6. PipeOrdered'
    BY <1>0, <2>1 DEF NumbersInv, PipeInv, PipeOrdered, IsNote
  <2>7. QueueAhead'
    <3> SUFFICES ASSUME NEW k \in DOMAIN notifications', NEW l \in DOMAIN inbound', IsNote(inbound[l + 1])
                 PROVE  notifications'[k].n < inbound[l + 1].note.n
      BY <2>1 DEF QueueAhead, IsNote
    <3>1. l + 1 \in DOMAIN inbound /\ l + 1 > 1
      BY <2>1
    <3>2. CASE k \in DOMAIN notifications
      BY <1>0, <2>2, <3>1, <3>2 DEF NumbersInv, PipeInv
    <3>3. CASE k = m
      BY <1>0, <2>1, <2>2, <3>1, <3>3 DEF NumbersInv, PipeInv
    <3> QED BY <2>2, <3>2, <3>3
  <2> QED BY <2>4, <2>5, <2>6, <2>7, PipePartsNext
<1>4. CASE UNCHANGED <<notifications, popped, inbound>>
  BY <1>0, <1>4 DEF NumbersInv, QueueInv, PipeInv, NoteTrue, IsNote
<1>5. CASE UNCHANGED <<notifications, popped>> /\ Spoiled
  <2>1. /\ DOMAIN inbound' = DOMAIN inbound
        /\ \A k \in DOMAIN inbound' : IsNote(inbound'[k]) => inbound'[k] = inbound[k]
    BY <1>0, <1>5, SpoilFacts DEF Spoiled, NumbersInv, IsNote
  <2>2. QueueInv'
    BY <1>0, <1>5 DEF NumbersInv, QueueInv, NoteTrue
  <2>3. PipeTrue'
    BY <1>0, <1>5, <2>1 DEF NumbersInv, PipeInv, PipeTrue, NoteTrue, IsNote
  <2>4. PipeOrdered'
    BY <1>0, <1>5, <2>1 DEF NumbersInv, PipeInv, PipeOrdered, IsNote
  <2>5. QueueAhead'
    BY <1>0, <1>5, <2>1 DEF NumbersInv, PipeInv, QueueAhead, IsNote
  <2> QED BY <2>2, <2>3, <2>4, <2>5, PipePartsNext
<1>6. CASE UNCHANGED <<notifications, popped>> /\ Taken
  BY <1>0, <1>6, TakingKeeps
<1> QED BY <1>1, <1>2, <1>3, <1>4, <1>5, <1>6, ReadMovesQueues DEF ReadQueues

LEMMA ServerKeepsOrder ==
    ASSUME TypeOK, RangeInv, QueueInv, PipeInv, ServerEffect
    PROVE  QueueInv' /\ PipeInv'
<1>0. /\ NumbersInv /\ UNCHANGED <<notifications, popped>>
      /\ accepted \subseteq accepted' /\ finished \subseteq finished'
      /\ sent' \in {sent, sent + 1}
  BY Ordered DEF ServerEffect, ServerKeeps, transport
<1>1. /\ \A n : n \in (popped + 1)..sent => n \in (popped' + 1)..sent'
      /\ \A note : NoteTrue(note) => /\ note.what = "started" => note.turn \in accepted' \cup {None}
                                     /\ note.what \in {"terminal", "degraded"} => note.turn \in finished' \cup {None}
  BY <1>0 DEF NumbersInv, NoteTrue
<1>2. QueueInv'
  BY <1>0, <1>1 DEF NumbersInv, QueueInv, NoteTrue
<1>3. CASE UNCHANGED inbound
  BY <1>0, <1>1, <1>2, <1>3 DEF NumbersInv, PipeInv, NoteTrue, IsNote
<1>4. ASSUME NEW line, inbound' = Append(inbound, line), NewLine(line)
      PROVE  PipeInv'
  <2> DEFINE m == Len(inbound) + 1
  <2>1. /\ DOMAIN inbound' = DOMAIN inbound \cup {m} /\ \A k \in DOMAIN inbound : k < m
        /\ \A k \in DOMAIN inbound : inbound'[k] = inbound[k]
        /\ inbound'[m] = line /\ m \in Nat
        /\ \A k \in DOMAIN inbound : k \in Nat
    BY <1>0, <1>4, AppendFacts DEF NumbersInv, NewLine
  <2> HIDE DEF m
  <2>2. IsNote(line) => /\ line.note.n = sent + 1 /\ sent' = sent + 1
                        /\ line.note.what = "started" => line.note.turn \in accepted' \cup {None}
                        /\ line.note.what \in {"terminal", "degraded"} => line.note.turn \in finished' \cup {None}
    BY <1>4 DEF NewLine
  <2>3. PipeTrue'
    <3> SUFFICES ASSUME NEW k \in DOMAIN inbound', IsNote(inbound'[k])
                 PROVE  inbound'[k].note.n \in (popped' + 1)..sent' /\ NoteTrue(inbound[k].note)'
      BY DEF PipeTrue, IsNote
    <3>1. CASE k \in DOMAIN inbound
      BY <1>0, <1>1, <2>1, <3>1 DEF NumbersInv, PipeInv, NoteTrue, IsNote
    <3>2. CASE k = m
      <4>1. IsNote(line) /\ inbound'[k] = line
        BY <2>1, <3>2
      <4> QED BY <1>0, <2>2, <4>1 DEF NoteTrue, NumbersInv
    <3> QED BY <2>1, <3>1, <3>2
  <2>4. PipeOrdered'
    <3> SUFFICES ASSUME NEW k \in DOMAIN inbound', NEW l \in DOMAIN inbound', k < l,
                        IsNote(inbound'[k]), IsNote(inbound'[l])
                 PROVE  inbound'[k].note.n < inbound'[l].note.n
      BY DEF PipeOrdered, IsNote
    <3>1. k \in DOMAIN inbound /\ inbound'[k] = inbound[k]
      BY <2>1
    <3>2. CASE l \in DOMAIN inbound
      BY <1>0, <2>1, <3>1, <3>2 DEF NumbersInv, PipeInv
    <3>3. CASE l = m
      <4>1. inbound[k].note.n \in (popped + 1)..sent
        BY <1>0, <3>1 DEF NumbersInv, PipeInv
      <4> QED BY <1>0, <2>1, <2>2, <3>1, <3>3, <4>1 DEF NumbersInv
    <3> QED BY <2>1, <3>2, <3>3
  <2>5. QueueAhead'
    <3> SUFFICES ASSUME NEW k \in DOMAIN notifications, NEW l \in DOMAIN inbound', IsNote(inbound'[l])
                 PROVE  notifications[k].n < inbound'[l].note.n
      BY <1>0 DEF QueueAhead, IsNote
    <3>2. CASE l \in DOMAIN inbound
      BY <1>0, <2>1, <3>2 DEF NumbersInv, PipeInv
    <3>3. CASE l = m
      <4>1. notifications[k].n \in (popped + 1)..sent
        BY <1>0 DEF NumbersInv, QueueInv
      <4> QED BY <1>0, <2>1, <2>2, <3>3, <4>1 DEF NumbersInv
    <3> QED BY <2>1, <3>2, <3>3
  <2> QED BY <2>3, <2>4, <2>5, PipePartsNext
<1> QED BY <1>2, <1>3, <1>4 DEF ServerEffect

-----------------------------------------------------------------------------
(* What a write may do. *)

\* A request is written while nothing is out: what left is its frame, and either
\* it is pending, or the transport is ambiguous, or nothing left.
WriteEffect(q, w) ==
    /\ pending = <<>> /\ Unanswered = {}
    /\ q \in Requests /\ q.id \notin ReceivedIds /\ q.id < next_id'
    /\ q.kind = "initialize" \/ announced
    /\ received' \in {received, received \cup {q}}
    /\ pending' \in {<<>>, <<q>>}
    /\ pending' = <<>> => received' = received \/ ambiguous'
    /\ w.receipt = "ProvenNotWritten" => received' = received /\ pending' = <<>>
    /\ w.receipt = "Written" => pending' = <<q>> /\ ~ambiguous' /\ ~torn'
    /\ {ambiguous', torn'} \subseteq BOOLEAN
    /\ UNCHANGED <<initialized, stdout, announced>>
    /\ next_id' \in {next_id, next_id + 1}

WriteKeeps == UNCHANGED <<pending, ambiguous, initialized, stdout, received, torn, announced>>

LEMMA WriteForms ==
    ASSUME NEW w \in Writes
    PROVE  /\ w.receipt = "Written" => w.left = "whole"
           /\ w.receipt = "ProvenNotWritten" => w.left = "nothing"
           /\ w.receipt \in {"Written", "PossiblyWritten", "ProvenNotWritten"}
           /\ w.left \in {"whole", "part", "nothing"}
           /\ w.left # "nothing" => w.receipt # "ProvenNotWritten"
BY DEF Writes

LEMMA LeavesOne ==
    ASSUME TypeOK, NEW w \in Writes, NEW q, Leaves(w, {q})
    PROVE  /\ received' \in {received, received \cup {q}} /\ torn' \in BOOLEAN
           /\ w.left # "whole" => received' = received
           /\ w.left = "nothing" => torn' = torn
           /\ w.receipt = "Written" => ~torn'
<1>1. torn \in BOOLEAN
  BY DEF TypeOK
<1> QED BY <1>1, WriteForms DEF Leaves

LEMMA StartWrites ==
    ASSUME Inv, NEW w \in Writes, NEW why, Start(w, why)
    PROVE  /\ WriteEffect([id |-> 1, kind |-> "initialize"], w)
           /\ w.receipt = "Written" <=> pending' # <<>>
<1> DEFINE q == [id |-> 1, kind |-> "initialize"]
<1>1. q \in Requests
  BY TransportAssumption DEF Requests, Ids
<1>2. received = {} /\ pending = <<>> /\ next_id \in 2..MaxId + 1 /\ MaxId \in Nat
  BY TransportAssumption DEF Start, Inv, CreateInv, TypeOK
<1>3. /\ ambiguous' = (w.receipt = "PossiblyWritten")
      /\ pending' = IF w.receipt = "Written" THEN <<q>> ELSE pending
      /\ UNCHANGED <<initialized, stdout, announced, next_id>>
      /\ Leaves(w, {q})
  BY DEF Start
<1>4. Unanswered = {} /\ q.id \notin ReceivedIds /\ q.id < next_id' /\ q.kind = "initialize"
  BY <1>2, <1>3 DEF Unanswered, ReceivedIds
<1> HIDE DEF q
<1>5. received' \in {received, received \cup {q}} /\ torn' \in BOOLEAN
      /\ (w.receipt = "ProvenNotWritten" => received' = received)
      /\ (w.receipt = "Written" => ~torn')
  BY <1>3, LeavesOne, WriteForms DEF Inv
<1>6. ambiguous' \in BOOLEAN
  BY <1>3
<1>7. w.receipt \in {"Written", "PossiblyWritten", "ProvenNotWritten"}
  BY WriteForms
<1>8. WriteEffect(q, w)
  BY <1>1, <1>2, <1>3, <1>4, <1>5, <1>6, <1>7 DEF WriteEffect
<1>9. w.receipt = "Written" <=> pending' # <<>>
  BY <1>2, <1>3
<1> QED BY <1>8, <1>9 DEF q

\* What SendRequest does when the transport may send.
LEMMA SendWrites ==
    ASSUME Inv, NEW w \in Writes, NEW kind \in {"thread/start", "thread/resume", "thread/read"},
           SendRequest(kind, w), MayRequest, at # "stopped"
    PROVE  /\ WriteEffect([id |-> next_id, kind |-> kind], w)
           /\ w.receipt = "Written" <=> pending' # <<>>
           /\ next_id' = next_id + 1 /\ next_id \in Ids
<1> DEFINE q == [id |-> next_id, kind |-> kind]
<1>1. next_id \in Ids /\ next_id \in Nat
  BY TransportAssumption DEF MayRequest, Inv, TypeOK, Ids
<1>2. q \in Requests
  BY <1>1 DEF Requests
<1>3. pending = <<>> /\ ~ambiguous /\ announced
  BY DEF MayRequest, Inv, FlightInv
<1>4. /\ ambiguous' = (ambiguous \/ w.receipt = "PossiblyWritten")
      /\ pending' = IF w.receipt = "Written" THEN Append(pending, q) ELSE pending
      /\ UNCHANGED <<initialized, stdout, announced>> /\ next_id' = next_id + 1
      /\ Leaves(w, {q})
  BY DEF SendRequest, AmbiguousAfterSend
<1>5. pending' = IF w.receipt = "Written" THEN <<q>> ELSE <<>>
  BY <1>3, <1>4
<1>6. Unanswered = {}
  BY <1>3 DEF Inv, FlightInv, SingleFlight
<1>7. q.id \notin ReceivedIds /\ q.id < next_id'
  BY <1>1, <1>4 DEF Inv, FlightInv, ReceivedIds
<1> HIDE DEF q
<1>8. received' \in {received, received \cup {q}} /\ torn' \in BOOLEAN
      /\ (w.receipt = "ProvenNotWritten" => received' = received)
      /\ (w.receipt = "Written" => ~torn')
  BY <1>4, LeavesOne, WriteForms DEF Inv
<1>9. ambiguous' \in BOOLEAN /\ (w.receipt = "PossiblyWritten" => ambiguous') /\ (w.receipt = "Written" => ~ambiguous')
  BY <1>3, <1>4
<1>10. w.receipt \in {"Written", "PossiblyWritten", "ProvenNotWritten"}
  BY WriteForms
<1>11. WriteEffect(q, w)
  BY <1>2, <1>3, <1>4, <1>5, <1>6, <1>7, <1>8, <1>9, <1>10 DEF WriteEffect
<1> QED BY <1>1, <1>4, <1>5, <1>11 DEF q

\* Dispatch writes the turn that was prepared, unless its frame was taken.
TheTurn == [id |-> turn, kind |-> "turn/start"]

LEMMA DispatchWrites ==
    ASSUME Inv, NEW w \in Writes, Dispatch(w)
    PROVE  /\ WriteEffect(TheTurn, w)
           /\ w.receipt # "ProvenNotWritten" <=> pending' # <<>>
           /\ UNCHANGED <<next_id, turn>>
<1>1. turn \in Ids /\ TheTurn \in Requests
  BY DEF Dispatch, Inv, RangeInv, Requests, TheTurn
<1>2. /\ pending = <<>> /\ ~ambiguous /\ announced /\ turn \notin ReceivedIds /\ turn < next_id
      /\ frame \in {None, turn} /\ ambiguous \in BOOLEAN /\ torn \in BOOLEAN
      /\ ~torn
  BY DEF Dispatch, Inv, WriteInv, FlightInv, TypeOK, SilenceInv
<1>3. /\ UNCHANGED <<initialized, stdout, announced, next_id, turn>>
      /\ IF frame = None THEN UNCHANGED <<torn, received>> ELSE Leaves(w, {[id |-> frame, kind |-> "turn/start"]})
      /\ IF w.receipt = "ProvenNotWritten" THEN UNCHANGED <<pending, ambiguous>>
         ELSE /\ pending' = Append(pending, TheTurn) /\ ambiguous' = (w.receipt # "Written")
  BY DEF Dispatch, TheTurn
<1>4. Unanswered = {}
  BY <1>2 DEF Inv, FlightInv, SingleFlight, Dispatch
<1>5. TheTurn.id = turn
  BY DEF TheTurn
<1>6. pending' = IF w.receipt = "ProvenNotWritten" THEN <<>> ELSE <<TheTurn>>
  BY <1>2, <1>3
<1>7. received' \in {received, received \cup {TheTurn}} /\ torn' \in BOOLEAN
      /\ (w.receipt = "ProvenNotWritten" => received' = received)
      /\ (w.receipt = "Written" => ~torn')
  <2>1. CASE frame = None
    BY <1>2, <1>3, <2>1
  <2>2. CASE frame # None
    <3>1. Leaves(w, {TheTurn})
      BY <1>2, <1>3, <2>2 DEF TheTurn
    <3> QED BY <3>1, LeavesOne, WriteForms DEF Inv
  <2> QED BY <2>1, <2>2
<1>8. /\ ambiguous' \in BOOLEAN
      /\ w.receipt = "Written" => ~ambiguous'
  BY <1>2, <1>3
<1>9. WriteEffect(TheTurn, w)
  BY <1>1, <1>2, <1>3, <1>4, <1>5, <1>6, <1>7, <1>8 DEF WriteEffect
<1> QED BY <1>3, <1>6, <1>9

LEMMA CallsWrite ==
    ASSUME Inv, Calls
    PROVE  \/ \E q \in Requests, w \in Writes : WriteEffect(q, w)
           \/ WriteKeeps /\ next_id' \in {next_id, next_id + 1}
<1> DEFINE Goal == \/ \E q \in Requests, w \in Writes : WriteEffect(q, w)
                   \/ WriteKeeps /\ next_id' \in {next_id, next_id + 1}
<1>1. ASSUME NEW w \in Writes, NEW why, Start(w, why) PROVE Goal
  BY <1>1, StartWrites DEF WriteEffect
<1>2. ASSUME NEW w \in Writes, Attach(w) PROVE Goal
  <2>1. CASE MayRequest /\ SendRequest(IF purpose = "create" THEN "thread/start" ELSE "thread/resume", w)
    <3>1. PICK kind \in {"thread/start", "thread/resume"} : SendRequest(kind, w)
      BY <2>1
    <3>2. at # "stopped"
      BY <1>2 DEF Attach
    <3>3. WriteEffect([id |-> next_id, kind |-> kind], w)
      BY <2>1, <3>1, <3>2, SendWrites
    <3> QED BY <3>3 DEF WriteEffect
  <2>2. CASE UNCHANGED <<transport, pipes, server>>
    BY <2>2 DEF transport, pipes, server, WriteKeeps
  <2> QED BY <1>2, <2>1, <2>2 DEF Attach
<1>3. ASSUME NEW w \in Writes, AskThread(w) PROVE Goal
  <2>1. CASE MayRequest /\ SendRequest("thread/read", w)
    <3>2. at # "stopped"
      BY <1>3 DEF AskThread
    <3>3. WriteEffect([id |-> next_id, kind |-> "thread/read"], w)
      BY <2>1, <3>2, SendWrites
    <3> QED BY <3>3 DEF WriteEffect
  <2>2. CASE UNCHANGED <<transport, pipes, server>>
    BY <2>2 DEF transport, pipes, server, WriteKeeps
  <2> QED BY <1>3, <2>1, <2>2 DEF AskThread
<1>4. ASSUME NEW w \in Writes, Dispatch(w) PROVE Goal
  BY <1>4, DispatchWrites DEF WriteEffect
<1>5. CASE SealExact \/ Probe \/ RefuseWrite \/ PrepareTurn \/ RefuseAtLastCheck
  BY <1>5 DEF SealExact, Probe, RefuseWrite, PrepareTurn, RefuseAtLastCheck, transport, pipes, WriteKeeps
<1>6. ASSUME NEW i, Poll(i) \/ Reconcile(i) PROVE Goal
  BY <1>6 DEF Poll, Reconcile, transport, pipes, WriteKeeps
<1> QED BY <1>1, <1>2, <1>3, <1>4, <1>5, <1>6 DEF Calls

-----------------------------------------------------------------------------
(* Types and ranges. *)

\* What an outcome of a read looks like.
LEMMA ReadForms ==
    ASSUME TypeOK, NEW r, Receive(r)
    PROVE  /\ pending' \in {pending, <<>>}
           /\ stdout' \in 0..MaxLines
           /\ initialized' \in BOOLEAN /\ announced' \in BOOLEAN
           /\ ambiguous' \in BOOLEAN /\ torn' \in BOOLEAN
           /\ frame' \in Ids \cup {None}
<1>1. /\ frame \in Ids \cup {None} /\ stdout \in 0..MaxLines /\ MaxLines \in Nat
      /\ ambiguous \in BOOLEAN /\ initialized \in BOOLEAN /\ torn \in BOOLEAN /\ announced \in BOOLEAN
  BY TransportAssumption DEF TypeOK
<1>2. AmbiguousIfPending \in BOOLEAN
  BY DEF AmbiguousIfPending
<1>3. CASE PopQueued(r)
  BY <1>1, <1>3 DEF PopQueued, pipes
<1>4. CASE NoLine(r)
  BY <1>1, <1>2, <1>4 DEF NoLine
<1>5. CASE OverStdout(r)
  BY <1>1, <1>5 DEF OverStdout, transport
<1>6. CASE ReadUnusable(r)
  BY <1>1, <1>2, <1>6 DEF ReadUnusable, CountLine
<1>7. CASE ReadResponse(r)
  <2>1. stdout' \in 0..MaxLines
    BY <1>1, <1>7 DEF ReadResponse, CountLine
  <2>2. CASE Parsed(pending[1], Line.result) = "Initialized"
    <3>1. PICK w \in Writes :
              /\ Leaves(w, {}) /\ frame' = None
              /\ ambiguous' = (w.receipt = "PossiblyWritten")
              /\ initialized' = (w.receipt = "Written")
              /\ announced' = (announced \/ w.left = "whole")
              /\ pending' = IF w.receipt = "Written" THEN <<>> ELSE pending
      BY <1>7, <2>2 DEF ReadResponse
    <3>2. torn' \in BOOLEAN
      BY <1>1, <3>1 DEF Leaves
    <3>3. ambiguous' \in BOOLEAN /\ initialized' \in BOOLEAN /\ announced' \in BOOLEAN
      BY <3>1
    <3> QED BY <2>1, <3>1, <3>2, <3>3
  <2>3. CASE Parsed(pending[1], Line.result) # "Initialized"
    <3>1. /\ ambiguous' = (Parsed(pending[1], Line.result) \in {"Malformed", "Correlation"})
          /\ pending' = IF ambiguous' THEN pending ELSE <<>>
          /\ UNCHANGED <<initialized, frame, torn, announced>>
      BY <1>7, <2>3 DEF ReadResponse
    <3>2. ambiguous' \in BOOLEAN
      BY <3>1
    <3> QED BY <1>1, <2>1, <3>1, <3>2
  <2> QED BY <2>2, <2>3
<1>8. CASE ReadNativeError(r)
  <2>1. stdout' \in 0..MaxLines /\ pending' = <<>> /\ UNCHANGED <<initialized, announced, torn, frame>>
    BY <1>1, <1>8 DEF ReadNativeError, CountLine
  <2>2. ambiguous' \in BOOLEAN
    BY <1>8 DEF ReadNativeError
  <2> QED BY <1>1, <2>1, <2>2
<1>9. CASE ReadNotification(r)
  <2>1. ambiguous' \in {ambiguous, AmbiguousIfPending}
    BY <1>9 DEF ReadNotification
  <2> QED BY <1>1, <1>2, <1>9, <2>1 DEF ReadNotification, CountLine
<1>10. CASE ReadServerRequest(r)
  <2>1. stdout' \in 0..MaxLines /\ UNCHANGED <<pending, initialized, announced>> /\ frame' \in {frame, None}
    BY <1>1, <1>10 DEF ReadServerRequest, CountLine
  <2>2. CASE UNCHANGED <<ambiguous, torn>>
    BY <1>1, <2>1, <2>2
  <2>3. ASSUME NEW w \in Writes, Leaves(w, {}), ambiguous' = AmbiguousAfterSend(w)
        PROVE  ambiguous' \in BOOLEAN /\ torn' \in BOOLEAN
    <3>1. torn' \in BOOLEAN
      BY <1>1, <2>3 DEF Leaves
    <3>2. ambiguous' = (ambiguous \/ w.receipt = "PossiblyWritten")
      BY <2>3 DEF AmbiguousAfterSend
    <3> QED BY <3>1, <3>2
  <2>4. \/ UNCHANGED <<ambiguous, torn>>
        \/ \E w \in Writes : Leaves(w, {}) /\ ambiguous' = AmbiguousAfterSend(w)
    BY <1>10 DEF ReadServerRequest
  <2> QED BY <1>1, <2>1, <2>2, <2>3, <2>4
<1> QED BY <1>3, <1>4, <1>5, <1>6, <1>7, <1>8, <1>9, <1>10 DEF Receive

\* The queue, the pipe and the numbers on them keep their types.
LEMMA QueueTypes ==
    ASSUME Inv, Next
    PROVE  /\ notifications' \in Seq(Notifications) /\ Len(notifications') <= MaxQueue
           /\ inbound' \in Seq(Lines)
           /\ sent' \in Nat /\ popped' \in 0..sent'
           /\ accepted' \subseteq ReceivedIds' /\ refused' \subseteq ReceivedIds' /\ finished' \subseteq accepted'
           /\ {alive', quiet'} \subseteq BOOLEAN
<1>1. /\ notifications \in Seq(Notifications) /\ Len(notifications) <= MaxQueue /\ MaxQueue \in Nat
      /\ inbound \in Seq(Lines) /\ sent \in Nat /\ popped \in 0..sent
      /\ accepted \subseteq ReceivedIds /\ refused \subseteq ReceivedIds /\ finished \subseteq accepted
      /\ alive \in BOOLEAN /\ quiet \in BOOLEAN
  BY TransportAssumption DEF Inv, TypeOK, RangeInv
<1>2. CASE Calls
  <2>1. received \subseteq received'
    BY <1>2, CallsWrite DEF WriteEffect, WriteKeeps
  <2>2. ReceivedIds \subseteq ReceivedIds'
    BY <2>1 DEF ReceivedIds
  <2> QED BY <1>1, <1>2, <2>2, CallsKeep DEF server
<1>3. CASE ReadSteps
  <2>1. PICK r \in Reads : Receive(r)
    BY <1>3, ReadsReceive
  <2>2. UNCHANGED <<received, accepted, refused, finished, sent, alive>>
    BY <2>1, ReadHasEffect DEF Inv, ReadEffect, server
  <2>3. quiet' \in BOOLEAN
    BY <1>1, <2>1 DEF Receive, Hears
  <2>4. ReceivedIds' = ReceivedIds
    BY <2>2 DEF ReceivedIds
  <2>5. ReadQueues(r)
    BY <2>1, ReadMovesQueues DEF Inv
  <2>6. CASE Popped(r)
    <3>1. notifications[1].n \in (popped + 1)..sent /\ notifications' \in Seq(Notifications)
          /\ Len(notifications') = Len(notifications) - 1 /\ popped' = notifications[1].n /\ inbound' = inbound
      BY <1>1, <2>6, TailFacts DEF Popped, Inv, QueueInv
    <3> QED BY <1>1, <2>2, <2>3, <2>4, <3>1
  <2>7. CASE Passed(r)
    <3>1. inbound[1].note.n \in (popped + 1)..sent /\ inbound' \in Seq(Lines)
          /\ notifications' = notifications /\ popped' = inbound[1].note.n
      BY <1>1, <2>7, TailFacts DEF Passed, Taken, Inv, PipeInv, IsNote, Line
    <3> QED BY <1>1, <2>2, <2>3, <2>4, <3>1
  <2>8. CASE Queued
    <3>1. inbound # <<>> /\ inbound' = Tail(inbound) /\ inbound[1].kind = "note" /\ popped' = popped
          /\ notifications' = Append(notifications, inbound[1].note) /\ Len(notifications) # MaxQueue
      BY <2>8 DEF Queued, Taken, Line
    <3>2. inbound' \in Seq(Lines) /\ inbound[1] \in Lines
      BY <1>1, <3>1, TailFacts
    <3>3. inbound[1].note \in Notifications
      BY <3>1, <3>2, LineForms
    <3>4. notifications' \in Seq(Notifications) /\ Len(notifications') = Len(notifications) + 1
      BY <1>1, <3>1, <3>3, AppendFacts
    <3>5. Len(notifications) \in Nat
      BY <1>1
    <3>6. Len(notifications') <= MaxQueue
      BY <1>1, <3>1, <3>4, <3>5
    <3> QED BY <1>1, <2>2, <2>3, <2>4, <3>1, <3>2, <3>4, <3>6
  <2>9. CASE UNCHANGED <<notifications, popped>> /\ (UNCHANGED inbound \/ Spoiled \/ Taken)
    <3>1. inbound' \in Seq(Lines)
      <4>1. CASE UNCHANGED inbound
        BY <1>1, <4>1
      <4>2. CASE Spoiled
        BY <1>1, <4>2, SpoilFacts DEF Spoiled
      <4>3. CASE Taken
        BY <1>1, <4>3, TailFacts DEF Taken
      <4> QED BY <2>9, <4>1, <4>2, <4>3
    <3> QED BY <1>1, <2>2, <2>3, <2>4, <2>9, <3>1
  <2> QED BY <2>5, <2>6, <2>7, <2>8, <2>9 DEF ReadQueues
<1>4. CASE ServerSteps
  <2>1. ServerEffect
    BY <1>4, ServerHasEffect DEF Inv
  <2>2. UNCHANGED <<notifications, received, quiet, popped>>
    BY <2>1 DEF ServerEffect, ServerKeeps, transport
  <2>3. ReceivedIds' = ReceivedIds
    BY <2>2 DEF ReceivedIds
  <2>4. inbound' \in Seq(Lines)
    BY <1>1, <2>1, AppendFacts DEF ServerEffect, NewLine
  <2>5. alive' \in BOOLEAN
    BY <1>1, <1>4 DEF ServerSteps, Accept, Refuse, Finish, Notify, Asks, Misbehaves
  <2>6. sent' \in Nat /\ popped' \in 0..sent'
    BY <1>1, <2>1, <2>2 DEF ServerEffect
  <2> QED BY <1>1, <2>1, <2>2, <2>3, <2>4, <2>5, <2>6 DEF ServerEffect
<1> QED BY <1>2, <1>3, <1>4 DEF Next

\* What is out, the wire and the counters of the transport.
LEMMA TransportTypes ==
    ASSUME Inv, Next
    PROVE  /\ pending' \in Seq(Requests) /\ Len(pending') <= 1
           /\ next_id' \in 2..MaxId + 1 /\ frame' \in Ids \cup {None} /\ stdout' \in 0..MaxLines
           /\ {ambiguous', initialized', torn', announced'} \subseteq BOOLEAN
           /\ received' \subseteq Requests
<1>1. /\ pending \in Seq(Requests) /\ Len(pending) <= 1
      /\ next_id \in 2..MaxId + 1 /\ frame \in Ids \cup {None} /\ stdout \in 0..MaxLines
      /\ ambiguous \in BOOLEAN /\ initialized \in BOOLEAN /\ torn \in BOOLEAN /\ announced \in BOOLEAN
      /\ received \subseteq Requests /\ MaxId \in Nat
  BY TransportAssumption DEF Inv, TypeOK
<1>2. CASE Calls
  <2>1. frame' \in Ids \cup {None} /\ next_id' \in 2..MaxId + 1
    <3>1. ASSUME NEW w \in Writes, NEW why, Start(w, why) \/ Dispatch(w) PROVE frame' \in {frame, None} /\ next_id' = next_id
      BY <3>1 DEF Start, Dispatch
    <3>2. ASSUME NEW w \in Writes, Attach(w) \/ AskThread(w)
          PROVE  frame' \in {frame, None} /\ next_id' \in 2..MaxId + 1
      <4>1. CASE UNCHANGED transport
        BY <1>1, <4>1 DEF transport
      <4>2. ASSUME NEW kind, MayRequest, SendRequest(kind, w) PROVE frame' = None /\ next_id' \in 2..MaxId + 1
        BY <1>1, <4>2 DEF MayRequest, SendRequest
      <4> QED BY <3>2, <4>1, <4>2 DEF Attach, AskThread
    <3>3. CASE PrepareTurn
      BY <1>1, <3>3 DEF PrepareTurn, MayRequest, Ids
    <3>4. CASE SealExact \/ Probe \/ RefuseWrite \/ RefuseAtLastCheck
      BY <1>1, <3>4 DEF SealExact, Probe, RefuseWrite, RefuseAtLastCheck, transport
    <3>5. ASSUME NEW i, Poll(i) \/ Reconcile(i) PROVE UNCHANGED <<frame, next_id>>
      BY <3>5 DEF Poll, Reconcile, transport
    <3> QED BY <1>1, <1>2, <3>1, <3>2, <3>3, <3>4, <3>5 DEF Calls
  <2>2. CASE WriteKeeps
    BY <1>1, <2>1, <2>2 DEF WriteKeeps
  <2>3. ASSUME NEW q \in Requests, NEW w \in Writes, WriteEffect(q, w)
        PROVE  /\ pending' \in Seq(Requests) /\ Len(pending') <= 1 /\ stdout' = stdout
               /\ {ambiguous', initialized', torn', announced'} \subseteq BOOLEAN /\ received' \subseteq Requests
    <3>1. <<>> \in Seq(Requests) /\ Len(<<>>) <= 1 /\ <<q>> \in Seq(Requests) /\ Len(<<q>>) <= 1
      OBVIOUS
    <3> QED BY <1>1, <2>3, <3>1 DEF WriteEffect
  <2> QED BY <1>1, <1>2, <2>1, <2>2, <2>3, CallsWrite
<1>3. CASE ReadSteps
  <2>1. PICK r \in Reads : Receive(r)
    BY <1>3, ReadsReceive
  <2>2. <<>> \in Seq(Requests) /\ Len(<<>>) <= 1
    OBVIOUS
  <2> QED BY <1>1, <2>1, <2>2, ReadForms, ReadHasEffect DEF Inv, ReadEffect
<1>4. CASE ServerSteps
  <2>1. UNCHANGED <<pending, next_id, frame, stdout, ambiguous, initialized, torn, announced, received>>
    BY <1>4, ServerHasEffect DEF Inv, ServerEffect, ServerKeeps, transport
  <2> QED BY <1>1, <2>1
<1> QED BY <1>2, <1>3, <1>4 DEF Next

\* The places of the calls, the lane and the epoch.
LaneRange == /\ at' \in Places /\ epoch' \in Nat /\ lane' \in -1..epoch' /\ faults' \in Nat
             /\ purpose' \in {"create", "resume"} /\ turn' \in Ids \cup {None}
             /\ at' \in {"recheck", "dispatch", "answer", "poll", "reconcile"} => turn' \in Ids

LEMMA ReadFaults ==
    ASSUME faults \in Nat, NEW r, Receive(r)
    PROVE  faults' \in Nat
<1>1. ASSUME NEW w, WriteFails(w) PROVE faults' \in {faults, faults + 1}
  BY <1>1 DEF WriteFails, Fault, NoFault
<1>2. CASE ReadResponse(r)
  BY <1>1, <1>2 DEF ReadResponse
<1>3. CASE ReadServerRequest(r)
  BY <1>1, <1>3 DEF ReadServerRequest
<1>4. CASE NoLine(r)
  BY <1>4 DEF NoLine, Fault, NoFault
<1>5. CASE PopQueued(r) \/ OverStdout(r) \/ ReadUnusable(r) \/ ReadNativeError(r) \/ ReadNotification(r)
  BY <1>5 DEF PopQueued, OverStdout, ReadUnusable, ReadNativeError, ReadNotification
<1> QED BY <1>2, <1>3, <1>4, <1>5 DEF Receive

LEMMA LaneTypes ==
    ASSUME Inv, Next
    PROVE  LaneRange
<1>1. /\ at \in Places /\ epoch \in Nat /\ lane \in -1..epoch /\ faults \in Nat
      /\ purpose \in {"create", "resume"} /\ turn \in Ids \cup {None}
      /\ at \in {"recheck", "dispatch", "answer", "poll", "reconcile"} => turn \in Ids
      /\ next_id \in Nat /\ MaxId \in Nat /\ next_id >= 2
  BY TransportAssumption DEF Inv, TypeOK, RangeInv
<1>2. \A e \in {epoch, epoch + 1} : e \in Nat /\ lane \in -1..e /\ NoLane \in -1..e /\ epoch \in -1..e
  BY <1>1 DEF NoLane
<1>3. ASSUME NEW w, WriteFails(w) PROVE faults' \in Nat
  BY <1>1, <1>3 DEF WriteFails, Fault, NoFault
<1>4. CASE Calls
  <2>1. ASSUME NEW w \in Writes, NEW why \in {"create", "resume"}, Start(w, why) PROVE LaneRange
    BY <1>1, <1>3, <2>1 DEF Start, Goes, Places, LaneRange
  <2>2. ASSUME NEW w \in Writes, Attach(w) PROVE LaneRange
    <3>1. faults' \in Nat
      BY <1>1, <1>3, <2>2 DEF Attach, SendRequest
    <3>2. at' \in {"creating", "quarantined", "stopped"}
      BY <2>2 DEF Attach, Goes, CreateEnds
    <3> QED BY <1>1, <2>2, <3>1, <3>2 DEF Attach, KeepsCalls, LaneRange, Places
  <2>3. ASSUME NEW w \in Writes, AskThread(w) PROVE LaneRange
    <3>1. faults' \in Nat
      BY <1>1, <1>3, <2>3 DEF AskThread, SendRequest
    <3>2. at' \in {"await", "free"}
      BY <2>3 DEF AskThread, Goes
    <3> QED BY <1>1, <2>3, <3>1, <3>2 DEF AskThread, KeepsCalls, LaneRange, Places
  <2>4. ASSUME NEW w \in Writes, Dispatch(w) PROVE LaneRange
    <3>1. at' \in {"answer", "free"} /\ lane' \in {lane, NoLane} /\ turn \in Ids
      BY <1>1, <2>4 DEF Dispatch, Answers, Goes
    <3>2. UNCHANGED <<epoch, purpose, turn>> /\ faults' \in Nat
      BY <1>3, <2>4 DEF Dispatch
    <3> QED BY <1>1, <1>2, <3>1, <3>2 DEF LaneRange, Places
  <2>5. CASE SealExact
    BY <1>1, <2>5 DEF SealExact, KeepsCalls, Goes, LaneRange, Places
  <2>6. CASE Probe
    BY <1>1, <2>6 DEF Probe, Goes, LaneRange, Places
  <2>7. CASE RefuseWrite
    BY <1>1, <1>2, <2>7 DEF RefuseWrite, LaneRange
  <2>8. CASE PrepareTurn
    BY <1>1, <2>8 DEF PrepareTurn, Goes, MayRequest, LaneRange, Places, Ids
  <2>9. CASE RefuseAtLastCheck
    BY <1>1, <1>2, <2>9 DEF RefuseAtLastCheck, Answers, Goes, LaneRange, Places
  <2>10. ASSUME NEW i \in Ids, Poll(i) PROVE LaneRange
    <3>1. at' \in {at, "poll"} /\ at = "free" /\ turn' = i /\ UNCHANGED <<epoch, lane, purpose, faults>>
      BY <2>10 DEF Poll, Goes
    <3> QED BY <1>1, <3>1 DEF LaneRange, Places
  <2>11. ASSUME NEW i \in Ids, Reconcile(i) PROVE LaneRange
    BY <1>1, <2>11 DEF Reconcile, Goes, LaneRange, Places
  <2> QED BY <1>4, <2>1, <2>2, <2>3, <2>4, <2>5, <2>6, <2>7, <2>8, <2>9, <2>10, <2>11 DEF Calls
<1>5. CASE ReadSteps
  <2>0. PICK r \in Reads :
           \/ Handshake(r) \/ Creating(r) \/ ReceiveLate(r)
           \/ ProbeDrain(r) \/ ReadThread(r) \/ ProbeSettles(r)
           \/ Recheck(r) \/ ReadTurn(r) \/ PollReads(r) \/ ReconcileReads(r)
    BY <1>5 DEF ReadSteps
  <2>1. Receive(r) /\ UNCHANGED <<purpose, turn>>
    BY <2>0 DEF Handshake, Creating, ReceiveLate, ProbeDrain, ReadThread, ProbeSettles, Recheck, ReadTurn,
       PollReads, ReconcileReads, Drains, KeepsCalls
  <2>2. faults' \in Nat
    BY <1>1, <2>1, ReadFaults
  <2>3. epoch' \in {epoch, epoch + 1}
    BY <2>0 DEF Handshake, Creating, ReceiveLate, ProbeDrain, ReadThread, ProbeSettles, Recheck, ReadTurn,
       PollReads, ReconcileReads, Drains, KeepsCalls
  <2>4. lane' \in -1..epoch'
    <3>1. CASE Handshake(r) \/ Creating(r) \/ ReceiveLate(r) \/ ProbeDrain(r) \/ ReadThread(r)
               \/ PollReads(r) \/ ReconcileReads(r)
      BY <1>2, <2>3, <3>1 DEF Handshake, Creating, ReceiveLate, ProbeDrain, ReadThread, PollReads, ReconcileReads,
         KeepsCalls
    <3>2. CASE ProbeSettles(r)
      <4>1. lane' \in {lane, NoLane, epoch}
        BY <3>2 DEF ProbeSettles
      <4> QED BY <1>2, <2>3, <4>1
    <3>3. CASE Recheck(r) \/ ReadTurn(r)
      <4>1. lane' \in {lane, NoLane}
        BY <3>3 DEF Recheck, ReadTurn, Answers
      <4> QED BY <1>2, <2>3, <4>1
    <3> QED BY <2>0, <3>1, <3>2, <3>3
  <2>5. at' \in Places /\ (at' \in {"recheck", "dispatch", "answer", "poll", "reconcile"} =>
                              at \in {"recheck", "answer", "poll", "reconcile"})
    <3>1. CASE Handshake(r) \/ Creating(r) \/ ReceiveLate(r)
      BY <1>1, <3>1 DEF Handshake, Creating, ReceiveLate, CreateEnds, Owned, Goes, Places
    <3>2. CASE ProbeDrain(r) \/ ReadThread(r) \/ ProbeSettles(r)
      BY <1>1, <3>2 DEF ProbeDrain, ReadThread, ProbeSettles, Goes, Places
    <3>3. CASE Recheck(r) \/ ReadTurn(r) \/ ReconcileReads(r)
      BY <1>1, <3>3 DEF Recheck, ReadTurn, ReconcileReads, Answers, Goes, Places
    <3>4. CASE PollReads(r)
      <4>1. at' \in {"poll", "free"} /\ at = "poll"
        BY <3>4 DEF PollReads, Observes, Goes
      <4> QED BY <1>1, <4>1 DEF Places
    <3> QED BY <2>0, <3>1, <3>2, <3>3, <3>4
  <2> QED BY <1>1, <1>2, <2>1, <2>2, <2>3, <2>4, <2>5 DEF LaneRange
<1>6. CASE ServerSteps
  <2>1. UNCHANGED <<at, epoch, lane, purpose, turn>>
    BY <1>6, ServerHasEffect DEF Inv, ServerEffect, ServerKeeps, controller
  <2>2. faults' \in {faults, faults + 1}
    BY <1>6 DEF ServerSteps, Accept, Refuse, Finish, Notify, Asks, Misbehaves, Fault, NoFault
  <2>3. faults' \in Nat
    BY <1>1, <2>2
  <2> QED BY <1>1, <2>1, <2>3 DEF LaneRange
<1> QED BY <1>4, <1>5, <1>6 DEF Next

\* What is on record of the calls.
LEMMA RecordTypes ==
    ASSUME Inv, Next
    PROVE  /\ written' \in [Ids -> Dispositions]
           /\ created' \in {"none", "owned", "unknown", "notAccepted", "failed"}
           /\ {terminal', lost_reported', degraded_reported'} \subseteq BOOLEAN
<1>1. /\ written \in [Ids -> Dispositions]
      /\ created \in {"none", "owned", "unknown", "notAccepted", "failed"}
      /\ terminal \in BOOLEAN /\ lost_reported \in BOOLEAN /\ degraded_reported \in BOOLEAN
  BY DEF Inv, TypeOK
<1>2. \A d \in Dispositions, i \in Ids : [written EXCEPT ![i] = d] \in [Ids -> Dispositions]
  BY <1>1
<1>3. \A r : Disposition(r) \subseteq Dispositions
  BY DEF Disposition, Dispositions
<1>4. created' \in {"none", "owned", "unknown", "notAccepted", "failed"}
  <2>1. CASE Calls
    BY <1>1, <2>1 DEF Calls, Start, Attach, AskThread, Dispatch, SealExact, Probe, RefuseWrite, PrepareTurn,
       RefuseAtLastCheck, Poll, Reconcile, CreateEnds, history
  <2>2. CASE ReadSteps
    BY <1>1, <2>2 DEF ReadSteps, Handshake, Creating, ReceiveLate, ProbeDrain, ReadThread, ProbeSettles,
       Recheck, ReadTurn, PollReads, ReconcileReads, CreateEnds, Owned, history
  <2>3. CASE ServerSteps
    BY <1>1, <2>3, ServerHasEffect DEF Inv, ServerEffect, ServerKeeps, history
  <2> QED BY <2>1, <2>2, <2>3 DEF Next
<1>5. written' \in [Ids -> Dispositions]
  <2>0. {"notAccepted", "unknown", "accepted"} \subseteq Dispositions
    BY DEF Dispositions
  <2>1. CASE Calls
    <3>1. ASSUME NEW w \in Writes, Dispatch(w) PROVE written' \in [Ids -> Dispositions]
      <4>1. written' = written \/ written' = [written EXCEPT ![turn] = Failed(w)]
        BY <3>1 DEF Dispatch, Answers
      <4>2. turn \in Ids /\ Failed(w) \in Dispositions
        BY <2>0, <3>1 DEF Dispatch, Inv, RangeInv, Failed
      <4> QED BY <1>1, <1>2, <4>1, <4>2
    <3>2. CASE RefuseAtLastCheck
      <4>1. written' = [written EXCEPT ![turn] = "notAccepted"] /\ turn \in Ids
        BY <3>2 DEF RefuseAtLastCheck, Answers, Inv, RangeInv
      <4> QED BY <1>2, <2>0, <4>1
    <3>3. ASSUME NEW w, NEW why, Start(w, why) \/ Attach(w) \/ AskThread(w) PROVE written' = written
      BY <3>3 DEF Start, Attach, AskThread, history
    <3>4. CASE SealExact \/ Probe \/ RefuseWrite \/ PrepareTurn
      BY <1>1, <3>4 DEF SealExact, Probe, RefuseWrite, PrepareTurn, history
    <3>5. ASSUME NEW i, Poll(i) \/ Reconcile(i) PROVE written' = written
      BY <3>5 DEF Poll, Reconcile, history
    <3> QED BY <1>1, <2>1, <3>1, <3>2, <3>3, <3>4, <3>5 DEF Calls
  <2>2. CASE ReadSteps
    <3>0. PICK r \in Reads :
             \/ Handshake(r) \/ Creating(r) \/ ReceiveLate(r)
             \/ ProbeDrain(r) \/ ReadThread(r) \/ ProbeSettles(r)
             \/ Recheck(r) \/ ReadTurn(r) \/ PollReads(r) \/ ReconcileReads(r)
      BY <2>2 DEF ReadSteps
    <3>1. CASE Recheck(r) \/ ReadTurn(r) \/ ReconcileReads(r)
      <4>1. written' = written \/ \E d \in Dispositions : written' = [written EXCEPT ![turn] = d]
        BY <1>3, <2>0, <3>1 DEF Recheck, ReadTurn, ReconcileReads, Answers
      <4>2. turn \in Ids
        BY <3>1 DEF Recheck, ReadTurn, ReconcileReads, Inv, RangeInv
      <4> QED BY <1>1, <1>2, <4>1, <4>2
    <3>2. CASE ~(Recheck(r) \/ ReadTurn(r) \/ ReconcileReads(r))
      BY <1>1, <3>0, <3>2 DEF Handshake, Creating, ReceiveLate, ProbeDrain, ReadThread, ProbeSettles, PollReads, history
    <3> QED BY <3>1, <3>2
  <2>3. CASE ServerSteps
    BY <1>1, <2>3, ServerHasEffect DEF Inv, ServerEffect, ServerKeeps, history
  <2> QED BY <2>1, <2>2, <2>3 DEF Next
<1>6. /\ terminal' \in {TRUE, terminal} /\ lost_reported' \in {TRUE, lost_reported}
      /\ degraded_reported' \in {TRUE, degraded_reported}
  <2>1. CASE Calls
    <3>1. ASSUME NEW i, Poll(i)
          PROVE  /\ terminal' \in {TRUE, terminal} /\ lost_reported' = lost_reported
                 /\ degraded_reported' \in {TRUE, degraded_reported}
      BY <3>1 DEF Poll, Once
    <3>2. CASE ~\E i \in Ids : Poll(i)
      BY <2>1, <3>2 DEF Calls, Start, Attach, AskThread, Dispatch, SealExact, Probe, RefuseWrite, PrepareTurn,
         RefuseAtLastCheck, Reconcile, observation
    <3> QED BY <3>1, <3>2
  <2>2. CASE ReadSteps
    <3>1. ASSUME NEW r, PollReads(r)
          PROVE  /\ terminal' \in {TRUE, terminal} /\ lost_reported' \in {TRUE, lost_reported}
                 /\ degraded_reported' \in {TRUE, degraded_reported}
      BY <3>1 DEF PollReads, Observes, Once, observation
    <3>2. CASE ~\E r \in Reads : PollReads(r)
      BY <2>2, <3>2 DEF ReadSteps, Handshake, Creating, ReceiveLate, ProbeDrain, ReadThread, ProbeSettles,
         Recheck, ReadTurn, ReconcileReads, observation
    <3> QED BY <3>1, <3>2
  <2>3. CASE ServerSteps
    BY <2>3, ServerHasEffect DEF Inv, ServerEffect, ServerKeeps, observation
  <2> QED BY <2>1, <2>2, <2>3 DEF Next
<1> QED BY <1>1, <1>4, <1>5, <1>6

LEMMA TypesHold ==
    ASSUME Inv, Next
    PROVE  TypeOK' /\ RangeInv'
BY QueueTypes, TransportTypes, LaneTypes, RecordTypes DEF TypeOK, RangeInv, LaneRange

-----------------------------------------------------------------------------
(* One request at a time, and lines that are true. *)

LEMMA CallPlaces ==
    ASSUME Calls
    PROVE  /\ at # "stopped" /\ at' # "down"
           /\ at' \notin {"handshake", "stopped"} => at \notin {"down", "handshake"}
<1>1. ASSUME NEW w, NEW why, Start(w, why) \/ Attach(w) \/ AskThread(w) \/ Dispatch(w)
      PROVE  /\ at # "stopped" /\ at' # "down"
             /\ at' \notin {"handshake", "stopped"} => at \notin {"down", "handshake"}
  BY <1>1 DEF Start, Attach, AskThread, Dispatch, Goes, CreateEnds, Answers
<1>2. CASE SealExact \/ Probe \/ RefuseWrite \/ PrepareTurn \/ RefuseAtLastCheck
  BY <1>2 DEF SealExact, Probe, RefuseWrite, PrepareTurn, RefuseAtLastCheck, Goes, Answers
<1>3. ASSUME NEW i, Poll(i) \/ Reconcile(i)
      PROVE  /\ at # "stopped" /\ at' # "down"
             /\ at' \notin {"handshake", "stopped"} => at \notin {"down", "handshake"}
  BY <1>3 DEF Poll, Reconcile, Goes
<1> QED BY <1>1, <1>2, <1>3 DEF Calls

\* A read and where it is done.
ReadAt(r) ==
    /\ r \in Reads /\ Receive(r)
    /\ at \notin {"down", "stopped"} /\ at' # "down"
    /\ at # "handshake" => at' # "handshake"
    /\ at = "handshake" /\ at' \notin {"handshake", "stopped"} => r.is = "Initialized"

LEMMA ReadPlaces ==
    ASSUME ReadSteps
    PROVE  \E r : ReadAt(r)
<1>0. PICK r \in Reads :
         \/ Handshake(r) \/ Creating(r) \/ ReceiveLate(r)
         \/ ProbeDrain(r) \/ ReadThread(r) \/ ProbeSettles(r)
         \/ Recheck(r) \/ ReadTurn(r) \/ PollReads(r) \/ ReconcileReads(r)
  BY DEF ReadSteps
<1>1. CASE Handshake(r) \/ Creating(r) \/ ReceiveLate(r)
  BY <1>1 DEF Handshake, Creating, ReceiveLate, CreateEnds, Owned, Goes, ReadAt
<1>2. CASE ProbeDrain(r) \/ ReadThread(r) \/ ProbeSettles(r)
  BY <1>2 DEF ProbeDrain, ReadThread, ProbeSettles, Goes, Drains, ReadAt
<1>3. CASE Recheck(r) \/ ReadTurn(r) \/ ReconcileReads(r)
  BY <1>3 DEF Recheck, ReadTurn, ReconcileReads, Answers, Goes, Drains, ReadAt
<1>4. CASE PollReads(r)
  BY <1>4 DEF PollReads, Observes, Goes, ReadAt
<1> QED BY <1>0, <1>1, <1>2, <1>3, <1>4

LEMMA LinesStep ==
    ASSUME Inv, Next
    PROVE  LinesInv'
<1>1. /\ inbound \in Seq(Lines) /\ \A k \in DOMAIN inbound : LineTrue(inbound[k])
      /\ accepted \subseteq ReceivedIds /\ refused \subseteq ReceivedIds
  BY DEF Inv, LinesInv, TypeOK, RangeInv
<1>2. CASE Calls
  <2>1. UNCHANGED <<inbound, accepted, refused>>
    BY <1>2, CallsKeep DEF server
  <2>2. CASE UNCHANGED pending
    BY <1>1, <2>1, <2>2 DEF LinesInv, LineTrue
  <2>3. ASSUME NEW q, q.id \notin ReceivedIds, pending' \in {<<>>, <<q>>} PROVE LinesInv'
    <3>1. \A k \in DOMAIN pending' : pending'[k].id = q.id
      BY <2>3
    <3> QED BY <1>1, <2>1, <2>3, <3>1 DEF LinesInv, LineTrue
  <2> QED BY <1>2, <2>2, <2>3, CallsWrite DEF WriteKeeps, WriteEffect
<1>3. CASE ReadSteps
  <2>1. PICK r : ReadAt(r)
    BY <1>3, ReadPlaces
  <2>2. UNCHANGED <<accepted, refused>> /\ pending' \in {pending, <<>>}
    BY <2>1, ReadHasEffect DEF ReadAt, Inv, ReadEffect, server
  <2>3. \A k \in DOMAIN inbound' :
            inbound'[k].kind = "junk" \/ \E l \in DOMAIN inbound : inbound'[k] = inbound[l]
    <3>1. CASE UNCHANGED inbound
      BY <3>1
    <3>2. CASE Spoiled
      BY <1>1, <3>2, SpoilFacts DEF Spoiled
    <3>3. CASE Taken
      BY <1>1, <3>3, TailFacts DEF Taken
    <3> QED BY <2>1, <3>1, <3>2, <3>3, ReadMovesQueues DEF ReadAt, Inv, ReadQueues, Popped, Passed, Queued
  <2>4. \A line : LineTrue(line) => /\ line.kind = "response" => line.id \in accepted'
                                    /\ line.kind = "error" => /\ line.id \in accepted' \cup refused'
                                                              /\ line.id \in refused' \/ \A k \in DOMAIN pending' : pending'[k].id # line.id
    BY <2>2 DEF LineTrue
  <2>5. ASSUME NEW k \in DOMAIN inbound' PROVE LineTrue(inbound[k])'
    <3>1. CASE inbound'[k].kind = "junk"
      BY <3>1 DEF LineTrue
    <3>2. ASSUME NEW l \in DOMAIN inbound, inbound'[k] = inbound[l] PROVE LineTrue(inbound[k])'
      BY <1>1, <2>4, <3>2 DEF LineTrue
    <3> QED BY <2>3, <3>1, <3>2
  <2> QED BY <2>5 DEF LinesInv
<1>4. CASE ServerSteps
  <2>1. /\ ServerEffect /\ UNCHANGED pending /\ accepted \subseteq accepted' /\ refused \subseteq refused'
    BY <1>4, ServerHasEffect DEF Inv, ServerEffect, ServerKeeps, transport
  <2>2. \A line : LineTrue(line) => /\ line.kind = "response" => line.id \in accepted'
                                    /\ line.kind = "error" => /\ line.id \in accepted' \cup refused'
                                                              /\ line.id \in refused' \/ \A k \in DOMAIN pending' : pending'[k].id # line.id
    BY <2>1 DEF LineTrue
  <2>3. CASE UNCHANGED inbound
    BY <1>1, <2>2, <2>3 DEF LinesInv, LineTrue
  <2>4. ASSUME NEW line, inbound' = Append(inbound, line), NewLine(line) PROVE LinesInv'
    <3>1. line \in Lines
      BY <2>4 DEF NewLine
    <3>2. /\ DOMAIN inbound' = DOMAIN inbound \cup {Len(inbound) + 1}
          /\ \A k \in DOMAIN inbound : inbound'[k] = inbound[k]
          /\ inbound'[Len(inbound) + 1] = line
      BY <1>1, <2>4, <3>1, AppendFacts
    <3>3. /\ line.kind = "response" => line.id \in accepted'
          /\ line.kind = "error" => /\ line.id \in accepted' \cup refused'
                                    /\ line.id \in refused' \/ \A k \in DOMAIN pending' : pending'[k].id # line.id
      BY <2>1, <2>4 DEF NewLine
    <3> QED BY <1>1, <2>2, <3>2, <3>3 DEF LinesInv, LineTrue
  <2> QED BY <2>1, <2>3, <2>4 DEF ServerEffect
<1> QED BY <1>2, <1>3, <1>4 DEF Next

LEMMA FlightStep ==
    ASSUME Inv, Next
    PROVE  FlightInv'
<1>1. /\ next_id \in Nat /\ received \subseteq Requests /\ pending \in Seq(Requests) /\ TypeOK
      /\ \A q \in received : q.id < next_id
      /\ \A k \in DOMAIN pending : pending[k].id < next_id /\ (pending[k].id \in ReceivedIds => pending[k] \in received)
      /\ at # "stopped" => \A q \in Unanswered : IF pending = <<>> THEN ambiguous ELSE pending[1] = q
      /\ \A q \in received : q.kind = "initialize" \/ announced
      /\ initialized => announced
      /\ at \notin {"down", "handshake", "stopped"} => initialized
  BY TransportAssumption DEF Inv, FlightInv, TypeOK, SingleFlight
<1>2. CASE Calls
  <2>1. /\ at # "stopped" /\ UNCHANGED <<accepted, refused>>
        /\ at' \notin {"down", "handshake", "stopped"} => initialized
    BY <1>1, <1>2, CallPlaces, CallsKeep DEF server
  <2>2. CASE WriteKeeps /\ next_id' \in {next_id, next_id + 1}
    <3>1. /\ UNCHANGED <<received, pending, ambiguous, announced, initialized>>
          /\ \A n \in Nat : n < next_id => n < next_id'
      BY <1>1, <2>2 DEF WriteKeeps
    <3>2. Unanswered' = Unanswered /\ ReceivedIds' = ReceivedIds
      BY <2>1, <3>1 DEF Unanswered, ReceivedIds
    <3>3. \A q \in received : q.id \in Nat
      BY <1>1 DEF Requests, Ids
    <3>4. \A k \in DOMAIN pending : pending[k].id \in Nat
      <4>1. \A k \in DOMAIN pending : pending[k] \in Requests
        BY <1>1
      <4> QED BY <4>1 DEF Requests, Ids
    <3> QED BY <1>1, <2>1, <3>1, <3>2, <3>3, <3>4 DEF FlightInv, SingleFlight
  <2>3. ASSUME NEW q \in Requests, NEW w \in Writes, WriteEffect(q, w) PROVE FlightInv'
    <3>1. /\ pending' \in {<<>>, <<q>>} /\ received' \in {received, received \cup {q}}
          /\ pending' = <<>> => received' = received \/ ambiguous'
          /\ q.id \notin ReceivedIds /\ q.id < next_id' /\ Unanswered = {}
          /\ q.kind = "initialize" \/ announced
          /\ UNCHANGED <<initialized, announced>>
          /\ next_id' \in {next_id, next_id + 1}
      BY <2>3 DEF WriteEffect
    <3>2. \A p \in received' : p.id < next_id'
      <4>1. \A p \in received : p.id < next_id'
        BY <1>1, <3>1 DEF Requests, Ids
      <4> QED BY <3>1, <4>1
    <3>3. \A k \in DOMAIN pending' : pending'[k] = q
      BY <3>1
    <3>4. q.id \in ReceivedIds' => q \in received'
      BY <3>1 DEF ReceivedIds
    <3>5. \A p \in Unanswered' : received' # received /\ p = q
      BY <2>1, <3>1 DEF Unanswered
    <3>6. \A p \in Unanswered' : IF pending' = <<>> THEN ambiguous' ELSE pending'[1] = p
      BY <3>1, <3>5
    <3>7. SingleFlight'
      BY <1>1, <3>1, <3>6 DEF SingleFlight
    <3> QED BY <1>1, <2>1, <3>1, <3>2, <3>3, <3>4, <3>7 DEF FlightInv
  <2> QED BY <1>2, <2>2, <2>3, CallsWrite
<1>3. CASE ReadSteps
  <2>1. PICK r : ReadAt(r)
    BY <1>3, ReadPlaces
  <2>2. ReadEffect(r) /\ at \notin {"down", "stopped"} /\ at' # "down" /\ (at # "handshake" => at' # "handshake")
        /\ (at = "handshake" /\ at' \notin {"handshake", "stopped"} => r.is = "Initialized")
    BY <2>1, ReadHasEffect DEF ReadAt, Inv
  <2>3. /\ UNCHANGED <<next_id, received, accepted, refused>>
        /\ pending' \in {pending, <<>>}
        /\ pending' # pending => Pend.id \in accepted \cup refused
        /\ pending = <<>> /\ ambiguous => ambiguous'
        /\ announced => announced'
        /\ initialized' # initialized => pending # <<>> /\ Pend.kind = "initialize"
        /\ initialized' => initialized \/ announced'
        /\ r.is = "Initialized" => initialized'
    BY <2>2 DEF ReadEffect, server
  <2>4. Unanswered' = Unanswered /\ ReceivedIds' = ReceivedIds
    BY <2>3 DEF Unanswered, ReceivedIds
  <2>5. \A q \in Unanswered : IF pending' = <<>> THEN ambiguous' ELSE pending'[1] = q
    <3> SUFFICES ASSUME NEW q \in Unanswered
                 PROVE  IF pending' = <<>> THEN ambiguous' ELSE pending'[1] = q
      OBVIOUS
    <3>1. q.id \notin accepted \cup refused
      BY DEF Unanswered
    <3>2. CASE pending = <<>>
      BY <1>1, <2>2, <2>3, <3>2
    <3>3. CASE pending # <<>>
      <4>1. q = Pend
        BY <1>1, <2>2, <3>3 DEF Pend
      <4>2. pending' = pending
        BY <2>3, <3>1, <4>1
      <4> QED BY <3>3, <4>1, <4>2 DEF Pend
    <3> QED BY <3>2, <3>3
  <2>6. SingleFlight'
    BY <1>1, <2>3, <2>4, <2>5 DEF SingleFlight
  <2>7. at' \notin {"down", "handshake", "stopped"} => initialized'
    <3>1. CASE at = "handshake"
      BY <2>2, <2>3, <3>1
    <3>2. CASE at # "handshake"
      <4>1. initialized /\ (pending # <<>> => Pend.kind # "initialize")
        BY <1>1, <2>2, <3>2, PendingIsOne DEF Inv, CreateInv, Pend
      <4> QED BY <2>3, <4>1
    <3> QED BY <3>1, <3>2
  <2>8. \A k \in DOMAIN pending' : k \in DOMAIN pending /\ pending'[k] = pending[k]
    BY <2>3
  <2> QED BY <1>1, <2>3, <2>4, <2>6, <2>7, <2>8 DEF FlightInv
<1>4. CASE ServerSteps
  <2>1. /\ UNCHANGED <<next_id, received, pending, ambiguous, announced, initialized, at>>
        /\ accepted \subseteq accepted' /\ refused \subseteq refused'
    BY <1>4, ServerHasEffect DEF Inv, ServerEffect, ServerKeeps, transport, controller
  <2>2. Unanswered' \subseteq Unanswered /\ ReceivedIds' = ReceivedIds
    BY <2>1 DEF Unanswered, ReceivedIds
  <2> QED BY <1>1, <2>1, <2>2 DEF FlightInv, SingleFlight
<1> QED BY <1>2, <1>3, <1>4 DEF Next

-----------------------------------------------------------------------------
(* Up to the end of the create, and after it. *)

Early == {"down", "handshake", "attach", "creating", "quarantined", "exact"}

\* A step of a controller that has its thread.
LateStep ==
    /\ at \notin Early \cup {"stopped"} /\ at' \notin Early \cup {"stopped"}
    /\ UNCHANGED <<created, purpose>>

\* The steps before.
EarlyCall(w) ==
    \/ \E why \in {"create", "resume"} : Start(w, why)
    \/ Attach(w) \/ SealExact
EarlyRead(r) == Handshake(r) \/ Creating(r) \/ ReceiveLate(r)

LEMMA SealIsEarly == SealExact => \E w \in Writes : EarlyCall(w)
<1>1. \E w \in Writes : TRUE
  BY DEF Writes
<1> QED BY <1>1 DEF EarlyCall

LEMMA LateCalls ==
    ASSUME Calls
    PROVE  (\E w \in Writes : EarlyCall(w)) \/ LateStep
<1>1. ASSUME NEW w \in Writes, AskThread(w) \/ Dispatch(w) PROVE LateStep
  BY <1>1 DEF AskThread, Dispatch, Answers, Goes, KeepsCalls, LateStep, Early, history
<1>2. CASE Probe \/ RefuseWrite \/ PrepareTurn \/ RefuseAtLastCheck
  BY <1>2 DEF Probe, RefuseWrite, PrepareTurn, RefuseAtLastCheck, Answers, Goes, LateStep, Early, history
<1>3. ASSUME NEW i, Poll(i) \/ Reconcile(i) PROVE LateStep
  BY <1>3 DEF Poll, Reconcile, Goes, LateStep, Early, history
<1> QED BY <1>1, <1>2, <1>3, SealIsEarly DEF Calls, EarlyCall

LEMMA LateReads ==
    ASSUME ReadSteps
    PROVE  \E r \in Reads : Receive(r) /\ (EarlyRead(r) \/ LateStep)
<1>0. PICK r \in Reads :
         \/ Handshake(r) \/ Creating(r) \/ ReceiveLate(r)
         \/ ProbeDrain(r) \/ ReadThread(r) \/ ProbeSettles(r)
         \/ Recheck(r) \/ ReadTurn(r) \/ PollReads(r) \/ ReconcileReads(r)
  BY DEF ReadSteps
<1>1. CASE Handshake(r) \/ Creating(r) \/ ReceiveLate(r)
  BY <1>1 DEF Handshake, Creating, ReceiveLate, EarlyRead
<1>2. CASE ProbeDrain(r) \/ ReadThread(r) \/ ProbeSettles(r)
  BY <1>2 DEF ProbeDrain, ReadThread, ProbeSettles, Goes, Drains, LateStep, Early, history
<1>3. CASE Recheck(r) \/ ReadTurn(r) \/ ReconcileReads(r)
  BY <1>3 DEF Recheck, ReadTurn, ReconcileReads, Answers, Goes, Drains, LateStep, Early
<1>4. CASE PollReads(r)
  BY <1>4 DEF PollReads, Observes, Goes, LateStep, Early
<1> QED BY <1>0, <1>1, <1>2, <1>3, <1>4

\* What is pending after a late step was pending before or is not `initialize`.
LEMMA LatePending ==
    ASSUME Inv, LateStep, Calls \/ ReadSteps
    PROVE  \A k \in DOMAIN pending' : pending'[k].kind # "initialize"
<1>1. \A k \in DOMAIN pending : pending[k].kind # "initialize"
  BY DEF Inv, CreateInv, LateStep, Early
<1>2. CASE ReadSteps
  <2>1. pending' \in {pending, <<>>}
    BY <1>2, ReadsReceive, ReadForms DEF Inv
  <2> QED BY <1>1, <2>1
<1>3. CASE Calls
  <2>1. ASSUME NEW q \in Requests, NEW w \in Writes, WriteEffect(q, w)
        PROVE  pending' \in {<<>>, <<q>>}
    BY <2>1 DEF WriteEffect
  <2>2. ASSUME NEW w \in Writes, AskThread(w) PROVE \A k \in DOMAIN pending' : pending'[k].kind # "initialize"
    <3>1. CASE MayRequest /\ SendRequest("thread/read", w)
      <4>1. WriteEffect([id |-> next_id, kind |-> "thread/read"], w)
        BY <2>2, <3>1, SendWrites DEF AskThread
      <4>2. pending' \in {<<>>, <<[id |-> next_id, kind |-> "thread/read"]>>}
        BY <4>1 DEF WriteEffect
      <4> QED BY <4>2
    <3>2. CASE UNCHANGED transport
      BY <1>1, <3>2 DEF transport
    <3> QED BY <2>2, <3>1, <3>2 DEF AskThread
  <2>3. ASSUME NEW w \in Writes, Dispatch(w) PROVE \A k \in DOMAIN pending' : pending'[k].kind # "initialize"
    <3>1. pending' \in {<<>>, <<TheTurn>>}
      BY <2>3, DispatchWrites DEF WriteEffect
    <3> QED BY <3>1 DEF TheTurn
  <2>4. CASE UNCHANGED pending
    BY <1>1, <2>4
  <2>5. \/ \E w \in Writes : AskThread(w) \/ Dispatch(w)
        \/ UNCHANGED pending
    <3>1. ASSUME NEW w, NEW why, Start(w, why) \/ Attach(w) PROVE FALSE
      BY <3>1 DEF Start, Attach, LateStep, Early
    <3>2. ASSUME NEW i, Poll(i) \/ Reconcile(i) PROVE UNCHANGED pending
      BY <3>2 DEF Poll, Reconcile, transport
    <3>3. CASE SealExact \/ Probe \/ RefuseWrite \/ PrepareTurn \/ RefuseAtLastCheck
      BY <3>3 DEF SealExact, Probe, RefuseWrite, PrepareTurn, RefuseAtLastCheck, transport
    <3> QED BY <1>3, <3>1, <3>2, <3>3 DEF Calls
  <2> QED BY <2>2, <2>3, <2>4, <2>5
<1> QED BY <1>2, <1>3

LEMMA CreateStep ==
    ASSUME Inv, Next
    PROVE  CreateInv'
<1>1. /\ pending \in Seq(Requests)
      /\ at = "down" => received = {} /\ pending = <<>>
      /\ \A k \in DOMAIN pending : pending[k].kind = "initialize" => at \in {"handshake", "stopped"}
      /\ at \in {"down", "handshake", "attach"} => \A q \in received : q.kind = "initialize"
      /\ at \in {"creating", "quarantined"} =>
             \A q \in received : q.kind = "thread/start" => pending = <<>> \/ q = pending[1]
      /\ created = "notAccepted" => at = "stopped"
      /\ at \in {"down", "handshake", "attach", "creating", "quarantined", "exact"} => ~probed
  BY DEF Inv, CreateInv, TypeOK
<1>2. CASE LateStep /\ (Calls \/ ReadSteps)
  BY <1>1, <1>2, LatePending DEF CreateInv, LateStep, Early
<1>3. ASSUME NEW w \in Writes, NEW why \in {"create", "resume"}, Start(w, why)
      PROVE  CreateInv'
  <2> DEFINE q == [id |-> 1, kind |-> "initialize"]
  <2>1. at = "down" /\ received' \subseteq {q} /\ pending' \in {<<>>, <<q>>}
    BY <1>1, <1>3, StartWrites DEF WriteEffect, Start
  <2>2. /\ probed' = probed /\ at' \in {"handshake", "stopped"}
        /\ created' = "notAccepted" => at' = "stopped"
    BY <1>1, <1>3, <2>1 DEF Start, Goes
  <2> QED BY <1>1, <2>1, <2>2 DEF CreateInv
<1>4. ASSUME NEW w \in Writes, Attach(w)
      PROVE  CreateInv'
  <2>1. /\ at = "attach" /\ probed' = probed /\ created # "notAccepted"
        /\ \A q \in received : q.kind = "initialize"
        /\ \A k \in DOMAIN pending : pending[k].kind # "initialize"
    BY <1>1, <1>4 DEF Attach, KeepsCalls
  <2>2. at' \in {"creating", "quarantined", "stopped"} /\ (created' = "notAccepted" => at' = "stopped")
    BY <1>4, <2>1 DEF Attach, CreateEnds, Goes
  <2>3. ASSUME NEW kind \in {"thread/start", "thread/resume"}, MayRequest, SendRequest(kind, w)
        PROVE  CreateInv'
    <3> DEFINE q == [id |-> next_id, kind |-> kind]
    <3>1. WriteEffect(q, w)
      BY <2>1, <2>3, SendWrites
    <3>2. /\ received' \in {received, received \cup {q}} /\ pending' \in {<<>>, <<q>>}
          /\ q.kind # "initialize"
      BY <3>1 DEF WriteEffect
    <3>3. \A p \in received' : p.kind = "thread/start" => p = q
      BY <2>1, <3>2
    <3>4. pending' # <<>> => pending'[1] = q /\ \A k \in DOMAIN pending' : pending'[k] = q
      BY <3>2
    <3> HIDE DEF q
    <3>5. \A k \in DOMAIN pending' : pending'[k].kind # "initialize"
      BY <3>2, <3>4
    <3> QED BY <1>1, <2>1, <2>2, <3>2, <3>3, <3>4, <3>5 DEF CreateInv
  <2>4. CASE CreateEnds("notAccepted") /\ UNCHANGED transport
    BY <1>1, <2>1, <2>2, <2>4 DEF CreateInv, CreateEnds, Goes, transport
  <2> QED BY <1>4, <2>3, <2>4 DEF Attach
<1>5. CASE SealExact
  BY <1>1, <1>5 DEF SealExact, KeepsCalls, Goes, CreateInv, transport, pipes
<1>6. ASSUME NEW r, EarlyRead(r)
      PROVE  CreateInv'
  <2>1. Receive(r) /\ probed' = probed /\ at \in {"handshake", "creating", "quarantined"}
    BY <1>6 DEF EarlyRead, Handshake, Creating, ReceiveLate, KeepsCalls
  <2>2. /\ received' = received /\ pending' \in {pending, <<>>}
        /\ r.is = "Initialized" => pending' = <<>>
    BY <2>1, ReadHasEffect DEF Inv, ReadEffect
  <2>3. created' = "notAccepted" => at' = "stopped"
    BY <1>1, <1>6, <2>1 DEF EarlyRead, Handshake, Creating, ReceiveLate, CreateEnds, Goes, Owned
  <2>4. CASE at = "handshake"
    <3>1. at' \in {"handshake", "stopped", "attach"} /\ (at' = "attach" => pending' = <<>>)
      BY <1>6, <2>2, <2>4 DEF EarlyRead, Handshake, Creating, ReceiveLate, CreateEnds, Goes
    <3> QED BY <1>1, <2>1, <2>2, <2>3, <2>4, <3>1 DEF CreateInv
  <2>5. CASE at \in {"creating", "quarantined"}
    <3>1. at' \in {"creating", "quarantined", "exact", "free", "stopped"}
      BY <1>6, <2>5 DEF EarlyRead, Handshake, Creating, ReceiveLate, CreateEnds, Goes, Owned
    <3>2. at' \in {"creating", "quarantined"} => \A q \in received' : q.kind = "thread/start" => pending' = <<>> \/ q = pending'[1]
      BY <1>1, <2>2, <2>5
    <3>3. \A k \in DOMAIN pending' : pending'[k].kind # "initialize"
      BY <1>1, <2>2, <2>5
    <3> QED BY <1>1, <2>1, <2>3, <2>5, <3>1, <3>2, <3>3 DEF CreateInv
  <2> QED BY <2>1, <2>4, <2>5
<1>7. CASE ServerSteps
  <2>1. UNCHANGED <<at, pending, received, created, probed>>
    BY <1>7, ServerHasEffect DEF Inv, ServerEffect, ServerKeeps, transport, controller, history
  <2> QED BY <1>1, <2>1 DEF CreateInv
<1> QED BY <1>2, <1>3, <1>4, <1>5, <1>6, <1>7, LateCalls, LateReads DEF Next, EarlyCall

-----------------------------------------------------------------------------
(* One controller writes one turn. *)

NoTurnOut ==
    /\ \A q \in received : q.kind # "turn/start"
    /\ \A k \in DOMAIN pending : pending[k].kind # "turn/start"
NothingWritten == \A i \in Ids : written[i] = "none"
LaneProbed ==
    /\ lane # NoLane => probed
    /\ at \in {"drain", "ask", "await", "settle"} => probed

\* While the controller is fresh nothing is written and nothing on record.
LEMMA FreshKeeps ==
    ASSUME Inv, Fresh, written' = written, NoTurnOut', LaneProbed',
           at' \notin {"recheck", "dispatch", "answer", "poll", "reconcile"}
    PROVE  WriteInv'
<1>1. NothingWritten
  BY DEF Inv, WriteInv, NothingWritten
<1>2. \A i \in Ids : written'[i] = "none"
  BY <1>1 DEF NothingWritten
<1> QED BY <1>2 DEF WriteInv, NoTurnOut, LaneProbed

LEMMA FreshHas ==
    ASSUME Inv, Fresh
    PROVE  NoTurnOut /\ NothingWritten
BY DEF Inv, WriteInv, NoTurnOut, NothingWritten

\* The record of the one turn, when the lane is gone.
OneRecord(d) ==
    /\ written' = [written EXCEPT ![turn] = d] /\ turn' = turn /\ turn \in Ids
    /\ at' = "free" /\ probed' /\ lane' = NoLane
    /\ \A q \in received' : q.kind = "turn/start" => q.id = turn
    /\ \A k \in DOMAIN pending' : pending'[k] = TheTurn /\ d = "unknown"
    /\ \A i \in Ids : i # turn => written[i] = "none"

LEMMA RecordsOne ==
    ASSUME Inv, NEW d, OneRecord(d)
    PROVE  WriteInv'
<1>1. written \in [Ids -> Dispositions]
  BY DEF Inv, TypeOK
<1>2. written'[turn] = d /\ \A i \in Ids : i # turn => written'[i] = "none"
  BY <1>1 DEF OneRecord
<1>3. /\ turn' = turn /\ turn \in Ids /\ at' = "free" /\ probed' /\ lane' = NoLane
      /\ \A q \in received' : q.kind = "turn/start" => q.id = turn
      /\ \A k \in DOMAIN pending' : pending'[k] = TheTurn /\ d = "unknown"
  BY DEF OneRecord
<1>4. ~Fresh'
  BY <1>3 DEF Fresh
<1>5. \A k \in DOMAIN pending' : pending'[k].kind = "turn/start" /\ pending'[k].id = turn
  BY <1>3 DEF TheTurn
<1>6. \A i \in Ids : written'[i] # "none" => i = turn
  BY <1>2
<1>7. \A i, j \in Ids : written'[i] # "none" /\ written'[j] # "none" => i = j
  BY <1>6
<1>8. \A i \in Ids : written'[i] # "none" =>
          /\ \A k \in DOMAIN pending' : pending'[k].kind = "turn/start" /\ pending'[k].id = i /\ written'[i] = "unknown"
          /\ \A q \in received' : q.kind = "turn/start" => q.id = i
  BY <1>2, <1>3, <1>5, <1>6
<1> QED BY <1>3, <1>4, <1>7, <1>8 DEF WriteInv

\* A turn on record: the lane is gone, and nothing else is pending.
LEMMA WrittenOnRecord ==
    ASSUME Inv, NEW i \in Ids, written[i] # "none"
    PROVE  /\ ~Fresh /\ at # "answer" /\ probed /\ lane = NoLane
           /\ \A j \in Ids : j # i => written[j] = "none"
           /\ \A q \in received : q.kind = "turn/start" => q.id = i
           /\ \A k \in DOMAIN pending : pending[k] = [id |-> i, kind |-> "turn/start"] /\ written[i] = "unknown"
<1>1. ~Fresh /\ at # "answer"
  BY DEF Inv, WriteInv
<1>2. probed /\ lane = NoLane
  BY <1>1 DEF Fresh
<1>3. /\ \A j \in Ids : j # i => written[j] = "none"
      /\ \A q \in received : q.kind = "turn/start" => q.id = i
      /\ \A k \in DOMAIN pending : pending[k].kind = "turn/start" /\ pending[k].id = i /\ written[i] = "unknown"
  BY DEF Inv, WriteInv
<1>4. \A k \in DOMAIN pending : pending[k] \in Requests
  BY DEF Inv, TypeOK
<1>5. \A p \in Requests : p = [id |-> p.id, kind |-> p.kind]
  BY DEF Requests
<1> QED BY <1>1, <1>2, <1>3, <1>4, <1>5

\* What is on record stays when a call only looks.
LEMMA LooksAt ==
    ASSUME Inv, NEW i \in Ids, written[i] # "none", written' = written, received' = received,
           pending' \in {pending, <<>>}, UNCHANGED <<lane, probed>>,
           at' \in {"free", "poll", "reconcile"},
           at' = "poll" => written[turn'] = "accepted",
           at' = "reconcile" => written[turn'] = "unknown"
    PROVE  WriteInv'
<1>1. /\ probed /\ lane = NoLane
      /\ \A j, k \in Ids : written[j] # "none" /\ written[k] # "none" => j = k
      /\ \A j \in Ids : written[j] # "none" =>
             /\ \A k \in DOMAIN pending : pending[k].kind = "turn/start" /\ pending[k].id = j /\ written[j] = "unknown"
             /\ \A q \in received : q.kind = "turn/start" => q.id = j
  BY WrittenOnRecord DEF Inv, WriteInv
<1>2. ~Fresh' /\ probed' /\ lane' = NoLane
  BY <1>1 DEF Fresh
<1>3. \A k \in DOMAIN pending' : k \in DOMAIN pending /\ pending'[k] = pending[k]
  OBVIOUS
<1> QED BY <1>1, <1>2, <1>3 DEF WriteInv

\* A write of another kind keeps turns out.
LEMMA OtherWrites ==
    ASSUME NoTurnOut, NEW q, NEW w, WriteEffect(q, w), q.kind # "turn/start"
    PROVE  NoTurnOut'
<1>1. pending' \in {<<>>, <<q>>} /\ received' \in {received, received \cup {q}}
  BY DEF WriteEffect
<1>2. \A k \in DOMAIN pending' : pending'[k] = q
  BY <1>1
<1> QED BY <1>1, <1>2 DEF NoTurnOut

LEMMA ReadsKeepOut ==
    ASSUME NoTurnOut, received' = received, pending' \in {pending, <<>>}
    PROVE  NoTurnOut'
BY DEF NoTurnOut

LEMMA EarlyWrites ==
    ASSUME Inv, (\E w \in Writes : EarlyCall(w)) \/ \E r : EarlyRead(r)
    PROVE  WriteInv'
<1>1. /\ at \in Early /\ UNCHANGED <<lane, written, probed>> /\ at' \notin {"recheck", "dispatch", "answer", "poll", "reconcile"}
      /\ at' \notin {"drain", "ask", "await", "settle"}
  <2>1. ASSUME NEW w, NEW why, Start(w, why) \/ Attach(w) \/ SealExact
        PROVE  /\ at \in Early /\ UNCHANGED <<lane, written, probed>>
               /\ at' \in {"handshake", "stopped", "creating", "quarantined", "free"}
    BY <2>1 DEF Start, Attach, SealExact, Goes, CreateEnds, KeepsCalls, Early
  <2>2. ASSUME NEW r, EarlyRead(r)
        PROVE  /\ at \in Early /\ UNCHANGED <<lane, written, probed>>
               /\ at' \in {"handshake", "attach", "creating", "quarantined", "exact", "free", "stopped"}
    BY <2>2 DEF EarlyRead, Handshake, Creating, ReceiveLate, Goes, CreateEnds, Owned, KeepsCalls, Early
  <2> QED BY <2>1, <2>2 DEF EarlyCall
<1>2. ~probed /\ Fresh /\ lane = NoLane
  BY <1>1 DEF Inv, CreateInv, WriteInv, Early, Fresh
<1>3. LaneProbed'
  BY <1>1, <1>2 DEF LaneProbed
<1>4. NoTurnOut'
  <2>1. NoTurnOut
    BY <1>2, FreshHas
  <2>2. ASSUME NEW w \in Writes, NEW why, Start(w, why) PROVE NoTurnOut'
    <3>1. WriteEffect([id |-> 1, kind |-> "initialize"], w)
      BY <2>2, StartWrites
    <3> QED BY <2>1, <3>1, OtherWrites
  <2>3. ASSUME NEW w \in Writes, Attach(w) PROVE NoTurnOut'
    <3>1. ASSUME NEW kind \in {"thread/start", "thread/resume"}, MayRequest, SendRequest(kind, w) PROVE NoTurnOut'
      <4>1. WriteEffect([id |-> next_id, kind |-> kind], w)
        BY <2>3, <3>1, SendWrites DEF Attach
      <4> QED BY <2>1, <4>1, OtherWrites
    <3>2. CASE UNCHANGED <<transport, pipes>>
      BY <2>1, <3>2 DEF NoTurnOut, transport, pipes
    <3> QED BY <2>3, <3>1, <3>2 DEF Attach
  <2>4. CASE SealExact
    BY <2>1, <2>4 DEF SealExact, NoTurnOut, transport, pipes
  <2>5. ASSUME NEW r, EarlyRead(r) PROVE NoTurnOut'
    <3>1. Receive(r)
      BY <2>5 DEF EarlyRead, Handshake, Creating, ReceiveLate
    <3> QED BY <2>1, <3>1, ReadHasEffect, ReadsKeepOut DEF Inv, ReadEffect
  <2> QED BY <2>2, <2>3, <2>4, <2>5 DEF EarlyCall
<1> QED BY <1>1, <1>2, <1>3, <1>4, FreshKeeps

\* The probe, up to the lane.
LEMMA ProbeWrites ==
    ASSUME Inv,
           \/ Probe \/ RefuseWrite \/ \E w \in Writes : AskThread(w)
           \/ \E r \in Reads : ProbeDrain(r) \/ ReadThread(r) \/ ProbeSettles(r)
    PROVE  WriteInv'
<1>1. CASE Probe
  <2>1. /\ Fresh /\ LaneProbed' /\ at' = "drain"
    BY <1>1 DEF Probe, Goes, Fresh, LaneProbed
  <2>2. UNCHANGED <<received, pending, written>>
    BY <1>1 DEF Probe, transport, pipes, history
  <2> QED BY <2>1, <2>2, FreshHas, ReadsKeepOut, FreshKeeps
<1>2. CASE RefuseWrite
  <2>1. /\ Fresh /\ LaneProbed' /\ at' = "free"
    BY <1>2 DEF RefuseWrite, Fresh, LaneProbed
  <2>2. UNCHANGED <<received, pending, written>>
    BY <1>2 DEF RefuseWrite, transport, pipes, history
  <2> QED BY <2>1, <2>2, FreshHas, ReadsKeepOut, FreshKeeps
<1>3. ASSUME NEW w \in Writes, AskThread(w) PROVE WriteInv'
  <2>1. at = "ask" /\ at' \in {"await", "free"} /\ written' = written /\ UNCHANGED <<lane, probed>>
    BY <1>3 DEF AskThread, Goes, KeepsCalls, history
  <2>2. Fresh /\ LaneProbed'
    BY <2>1 DEF Inv, WriteInv, Fresh, LaneProbed
  <2>3. NoTurnOut'
    <3>1. CASE MayRequest /\ SendRequest("thread/read", w)
      <4>1. WriteEffect([id |-> next_id, kind |-> "thread/read"], w)
        BY <2>1, <3>1, SendWrites
      <4> QED BY <2>2, <4>1, FreshHas, OtherWrites
    <3>2. CASE UNCHANGED <<transport, pipes>>
      BY <2>2, <3>2, FreshHas DEF NoTurnOut, transport, pipes
    <3> QED BY <1>3, <3>1, <3>2 DEF AskThread
  <2> QED BY <2>1, <2>2, <2>3, FreshKeeps
<1>4. ASSUME NEW r \in Reads, ProbeDrain(r) \/ ReadThread(r) \/ ProbeSettles(r) PROVE WriteInv'
  <2>1. /\ Receive(r) /\ at \in {"drain", "await", "settle"}
        /\ written' = written /\ probed' = probed
        /\ at' \in {"drain", "ask", "await", "settle", "free"}
    BY <1>4 DEF ProbeDrain, ReadThread, ProbeSettles, Drains, Goes, history
  <2>2. Fresh /\ probed /\ LaneProbed'
    BY <2>1 DEF Inv, WriteInv, Fresh, LaneProbed
  <2>3. NoTurnOut'
    BY <2>1, <2>2, FreshHas, ReadHasEffect, ReadsKeepOut DEF Inv, ReadEffect
  <2> QED BY <2>1, <2>2, <2>3, FreshKeeps
<1> QED BY <1>1, <1>2, <1>3, <1>4

\* The write itself.
LEMMA TurnWrites ==
    ASSUME Inv,
           \/ PrepareTurn \/ RefuseAtLastCheck \/ \E w \in Writes : Dispatch(w)
           \/ \E r \in Reads : Recheck(r) \/ ReadTurn(r)
    PROVE  WriteInv'
<1>1. CASE PrepareTurn
  <2>1. /\ at = "free" /\ lane # NoLane /\ pending = <<>> /\ ~ambiguous
        /\ at' = "recheck" /\ turn' = next_id /\ frame' = next_id /\ next_id' = next_id + 1
        /\ UNCHANGED <<pending, ambiguous, received, lane, probed, written>>
    BY <1>1 DEF PrepareTurn, MayRequest, Goes, pipes, history
  <2>2. Fresh /\ probed /\ next_id \in Nat
    BY <2>1, TransportAssumption DEF Fresh, Inv, WriteInv, TypeOK
  <2>3. next_id \notin ReceivedIds
    BY <2>2 DEF Inv, FlightInv, ReceivedIds
  <2>4. ReceivedIds' = ReceivedIds
    BY <2>1 DEF ReceivedIds
  <2>5. NoTurnOut /\ NothingWritten
    BY <2>2, FreshHas
  <2>6. \A i \in Ids : written'[i] = "none"
    BY <2>1, <2>5 DEF NothingWritten
  <2> QED BY <2>1, <2>2, <2>3, <2>4, <2>5, <2>6 DEF WriteInv, NoTurnOut
<1>2. CASE RefuseAtLastCheck
  <2>1. /\ at = "dispatch" /\ written' = [written EXCEPT ![turn] = "notAccepted"] /\ lane' = NoLane /\ at' = "free"
        /\ UNCHANGED <<pending, received, turn, probed>>
    BY <1>2 DEF RefuseAtLastCheck, Answers, Goes, pipes
  <2>2. Fresh /\ probed /\ pending = <<>> /\ turn \in Ids
    BY <2>1 DEF Inv, WriteInv, RangeInv, Fresh
  <2>3. NoTurnOut /\ NothingWritten
    BY <2>2, FreshHas
  <2>4. OneRecord("notAccepted")
    BY <2>1, <2>2, <2>3 DEF OneRecord, NoTurnOut, NothingWritten
  <2> QED BY <2>4, RecordsOne
<1>3. ASSUME NEW w \in Writes, Dispatch(w) PROVE WriteInv'
  <2>1. /\ WriteEffect(TheTurn, w) /\ UNCHANGED turn /\ at = "dispatch" /\ probed' = probed
        /\ w.receipt # "ProvenNotWritten" <=> pending' # <<>>
    BY <1>3, DispatchWrites DEF Dispatch
  <2>2. /\ received' \in {received, received \cup {TheTurn}} /\ pending' \in {<<>>, <<TheTurn>>}
        /\ w.receipt = "Written" => pending' = <<TheTurn>>
    BY <2>1 DEF WriteEffect
  <2>3. Fresh /\ probed /\ turn \in Ids /\ lane # NoLane
    BY <2>1 DEF Inv, WriteInv, RangeInv, Fresh
  <2>4. NoTurnOut /\ NothingWritten
    BY <2>3, FreshHas
  <2>5. /\ TheTurn.id = turn /\ TheTurn' = TheTurn
        /\ \A q \in received' : q.kind = "turn/start" => q.id = turn
    BY <2>1, <2>2, <2>4 DEF NoTurnOut, TheTurn
  <2>6. CASE w.receipt = "Written"
    <3>1. at' = "answer" /\ UNCHANGED <<lane, written>>
      BY <1>3, <2>6 DEF Dispatch, Goes
    <3>2. \A i \in Ids : written'[i] = "none"
      BY <2>4, <3>1 DEF NothingWritten
    <3>3. ~Fresh'
      BY <2>1, <2>3, <3>1 DEF Fresh
    <3>4. pending' = <<[id |-> turn', kind |-> "turn/start"]>>
      BY <2>1, <2>2, <2>6 DEF TheTurn
    <3> QED BY <2>1, <2>3, <2>5, <3>1, <3>2, <3>3, <3>4 DEF WriteInv
  <2>7. CASE w.receipt # "Written"
    <3>1. written' = [written EXCEPT ![turn] = Failed(w)] /\ lane' = NoLane /\ at' = "free"
      BY <1>3, <2>7 DEF Dispatch, Answers, Goes
    <3>2. pending' # <<>> => pending' = <<TheTurn>> /\ Failed(w) = "unknown"
      BY <2>1, <2>2 DEF Failed
    <3>3. \A k \in DOMAIN pending' : pending'[k] = TheTurn /\ Failed(w) = "unknown"
      BY <2>2, <3>2
    <3>4. OneRecord(Failed(w))
      BY <2>1, <2>3, <2>4, <2>5, <3>1, <3>3 DEF OneRecord, NothingWritten
    <3> QED BY <3>4, RecordsOne
  <2> QED BY <2>6, <2>7
<1>4. ASSUME NEW r \in Reads, Recheck(r) PROVE WriteInv'
  <2>1. /\ Receive(r) /\ at = "recheck" /\ UNCHANGED <<turn, probed>>
    BY <1>4 DEF Recheck, Drains
  <2>2. /\ Fresh /\ probed /\ turn \in Ids /\ lane # NoLane /\ pending = <<>> /\ ~ambiguous /\ ~torn
        /\ turn \notin ReceivedIds /\ turn < next_id /\ frame \in {None, turn}
    BY <2>1 DEF Inv, WriteInv, RangeInv, SilenceInv, Fresh
  <2>3. NoTurnOut /\ NothingWritten
    BY <2>2, FreshHas
  <2>4. received' = received /\ pending' = <<>> /\ next_id' = next_id /\ ReadSilence(r)
    BY <2>1, <2>2, ReadHasEffect, ReadIsSilent DEF Inv, ReadEffect
  <2>5. CASE at' \in {"recheck", "dispatch"} /\ UNCHANGED <<lane, written>>
             /\ r.is \in {"again", "Notification", "ServerRequestRejected", "Deadline"}
    <3>1. ~ambiguous' /\ frame' \in {None, turn}
      BY <2>2, <2>4, <2>5 DEF ReadSilence
    <3>2. ReceivedIds' = ReceivedIds
      BY <2>4 DEF ReceivedIds
    <3>3. \A i \in Ids : written'[i] = "none"
      BY <2>3, <2>5 DEF NothingWritten
    <3> QED BY <2>1, <2>2, <2>3, <2>4, <2>5, <3>1, <3>2, <3>3 DEF WriteInv, NoTurnOut
  <2>6. CASE Answers("notAccepted")
    <3>1. OneRecord("notAccepted")
      BY <2>1, <2>2, <2>3, <2>4, <2>6 DEF Answers, Goes, OneRecord, NoTurnOut, NothingWritten
    <3> QED BY <3>1, RecordsOne
  <2>7. GoesOn(r) => r.is \in {"again", "Notification", "ServerRequestRejected"}
    <3>1. r.is \in {"Initialized", "ThreadStarted", "ThreadResumed", "TurnStarted"} => pending # <<>>
      BY <2>1, ReadAnswers DEF Inv
    <3> QED BY <2>2, <2>4, <3>1 DEF GoesOn, Ok, ReadSilence, AnswerTaken
  <2> QED BY <1>4, <2>1, <2>5, <2>6, <2>7 DEF Recheck, Goes
<1>5. ASSUME NEW r \in Reads, ReadTurn(r) PROVE WriteInv'
  <2>1. Receive(r) /\ at = "answer" /\ UNCHANGED <<turn, probed>>
    BY <1>5 DEF ReadTurn
  <2>2. /\ probed /\ turn \in Ids /\ lane # NoLane /\ pending = <<TheTurn>> /\ NothingWritten
        /\ \A q \in received : q.kind = "turn/start" => q.id = turn
    BY <2>1 DEF Inv, WriteInv, RangeInv, Fresh, TheTurn, NothingWritten
  <2>3. /\ received' = received /\ pending' \in {pending, <<>>}
        /\ r.is = "again" => pending' = pending
        /\ r.is \in {"TurnStarted", "Native"} => pending' = <<>>
    BY <2>1, ReadHasEffect DEF Inv, ReadEffect, AnswerTaken
  <2>4. TheTurn' = TheTurn
    BY <2>1 DEF TheTurn
  <2>5. CASE r.is = "again"
    <3>1. at' = "answer" /\ UNCHANGED <<lane, written>>
      BY <1>5, <2>1, <2>5 DEF ReadTurn
    <3>2. pending' = <<[id |-> turn', kind |-> "turn/start"]>>
      BY <2>1, <2>2, <2>3, <2>5 DEF TheTurn
    <3>3. ~Fresh'
      BY <2>1, <2>2, <3>1 DEF Fresh
    <3>4. \A i \in Ids : written'[i] = "none"
      BY <2>2, <3>1 DEF NothingWritten
    <3> QED BY <2>1, <2>2, <2>3, <3>1, <3>2, <3>3, <3>4 DEF WriteInv
  <2>6. ASSUME NEW d \in Disposition(r), Answers(d)
        PROVE  WriteInv'
    <3>1. d # "unknown" => pending' = <<>>
      BY <2>3 DEF Disposition
    <3>2. \A k \in DOMAIN pending' : pending'[k] = TheTurn /\ d = "unknown"
      BY <2>2, <2>3, <3>1
    <3>3. OneRecord(d)
      BY <2>1, <2>2, <2>3, <2>6, <3>2 DEF Answers, Goes, OneRecord, NothingWritten
    <3> QED BY <3>3, RecordsOne
  <2> QED BY <1>5, <2>5, <2>6 DEF ReadTurn
<1> QED BY <1>1, <1>2, <1>3, <1>4, <1>5

\* The turn that is on record, looked at and reconciled.
LEMMA LookWrites ==
    ASSUME Inv,
           \/ \E i \in Ids : Poll(i) \/ Reconcile(i)
           \/ \E r \in Reads : PollReads(r) \/ ReconcileReads(r)
    PROVE  WriteInv'
<1>1. ASSUME NEW i \in Ids, Poll(i) PROVE WriteInv'
  <2>1. /\ written[i] = "accepted" /\ at' \in {"free", "poll"} /\ turn' = i
        /\ UNCHANGED <<written, received, pending, lane, probed>>
    BY <1>1 DEF Poll, Goes, transport, pipes
  <2> QED BY <2>1, LooksAt
<1>2. ASSUME NEW i \in Ids, Reconcile(i) PROVE WriteInv'
  <2>1. /\ written[i] = "unknown" /\ at' = "reconcile" /\ turn' = i
        /\ UNCHANGED <<written, received, pending, lane, probed>>
    BY <1>2 DEF Reconcile, MayReconcile, Goes, transport, pipes, history
  <2> QED BY <2>1, LooksAt
<1>3. ASSUME NEW r \in Reads, PollReads(r) PROVE WriteInv'
  <2>1. /\ Receive(r) /\ at = "poll" /\ at' \in {"free", "poll"}
        /\ UNCHANGED <<written, lane, probed, turn>>
    BY <1>3 DEF PollReads, Observes, Goes
  <2>2. written[turn] = "accepted" /\ turn \in Ids
    BY <2>1 DEF Inv, WriteInv, RangeInv
  <2>3. received' = received /\ pending' \in {pending, <<>>}
    BY <2>1, ReadHasEffect DEF Inv, ReadEffect
  <2> QED BY <2>1, <2>2, <2>3, LooksAt
<1>4. ASSUME NEW r \in Reads, ReconcileReads(r) PROVE WriteInv'
  <2>1. /\ Receive(r) /\ at = "reconcile" /\ UNCHANGED <<lane, probed, turn>>
    BY <1>4 DEF ReconcileReads
  <2>2. written[turn] = "unknown" /\ turn \in Ids
    BY <2>1 DEF Inv, WriteInv, RangeInv
  <2>3. /\ received' = received /\ pending' \in {pending, <<>>}
        /\ r.is \in {"TurnStarted", "Native"} => pending' = <<>>
    BY <2>1, ReadHasEffect DEF Inv, ReadEffect, AnswerTaken
  <2>4. CASE r.is = "again"
    <3>1. at' = "reconcile" /\ written' = written
      BY <1>4, <2>1, <2>4 DEF ReconcileReads
    <3> QED BY <2>1, <2>2, <2>3, <3>1, LooksAt
  <2>5. ASSUME NEW d \in Disposition(r), Goes("free"), written' = [written EXCEPT ![turn] = d]
        PROVE  WriteInv'
    <3>1. d # "unknown" => pending' = <<>>
      BY <2>3 DEF Disposition
    <3>2. /\ probed /\ lane = NoLane /\ \A j \in Ids : j # turn => written[j] = "none"
          /\ \A q \in received : q.kind = "turn/start" => q.id = turn
          /\ \A k \in DOMAIN pending : pending[k] = TheTurn
      BY <2>2, WrittenOnRecord DEF TheTurn
    <3>3. \A k \in DOMAIN pending' : pending'[k] = TheTurn /\ d = "unknown"
      BY <2>3, <3>1, <3>2
    <3>4. OneRecord(d)
      BY <2>1, <2>2, <2>3, <2>5, <3>2, <3>3 DEF Goes, OneRecord
    <3> QED BY <3>4, RecordsOne
  <2> QED BY <1>4, <2>4, <2>5 DEF ReconcileReads
<1> QED BY <1>1, <1>2, <1>3, <1>4

LEMMA WriteStep ==
    ASSUME Inv, Next
    PROVE  WriteInv'
<1>1. CASE Calls
  BY <1>1, EarlyWrites, ProbeWrites, TurnWrites, LookWrites, SealIsEarly DEF Calls, EarlyCall
<1>2. CASE ReadSteps
  BY <1>2, EarlyWrites, ProbeWrites, TurnWrites, LookWrites DEF ReadSteps, EarlyRead
<1>3. CASE ServerSteps
  <2>1. UNCHANGED <<lane, probed, at, turn, frame, next_id, pending, ambiguous, received, written>>
    BY <1>3, ServerHasEffect DEF Inv, ServerEffect, ServerKeeps, transport, controller, history
  <2>2. WriteInv
    BY DEF Inv
  <2> QED BY <2>1, <2>2 DEF WriteInv, Fresh, ReceivedIds
<1> QED BY <1>1, <1>2, <1>3 DEF Next

-----------------------------------------------------------------------------
(* From the idle answer to the write. *)

\* Without a lane, outside of a probe, there is nothing to keep silent.
LEMMA NoLaneSilent ==
    ASSUME lane' = NoLane, at' \notin {"await", "settle", "recheck", "dispatch"}
    PROVE  SilenceInv'
BY DEF SilenceInv

LEMMA ReadGoesOn ==
    ASSUME TypeOK, NEW r, Receive(r), pending = <<>>, GoesOn(r)
    PROVE  r.is \in {"Notification", "ServerRequestRejected"}
<1>1. ReadSilence(r)
  BY ReadIsSilent
<1>2. r.is \notin {"Initialized", "ThreadStarted", "ThreadResumed", "TurnStarted", "Idle", "ActiveTurn", "Unproven"}
  BY ReadAnswers
<1> QED BY <1>1, <1>2 DEF GoesOn, Ok, ReadSilence

LEMMA ProbeSilent ==
    ASSUME Inv, \/ Probe \/ \E w \in Writes : AskThread(w)
                \/ \E r \in Reads : ProbeDrain(r) \/ ReadThread(r) \/ ProbeSettles(r)
    PROVE  SilenceInv'
<1>0. epoch \in Nat /\ lane \in -1..epoch
  BY DEF Inv, RangeInv, TypeOK
<1>1. CASE Probe
  <2>1. at' = "drain" /\ lane' = NoLane
    BY <1>1 DEF Probe, Goes, Inv, WriteInv
  <2> QED BY <2>1, NoLaneSilent
<1>2. ASSUME NEW w \in Writes, AskThread(w) PROVE SilenceInv'
  <2>1. at = "ask" /\ lane' = NoLane /\ at' \in {"await", "free"}
    BY <1>2 DEF AskThread, KeepsCalls, Goes, Inv, SilenceInv
  <2>2. CASE at' = "free"
    BY <2>1, <2>2, NoLaneSilent
  <2>3. CASE at' = "await"
    <3>1. MayRequest /\ SendRequest("thread/read", w) /\ w.receipt = "Written"
      BY <1>2, <2>3 DEF AskThread, Goes
    <3>2. WriteEffect([id |-> next_id, kind |-> "thread/read"], w)
      BY <2>1, <3>1, SendWrites
    <3>3. pending' # <<>> /\ ~torn' /\ ~ambiguous'
      BY <3>1, <3>2 DEF WriteEffect
    <3> QED BY <2>1, <2>3, <3>3 DEF SilenceInv
  <2> QED BY <2>1, <2>2, <2>3
<1>3. ASSUME NEW r \in Reads, ProbeDrain(r) PROVE SilenceInv'
  <2>1. lane' = NoLane /\ at' \in {"drain", "ask", "free"}
    BY <1>3 DEF ProbeDrain, Goes, Inv, SilenceInv
  <2> QED BY <2>1, NoLaneSilent
<1>4. ASSUME NEW r \in Reads, ReadThread(r) PROVE SilenceInv'
  <2>1. /\ Receive(r) /\ at = "await" /\ lane' = NoLane
        /\ ~torn /\ ~ambiguous /\ pending # <<>>
    BY <1>4 DEF ReadThread, Inv, SilenceInv
  <2>2. ReadSilence(r)
    BY <2>1, ReadIsSilent DEF Inv
  <2>3. CASE r.is \in {"Idle", "ActiveTurn", "Unproven"}
    <3>1. /\ at' = "settle" /\ response' = [is |-> r.is, epoch |-> epoch] /\ epoch' = epoch
      BY <1>4, <2>3 DEF ReadThread, Goes
    <3>2. pending' = <<>> /\ ~ambiguous' /\ ~torn' /\ (r.is = "Idle" => quiet')
      BY <2>1, <2>2, <2>3 DEF ReadSilence, AnswerTaken
    <3>3. response'.epoch \in 0..epoch' /\ response'.is = r.is
      BY <1>0, <3>1
    <3> QED BY <2>1, <3>1, <3>2, <3>3 DEF SilenceInv
  <2>4. CASE r.is \in {"again", "Notification", "ServerRequestRejected"}
    <3>1. at' = "await"
      BY <1>4, <2>1, <2>4 DEF ReadThread
    <3>2. pending' # <<>> /\ ~ambiguous' /\ ~torn'
      BY <2>1, <2>2, <2>4 DEF ReadSilence
    <3> QED BY <2>1, <3>1, <3>2 DEF SilenceInv
  <2>5. CASE r.is \notin {"Idle", "ActiveTurn", "Unproven", "again", "Notification", "ServerRequestRejected"}
    <3>1. at' = "free"
      BY <1>4, <2>5 DEF ReadThread, Goes
    <3> QED BY <2>1, <3>1, NoLaneSilent
  <2> QED BY <2>3, <2>4, <2>5
<1>5. ASSUME NEW r \in Reads, ProbeSettles(r) PROVE SilenceInv'
  <2>1. /\ Receive(r) /\ at = "settle" /\ lane = NoLane /\ response' = response
        /\ ~torn /\ ~ambiguous /\ pending = <<>> /\ response.epoch \in 0..epoch
        /\ ~SlowPipe /\ response.is = "Idle" /\ response.epoch = epoch => quiet
    BY <1>5 DEF ProbeSettles, Drains, Inv, SilenceInv
  <2>2. ReadSilence(r)
    BY <2>1, ReadIsSilent DEF Inv
  <2>3. CASE GoesOn(r)
    <3>1. at' = "settle" /\ lane' = NoLane
      BY <1>5, <2>1, <2>3 DEF ProbeSettles
    <3>2. r.is \in {"Notification", "ServerRequestRejected"}
      BY <2>1, <2>3, ReadGoesOn DEF Inv
    <3>3. epoch' = epoch + 1
      BY <1>5, <3>2 DEF ProbeSettles, Drains, Ok
    <3>4. pending' = <<>> /\ ~ambiguous' /\ ~torn'
      BY <2>1, <2>2, <3>2 DEF ReadSilence
    <3>5. response'.epoch \in 0..epoch' /\ response'.epoch # epoch'
      BY <1>0, <2>1, <3>3
    <3> QED BY <3>1, <3>4, <3>5 DEF SilenceInv
  <2>4. CASE ~GoesOn(r) /\ ~GrantsLane(r)
    <3>1. at' = "free" /\ lane' = NoLane
      BY <1>5, <2>4 DEF ProbeSettles, Goes
    <3> QED BY <3>1, NoLaneSilent
  <2>5. CASE ~GoesOn(r) /\ GrantsLane(r)
    <3>1. at' = "free" /\ lane' = epoch /\ r.is = "Deadline" /\ epoch = response.epoch /\ response.is = "Idle"
      BY <1>5, <2>5 DEF ProbeSettles, Goes, GrantsLane
    <3>2. epoch' = epoch
      BY <1>5, <3>1 DEF ProbeSettles, Drains, Ok
    <3>3. pending' = <<>> /\ ~ambiguous' /\ ~torn' /\ (~SlowPipe /\ quiet => quiet')
      BY <2>1, <2>2, <3>1 DEF ReadSilence
    <3> QED BY <2>1, <3>1, <3>2, <3>3 DEF SilenceInv
  <2> QED BY <2>3, <2>4, <2>5
<1> QED BY <1>1, <1>2, <1>3, <1>4, <1>5

LEMMA TurnSilent ==
    ASSUME Inv,
           \/ RefuseWrite \/ PrepareTurn \/ RefuseAtLastCheck \/ \E w \in Writes : Dispatch(w)
           \/ \E r \in Reads : Recheck(r) \/ ReadTurn(r)
    PROVE  SilenceInv'
<1>1. CASE RefuseWrite \/ RefuseAtLastCheck
  BY <1>1, NoLaneSilent DEF RefuseWrite, RefuseAtLastCheck, Answers, Goes
<1>2. CASE PrepareTurn
  <2>1. /\ at = "free" /\ lane # NoLane /\ at' = "recheck" /\ frame' = turn'
        /\ UNCHANGED <<torn, ambiguous, pending, quiet, epoch, lane>>
    BY <1>2 DEF PrepareTurn, Goes, pipes
  <2> QED BY <2>1 DEF Inv, SilenceInv
<1>3. ASSUME NEW w \in Writes, Dispatch(w) PROVE SilenceInv'
  <2>1. at' = "answer" \/ (at' = "free" /\ lane' = NoLane)
    BY <1>3 DEF Dispatch, Answers, Goes
  <2> QED BY <2>1 DEF SilenceInv
<1>4. ASSUME NEW r \in Reads, Recheck(r) PROVE SilenceInv'
  <2>1. /\ Receive(r) /\ at = "recheck" /\ turn' = turn
        /\ epoch' = IF Ok(r) THEN epoch + 1 ELSE epoch
    BY <1>4 DEF Recheck, Drains
  <2>2. /\ lane # NoLane /\ ~torn /\ ~ambiguous /\ pending = <<>>
        /\ ~SlowPipe /\ epoch = lane => quiet /\ frame = turn
        /\ epoch \in Nat /\ lane \in -1..epoch
    BY <2>1 DEF Inv, WriteInv, SilenceInv, RangeInv, TypeOK
  <2>3. ReadSilence(r)
    BY <2>1, ReadIsSilent DEF Inv
  <2>4. CASE GoesOn(r) /\ UNCHANGED <<at, lane>>
    <3>1. r.is \in {"Notification", "ServerRequestRejected"}
      BY <2>1, <2>2, <2>4, ReadGoesOn DEF Inv
    <3>2. epoch' = epoch + 1
      BY <2>1, <3>1 DEF Ok
    <3>3. epoch' # lane'
      BY <2>2, <2>4, <3>2
    <3>4. pending' = <<>> /\ ~ambiguous' /\ ~torn'
      BY <2>2, <2>3, <3>1 DEF ReadSilence
    <3> QED BY <2>1, <2>4, <3>3, <3>4 DEF SilenceInv
  <2>5. CASE r.is = "Deadline" /\ EpochHolds /\ at' = "dispatch" /\ lane' = lane
    <3>1. epoch' = epoch /\ epoch = lane
      BY <2>1, <2>5 DEF Ok, EpochHolds
    <3>2. /\ pending' = <<>> /\ ~ambiguous' /\ ~torn'
          /\ ~SlowPipe => (quiet => quiet') /\ frame' = frame
      BY <2>2, <2>3, <2>5 DEF ReadSilence
    <3> QED BY <2>1, <2>2, <2>5, <3>1, <3>2 DEF SilenceInv
  <2>6. CASE Answers("notAccepted")
    BY <2>6, NoLaneSilent DEF Answers, Goes
  <2> QED BY <1>4, <2>4, <2>5, <2>6 DEF Recheck, Goes
<1>5. ASSUME NEW r \in Reads, ReadTurn(r) PROVE SilenceInv'
  <2>1. at' = "answer" \/ (at' = "free" /\ lane' = NoLane)
    BY <1>5 DEF ReadTurn, Answers, Goes
  <2> QED BY <2>1 DEF SilenceInv
<1> QED BY <1>1, <1>2, <1>3, <1>4, <1>5

LEMMA LookSilent ==
    ASSUME Inv,
           \/ \E i \in Ids : Poll(i) \/ Reconcile(i)
           \/ \E r \in Reads : PollReads(r) \/ ReconcileReads(r)
    PROVE  SilenceInv'
<1>1. lane' = lane /\ at' \in {"free", "poll", "reconcile"}
      /\ \E i \in Ids : written[i] # "none"
  <2>1. ASSUME NEW i \in Ids, Poll(i) \/ Reconcile(i)
        PROVE  lane' = lane /\ at' \in {"free", "poll", "reconcile"} /\ written[i] # "none"
    BY <2>1 DEF Poll, Reconcile, MayReconcile, Goes
  <2>2. ASSUME NEW r \in Reads, PollReads(r) \/ ReconcileReads(r)
        PROVE  lane' = lane /\ at' \in {"free", "poll", "reconcile"} /\ at \in {"poll", "reconcile"}
    BY <2>2 DEF PollReads, Observes, ReconcileReads, Goes
  <2>3. at \in {"poll", "reconcile"} => turn \in Ids /\ written[turn] # "none"
    BY DEF Inv, WriteInv, RangeInv
  <2> QED BY <2>1, <2>2, <2>3
<1>2. lane' = NoLane
  BY <1>1, WrittenOnRecord
<1> QED BY <1>1, <1>2, NoLaneSilent

LEMMA EarlySilent ==
    ASSUME Inv, (\E w \in Writes : EarlyCall(w)) \/ \E r : EarlyRead(r)
    PROVE  SilenceInv'
<1>1. at \in Early /\ lane' = lane /\ at' \notin {"await", "settle", "recheck", "dispatch"}
  <2>1. ASSUME NEW w, NEW why, Start(w, why) \/ Attach(w) \/ SealExact
        PROVE  at \in Early /\ lane' = lane /\ at' \in {"handshake", "stopped", "creating", "quarantined", "free"}
    BY <2>1 DEF Start, Attach, SealExact, Goes, CreateEnds, KeepsCalls, Early
  <2>2. ASSUME NEW r, EarlyRead(r)
        PROVE  /\ at \in Early /\ lane' = lane
               /\ at' \in {"handshake", "attach", "creating", "quarantined", "exact", "free", "stopped"}
    BY <2>2 DEF EarlyRead, Handshake, Creating, ReceiveLate, Goes, CreateEnds, Owned, KeepsCalls, Early
  <2> QED BY <2>1, <2>2 DEF EarlyCall
<1>2. lane = NoLane
  BY <1>1 DEF Inv, CreateInv, WriteInv, Early
<1> QED BY <1>1, <1>2, NoLaneSilent

LEMMA SilenceStep ==
    ASSUME Inv, Next
    PROVE  SilenceInv'
<1>1. CASE Calls
  BY <1>1, EarlySilent, ProbeSilent, TurnSilent, LookSilent, SealIsEarly DEF Calls, EarlyCall
<1>2. CASE ReadSteps
  BY <1>2, EarlySilent, ProbeSilent, TurnSilent, LookSilent DEF ReadSteps, EarlyRead
<1>3. CASE ServerSteps
  <2>1. UNCHANGED <<lane, at, turn, frame, pending, ambiguous, torn, quiet, response, epoch>>
    BY <1>3, ServerHasEffect DEF Inv, ServerEffect, ServerKeeps, transport, controller
  <2>2. SilenceInv
    BY DEF Inv
  <2> QED BY <2>1, <2>2 DEF SilenceInv
<1> QED BY <1>1, <1>2, <1>3 DEF Next

-----------------------------------------------------------------------------
(* What is on record is so. *)

LEMMA Grows ==
    ASSUME Inv, Next
    PROVE  /\ received \subseteq received' /\ accepted \subseteq accepted' /\ refused \subseteq refused'
           /\ finished \subseteq finished' /\ Turns \subseteq Turns'
<1>1. /\ received \subseteq received' /\ accepted \subseteq accepted' /\ refused \subseteq refused'
      /\ finished \subseteq finished'
  <2>1. CASE Calls
    BY <2>1, CallsKeep, CallsWrite DEF server, WriteEffect, WriteKeeps
  <2>2. CASE ReadSteps
    BY <2>2, ReadsReceive, ReadHasEffect DEF Inv, ReadEffect, server
  <2>3. CASE ServerSteps
    BY <2>3, ServerHasEffect DEF Inv, ServerEffect, ServerKeeps
  <2> QED BY <2>1, <2>2, <2>3 DEF Next
<1> QED BY <1>1 DEF Turns

\* A fact on record of a turn.
FactTrue(f) ==
    /\ f.fact \in {"Started", "Terminal"} => f.turn \in accepted
    /\ f.fact = "Terminal" => f.turn \in finished /\ [f EXCEPT !.fact = "Started"] \in facts
FactsInv ==
    /\ \A f \in facts : FactTrue(f)
    /\ started_turn # None => [turn |-> started_turn, fact |-> "Started"] \in facts
    /\ pending_terminal # None => pending_terminal \in finished

AcceptedTrue == \A i \in Ids : written[i] = "accepted" => i \in Turns \cap accepted

LEMMA FactsHold == RecordInv <=> NotAcceptedTruthful /\ FactsInv /\ AcceptedTrue
BY DEF RecordInv, AnswersTruthful, PositiveTruthful, FactsInv, FactTrue, AcceptedTrue

LEMMA FactsHoldNext == RecordInv' <=> NotAcceptedTruthful' /\ FactsInv' /\ AcceptedTrue'
BY FactsHold, PTL

\* Facts that were true stay so.
LEMMA FactsGrow ==
    ASSUME FactsInv, accepted \subseteq accepted', finished \subseteq finished', facts \subseteq facts'
    PROVE  \A f \in facts : FactTrue(f)'
BY DEF FactsInv, FactTrue

\* A report adds a fact of the turn that is observed.
LEMMA ReportsTrue ==
    ASSUME FactsInv, accepted \subseteq accepted', finished \subseteq finished',
           NEW i, NEW x, Reports(i, x),
           x \in {"Started", "Terminal"} => i \in accepted,
           x = "Terminal" => i \in finished /\ [turn |-> i, fact |-> "Started"] \in facts
    PROVE  \A f \in facts' : FactTrue(f)'
<1>1. facts' = facts \cup {[turn |-> i, fact |-> x]}
  BY DEF Reports
<1>2. [[turn |-> i, fact |-> x] EXCEPT !.fact = "Started"] = [turn |-> i, fact |-> "Started"]
  OBVIOUS
<1> DEFINE new == [turn |-> i, fact |-> x]
<1>3. new.turn = i /\ new.fact = x /\ [new EXCEPT !.fact = "Started"] = [turn |-> i, fact |-> "Started"]
  BY <1>2
<1> HIDE DEF new
<1>4. FactTrue(new)'
  BY <1>1, <1>3 DEF FactTrue
<1>5. facts' = facts \cup {new}
  BY <1>1 DEF new
<1> QED BY <1>4, <1>5, FactsGrow

LEMMA OnceTrue ==
    ASSUME FactsInv, accepted \subseteq accepted', finished \subseteq finished',
           NEW i, NEW x, Once(i, x), x \notin {"Started", "Terminal"}
    PROVE  facts \subseteq facts' /\ \A f \in facts' : FactTrue(f)'
<1>1. CASE UNCHANGED facts
  BY <1>1, FactsGrow
<1>2. CASE Reports(i, x)
  <2>1. facts \subseteq facts'
    BY <1>2 DEF Reports
  <2> QED BY <1>2, <2>1, ReportsTrue
<1> QED BY <1>1, <1>2 DEF Once

LEMMA NotesTrue ==
    ASSUME Inv, NEW r, Receive(r), r.is = "Notification"
    PROVE  NoteTrue(r.note)
<1>1. ReadQueues(r)
  BY ReadMovesQueues DEF Inv
<1>2. CASE Popped(r)
  <2>1. 1 \in DOMAIN notifications /\ r.note = notifications[1]
    BY <1>2, TailFacts DEF Popped, Noted, Inv, TypeOK
  <2> QED BY <2>1 DEF Inv, QueueInv
<1>3. CASE Passed(r)
  <2>1. 1 \in DOMAIN inbound /\ r.note = inbound[1].note /\ IsNote(inbound[1])
    BY <1>3, TailFacts DEF Passed, Taken, Noted, Inv, TypeOK, Line, IsNote
  <2> QED BY <2>1 DEF Inv, PipeInv
<1> QED BY <1>1, <1>2, <1>3 DEF ReadQueues

LEMMA FactsStep ==
    ASSUME Inv, Next
    PROVE  FactsInv'
<1>1. /\ FactsInv /\ accepted \subseteq accepted' /\ finished \subseteq finished'
      /\ \A i \in Ids : written[i] = "accepted" => i \in accepted
      /\ finished \subseteq accepted
  BY Grows, FactsHold DEF Inv, RangeInv, AcceptedTrue
<1>2. CASE UNCHANGED <<facts, started_turn, pending_terminal>>
  BY <1>1, <1>2, FactsGrow DEF FactsInv
<1>3. ASSUME NEW i \in Ids, Poll(i) PROVE FactsInv'
  <2>1. i \in accepted /\ i # None /\ started_turn' = started_turn /\ pending_terminal' \in {None, pending_terminal}
    BY <1>1, <1>3, TransportAssumption DEF Poll, Ids, None
  <2>2. facts \subseteq facts' /\ \A f \in facts' : FactTrue(f)'
    <3>1. CASE UNCHANGED facts
      BY <1>1, <3>1, FactsGrow
    <3>2. CASE Once(i, "Degraded")
      BY <1>1, <3>2, OnceTrue
    <3>3. CASE started_turn = i /\ pending_terminal = i /\ Reports(i, "Terminal")
      <4>1. i \in finished /\ [turn |-> i, fact |-> "Started"] \in facts
        BY <1>1, <2>1, <3>3 DEF FactsInv
      <4>2. facts \subseteq facts'
        BY <3>3 DEF Reports
      <4> QED BY <1>1, <2>1, <3>3, <4>1, <4>2, ReportsTrue
    <3> QED BY <1>3, <3>1, <3>2, <3>3 DEF Poll
  <2> QED BY <1>1, <2>1, <2>2 DEF FactsInv
<1>4. ASSUME NEW r \in Reads, PollReads(r) PROVE FactsInv'
  <2>1. Receive(r) /\ at = "poll" /\ Observes(r)
    BY <1>4 DEF PollReads
  <2>2. turn \in Ids /\ turn \in accepted /\ turn # None
    BY <1>1, <2>1, TransportAssumption DEF Inv, WriteInv, RangeInv, Ids, None
  <2>3. r.is = "Notification" => NoteTrue(r.note)
    BY <2>1, NotesTrue
  <2>4. CASE Ours(r, "started") /\ started_turn' = turn /\ Reports(turn, "Started") /\ pending_terminal' = pending_terminal
    <3>1. \A f \in facts' : FactTrue(f)'
      BY <1>1, <2>2, <2>4, ReportsTrue
    <3>2. [turn |-> turn, fact |-> "Started"] \in facts'
      BY <2>4 DEF Reports
    <3> QED BY <1>1, <2>4, <3>1, <3>2 DEF FactsInv
  <2>5. CASE Ours(r, "terminal") /\ ~HoldsTerminal /\ Reports(turn, "Terminal")
             /\ UNCHANGED <<started_turn, pending_terminal>>
    <3>1. turn \in finished
      BY <2>2, <2>3, <2>5 DEF Ours, NoteTrue
    <3>2. [turn |-> turn, fact |-> "Started"] \in facts
      BY <1>1, <2>2, <2>5 DEF HoldsTerminal, FactsInv
    <3>3. \A f \in facts' : FactTrue(f)'
      BY <1>1, <2>2, <2>5, <3>1, <3>2, ReportsTrue
    <3>4. facts \subseteq facts'
      BY <2>5 DEF Reports
    <3> QED BY <1>1, <2>5, <3>3, <3>4 DEF FactsInv
  <2>6. CASE Ours(r, "terminal") /\ pending_terminal' = turn /\ UNCHANGED <<facts, started_turn>>
    <3>1. turn \in finished
      BY <2>2, <2>3, <2>6 DEF Ours, NoteTrue
    <3>2. \A f \in facts : FactTrue(f)'
      BY <1>1, <2>6, FactsGrow
    <3> QED BY <1>1, <2>6, <3>1, <3>2 DEF FactsInv
  <2>7. CASE (\E x \in {"Degraded", "Unknown"} : Once(turn, x)) /\ UNCHANGED <<started_turn, pending_terminal>>
    <3>1. facts \subseteq facts' /\ \A f \in facts' : FactTrue(f)'
      BY <1>1, <2>7, OnceTrue
    <3> QED BY <1>1, <2>7, <3>1 DEF FactsInv
  <2>8. CASE (\E x \in {"Degraded", "ControllerLost"} : Reports(turn, x)) /\ UNCHANGED <<started_turn, pending_terminal>>
    <3>1. \A f \in facts' : FactTrue(f)'
      BY <1>1, <2>8, ReportsTrue
    <3>2. facts \subseteq facts'
      BY <2>8 DEF Reports
    <3> QED BY <1>1, <2>8, <3>1, <3>2 DEF FactsInv
  <2> QED BY <1>2, <2>1, <2>4, <2>5, <2>6, <2>7, <2>8 DEF Observes, observation
<1>5. CASE Calls
  <2>1. ASSUME NEW w, NEW why, Start(w, why) \/ Attach(w) \/ AskThread(w) \/ Dispatch(w)
        PROVE  UNCHANGED <<facts, started_turn, pending_terminal>>
    BY <2>1 DEF Start, Attach, AskThread, Dispatch, observation, history
  <2>2. CASE SealExact \/ Probe \/ RefuseWrite \/ PrepareTurn \/ RefuseAtLastCheck
    BY <1>2, <2>2 DEF SealExact, Probe, RefuseWrite, PrepareTurn, RefuseAtLastCheck, observation, history
  <2>3. ASSUME NEW i, Reconcile(i) PROVE UNCHANGED <<facts, started_turn, pending_terminal>>
    BY <2>3 DEF Reconcile, observation, history
  <2> QED BY <1>2, <1>3, <1>5, <2>1, <2>2, <2>3 DEF Calls
<1>6. CASE ReadSteps
  <2>1. ASSUME NEW r, Handshake(r) \/ Creating(r) \/ ReceiveLate(r) \/ ProbeDrain(r) \/ ReadThread(r)
                      \/ ProbeSettles(r) \/ Recheck(r) \/ ReadTurn(r) \/ ReconcileReads(r)
        PROVE  UNCHANGED <<facts, started_turn, pending_terminal>>
    BY <2>1 DEF Handshake, Creating, ReceiveLate, ProbeDrain, ReadThread, ProbeSettles, Recheck, ReadTurn,
       ReconcileReads, observation, history
  <2> QED BY <1>2, <1>4, <1>6, <2>1 DEF ReadSteps
<1>7. CASE ServerSteps
  <2>1. UNCHANGED <<facts, started_turn, pending_terminal>>
    BY <1>7, ServerHasEffect DEF Inv, ServerEffect, ServerKeeps, observation, history
  <2> QED BY <1>2, <2>1
<1> QED BY <1>5, <1>6, <1>7 DEF Next

-----------------------------------------------------------------------------
(* What is called accepted or not accepted is so. *)

Truthful == NotAcceptedTruthful /\ AcceptedTrue

\* A record that is kept stays true when no turn and no create leaves.
LEMMA SameRecord ==
    ASSUME Inv, Next, written' = written, created' = created \/ created' # "notAccepted",
           \A q \in received' : q \in received \/ q.kind \notin {"turn/start", "thread/start"}
    PROVE  Truthful'
<1>1. NotAcceptedTruthful /\ AcceptedTrue
  BY FactsHold DEF Inv
<1>2. NotAcceptedTruthful'
  BY <1>1, Grows DEF NotAcceptedTruthful
<1>3. AcceptedTrue'
  BY <1>1, Grows DEF AcceptedTrue
<1> QED BY <1>2, <1>3 DEF Truthful

\* With no turn on record, the record is that of the create.
LEMMA EmptyRecord ==
    ASSUME Inv, Next, NothingWritten, written' = written,
           created' = "notAccepted" => \A q \in received' : q.kind = "thread/start" => q.id \in refused'
    PROVE  Truthful'
<1>1. \A q \in received' : q.id \in Ids
  BY TypesHold DEF TypeOK, Requests
<1>2. \A i \in Ids : written'[i] = "none"
  BY DEF NothingWritten
<1>3. NotAcceptedTruthful'
  BY <1>1, <1>2 DEF NotAcceptedTruthful
<1>4. AcceptedTrue'
  BY <1>2 DEF AcceptedTrue
<1> QED BY <1>3, <1>4 DEF Truthful

\* The one turn goes on record, with an answer that is so.
LEMMA NewRecord ==
    ASSUME Inv, Next, NEW d, OneRecord(d), created' # "notAccepted",
           d = "notAccepted" => \A q \in received' : q.kind = "turn/start" => q.id \in refused',
           d = "accepted" => turn \in Turns' \cap accepted'
    PROVE  Truthful'
<1>1. \A q \in received' : q.id \in Ids
  BY TypesHold DEF TypeOK, Requests
<1>2. written \in [Ids -> Dispositions]
  BY DEF Inv, TypeOK
<1>3. written'[turn] = d /\ \A i \in Ids : i # turn => written'[i] = "none"
  BY <1>2 DEF OneRecord
<1>4. NotAcceptedTruthful'
  BY <1>1, <1>3 DEF NotAcceptedTruthful
<1>5. AcceptedTrue'
  BY <1>3 DEF AcceptedTrue
<1> QED BY <1>4, <1>5 DEF Truthful

LEMMA EarlyRecord ==
    ASSUME Inv, Next, (\E w \in Writes : EarlyCall(w)) \/ \E r : EarlyRead(r)
    PROVE  Truthful'
<1>1. /\ at = "down" => received = {} /\ pending = <<>>
      /\ at \in {"down", "handshake", "attach"} => \A q \in received : q.kind = "initialize"
      /\ at \in {"creating", "quarantined"} =>
             \A q \in received : q.kind = "thread/start" => pending = <<>> \/ q = pending[1]
      /\ at \in {"down", "handshake", "attach", "creating", "quarantined", "exact"} => ~probed
  BY DEF Inv, CreateInv
<1>2. at \in {"down", "handshake", "attach", "creating", "quarantined", "exact"} /\ written' = written
  BY DEF EarlyCall, EarlyRead, Start, Attach, SealExact, Handshake, Creating, ReceiveLate
<1>3. NothingWritten
  BY <1>1, <1>2, FreshHas DEF Fresh
<1>4. ASSUME NEW w \in Writes, NEW why, Start(w, why)
      PROVE  \A q \in received' : q.kind # "thread/start"
  <2>1. received' \in {received, received \cup {[id |-> 1, kind |-> "initialize"]}} /\ received = {}
    BY <1>1, <1>4, StartWrites DEF WriteEffect, Start
  <2> QED BY <2>1
<1>5. ASSUME NEW w \in Writes, Attach(w), created' = "notAccepted"
      PROVE  \A q \in received' : q.kind # "thread/start"
  <2>1. at = "attach" /\ created # "notAccepted" /\ w.receipt \in {"Written", "PossiblyWritten", "ProvenNotWritten"}
    BY <1>5, WriteForms DEF Attach, Inv, CreateInv
  <2>2. received' = received
    <3>1. CASE UNCHANGED pipes
      BY <3>1 DEF pipes
    <3>2. ASSUME MayRequest, NEW kind \in {"thread/start", "thread/resume"}, SendRequest(kind, w),
                 w.receipt = "ProvenNotWritten"
          PROVE  received' = received
      BY <2>1, <3>2, SendWrites DEF WriteEffect
    <3> QED BY <1>5, <2>1, <3>1, <3>2 DEF Attach, CreateEnds
  <2> QED BY <1>1, <2>1, <2>2
<1>6. ASSUME NEW r, EarlyRead(r), created' = "notAccepted"
      PROVE  \A q \in received' : q.kind = "thread/start" => q.id \in refused'
  <2>1. Receive(r) /\ at \in {"handshake", "creating", "quarantined"} /\ created # "notAccepted"
    BY <1>6 DEF EarlyRead, Handshake, Creating, ReceiveLate, Inv, CreateInv
  <2>2. /\ received' = received /\ refused' = refused
        /\ r.is = "Native" => pending # <<>> /\ pending[1].id \in refused
    BY <2>1, ReadHasEffect DEF Inv, ReadEffect, AnswerTaken, Pend, server
  <2>3. CASE at = "handshake"
    BY <1>1, <2>2, <2>3
  <2>4. CASE at \in {"creating", "quarantined"}
    <3>1. r.is = "Native"
      BY <1>6, <2>1, <2>4 DEF EarlyRead, Handshake, Creating, ReceiveLate, CreateEnds, Owned, SettlesCreate
    <3> QED BY <1>1, <2>2, <2>4, <3>1
  <2> QED BY <2>1, <2>3, <2>4
<1>7. CASE SealExact
  BY <1>3, <1>7, EmptyRecord DEF SealExact
<1> QED BY <1>2, <1>3, <1>4, <1>5, <1>6, <1>7, EmptyRecord DEF EarlyCall

\* The answer to the turn that is out is the truth about it.
LEMMA AnswerTrue ==
    ASSUME Inv, Next, NEW r, Receive(r), pending = <<TheTurn>> \/ pending = <<>>, NEW d \in Disposition(r),
           \A q \in received : q.kind = "turn/start" => q.id = turn
    PROVE  /\ d = "notAccepted" => \A q \in received' : q.kind = "turn/start" => q.id \in refused'
           /\ d = "accepted" => turn \in Turns' \cap accepted'
<1>1. /\ UNCHANGED <<received, refused, accepted>>
      /\ r.is = "Native" => pending # <<>> /\ pending[1].id \in refused
      /\ r.is = "TurnStarted" => pending # <<>> /\ pending[1].id \in accepted
  BY ReadHasEffect DEF Inv, ReadEffect, AnswerTaken, Pend, server
<1>2. TheTurn.id = turn /\ TheTurn.kind = "turn/start" /\ (pending # <<>> => pending[1] = TheTurn)
  BY DEF TheTurn
<1>3. CASE d = "notAccepted"
  BY <1>1, <1>2, <1>3 DEF Disposition
<1>4. CASE d = "accepted"
  <2>1. pending # <<>> /\ turn \in accepted
    BY <1>1, <1>2, <1>4 DEF Disposition
  <2>2. 1 \in DOMAIN pending
    BY <2>1, PendingIsOne DEF Inv
  <2>3. turn \in ReceivedIds
    BY <2>1 DEF Inv, RangeInv
  <2>4. TheTurn \in received
    BY <1>2, <2>1, <2>2, <2>3 DEF Inv, FlightInv
  <2>5. turn \in Turns
    BY <1>2, <2>4 DEF Turns
  <2> QED BY <1>1, <1>4, <2>1, <2>5, Grows
<1> QED BY <1>3, <1>4

LEMMA LateRecord ==
    ASSUME Inv, Next, LateStep, Calls \/ ReadSteps
    PROVE  Truthful'
<1>1. created' = created /\ created # "notAccepted" /\ created' # "notAccepted"
  BY DEF LateStep, Inv, CreateInv, Early
<1>2. CASE written' = written /\ received' = received
  BY <1>1, <1>2, SameRecord
<1>3. ASSUME NEW w \in Writes, AskThread(w) PROVE Truthful'
  <2>1. written' = written /\ at = "ask"
    BY <1>3 DEF AskThread, history
  <2>2. CASE UNCHANGED pipes
    BY <1>2, <2>1, <2>2 DEF pipes
  <2>3. CASE MayRequest /\ SendRequest("thread/read", w)
    <3>1. received' \in {received, received \cup {[id |-> next_id, kind |-> "thread/read"]}}
      BY <2>1, <2>3, SendWrites DEF WriteEffect
    <3> QED BY <1>1, <2>1, <3>1, SameRecord
  <2> QED BY <1>3, <2>2, <2>3 DEF AskThread
<1>4. ASSUME NEW w \in Writes, Dispatch(w) PROVE Truthful'
  <2>1. /\ WriteEffect(TheTurn, w) /\ UNCHANGED turn /\ at = "dispatch" /\ probed' = probed
        /\ w.receipt # "ProvenNotWritten" <=> pending' # <<>>
    BY <1>4, DispatchWrites DEF Dispatch
  <2>2. Fresh /\ probed /\ turn \in Ids
    BY <2>1 DEF Inv, WriteInv, RangeInv, Fresh
  <2>3. NoTurnOut /\ NothingWritten
    BY <2>2, FreshHas
  <2>4. CASE w.receipt = "Written"
    BY <1>1, <1>4, <2>3, <2>4, EmptyRecord DEF Dispatch
  <2>5. CASE w.receipt # "Written"
    <3>1. written' = [written EXCEPT ![turn] = Failed(w)] /\ lane' = NoLane /\ at' = "free"
      BY <1>4, <2>5 DEF Dispatch, Answers, Goes
    <3>2. /\ received' \in {received, received \cup {TheTurn}} /\ pending' \in {<<>>, <<TheTurn>>}
          /\ w.receipt = "ProvenNotWritten" => received' = received
      BY <2>1 DEF WriteEffect
    <3>3. pending' # <<>> => pending' = <<TheTurn>> /\ Failed(w) = "unknown"
      BY <2>1, <3>2 DEF Failed
    <3>4. \A k \in DOMAIN pending' : pending'[k] = TheTurn /\ Failed(w) = "unknown"
      BY <3>2, <3>3
    <3>5. \A q \in received' : q.kind = "turn/start" => q.id = turn
      BY <2>3, <3>2 DEF NoTurnOut, TheTurn
    <3>6. OneRecord(Failed(w))
      BY <2>1, <2>2, <2>3, <3>1, <3>4, <3>5 DEF OneRecord, NothingWritten
    <3>7. Failed(w) = "notAccepted" => \A q \in received' : q.kind # "turn/start"
      BY <2>3, <3>2 DEF Failed, NoTurnOut
    <3>8. Failed(w) # "accepted"
      BY DEF Failed
    <3> QED BY <1>1, <3>6, <3>7, <3>8, NewRecord
  <2> QED BY <2>4, <2>5
<1>5. CASE RefuseAtLastCheck
  <2>1. /\ at = "dispatch" /\ written' = [written EXCEPT ![turn] = "notAccepted"] /\ lane' = NoLane /\ at' = "free"
        /\ UNCHANGED <<pending, received, turn, probed>>
    BY <1>5 DEF RefuseAtLastCheck, Answers, Goes, pipes
  <2>2. Fresh /\ probed /\ pending = <<>> /\ turn \in Ids
    BY <2>1 DEF Inv, WriteInv, RangeInv, Fresh
  <2>3. NoTurnOut /\ NothingWritten
    BY <2>2, FreshHas
  <2>4. OneRecord("notAccepted")
    BY <2>1, <2>2, <2>3 DEF OneRecord, NoTurnOut, NothingWritten
  <2> QED BY <1>1, <2>1, <2>3, <2>4, NewRecord DEF NoTurnOut
<1>6. ASSUME NEW r \in Reads, Recheck(r), Answers("notAccepted") PROVE Truthful'
  <2>1. /\ Receive(r) /\ at = "recheck" /\ UNCHANGED <<turn, probed>>
    BY <1>6 DEF Recheck, Drains
  <2>2. Fresh /\ probed /\ turn \in Ids /\ pending = <<>>
    BY <2>1 DEF Inv, WriteInv, RangeInv, Fresh
  <2>3. NoTurnOut /\ NothingWritten
    BY <2>2, FreshHas
  <2>4. received' = received /\ pending' = <<>>
    BY <2>1, <2>2, ReadHasEffect DEF Inv, ReadEffect
  <2>5. OneRecord("notAccepted")
    BY <1>6, <2>1, <2>2, <2>3, <2>4 DEF Answers, Goes, OneRecord, NoTurnOut, NothingWritten
  <2> QED BY <1>1, <2>3, <2>4, <2>5, NewRecord DEF NoTurnOut
<1>7. ASSUME NEW r \in Reads, ReadTurn(r), NEW d \in Disposition(r), Answers(d) PROVE Truthful'
  <2>1. Receive(r) /\ at = "answer" /\ UNCHANGED <<turn, probed>>
    BY <1>7 DEF ReadTurn
  <2>2. /\ probed /\ turn \in Ids /\ pending = <<TheTurn>> /\ NothingWritten
        /\ \A q \in received : q.kind = "turn/start" => q.id = turn
    BY <2>1 DEF Inv, WriteInv, RangeInv, Fresh, TheTurn, NothingWritten
  <2>3. /\ received' = received /\ pending' \in {pending, <<>>}
        /\ r.is \in {"TurnStarted", "Native"} => pending' = <<>>
    BY <2>1, ReadHasEffect DEF Inv, ReadEffect, AnswerTaken
  <2>4. d # "unknown" => pending' = <<>>
    BY <1>7, <2>3 DEF Disposition
  <2>5. \A k \in DOMAIN pending' : pending'[k] = TheTurn /\ d = "unknown"
    BY <2>2, <2>3, <2>4
  <2>6. OneRecord(d)
    BY <1>7, <2>1, <2>2, <2>3, <2>5 DEF Answers, Goes, OneRecord, NothingWritten
  <2>7. /\ d = "notAccepted" => \A q \in received' : q.kind = "turn/start" => q.id \in refused'
        /\ d = "accepted" => turn \in Turns' \cap accepted'
    BY <1>7, <2>1, <2>2, AnswerTrue
  <2> QED BY <1>1, <2>6, <2>7, NewRecord
<1>8. ASSUME NEW r \in Reads, ReconcileReads(r), NEW d \in Disposition(r), Goes("free"),
             written' = [written EXCEPT ![turn] = d]
      PROVE  Truthful'
  <2>1. Receive(r) /\ at = "reconcile" /\ UNCHANGED <<turn, lane, probed>>
    BY <1>8 DEF ReconcileReads
  <2>2. written[turn] = "unknown" /\ turn \in Ids
    BY <2>1 DEF Inv, WriteInv, RangeInv
  <2>3. /\ received' = received /\ pending' \in {pending, <<>>}
        /\ r.is \in {"TurnStarted", "Native"} => pending' = <<>>
    BY <2>1, ReadHasEffect DEF Inv, ReadEffect, AnswerTaken
  <2>4. /\ probed /\ lane = NoLane /\ \A j \in Ids : j # turn => written[j] = "none"
        /\ \A q \in received : q.kind = "turn/start" => q.id = turn
        /\ \A k \in DOMAIN pending : pending[k] = TheTurn
    BY <2>2, WrittenOnRecord DEF TheTurn
  <2>5. pending = <<>> \/ pending = <<TheTurn>>
    BY <2>4, PendingIsOne DEF Inv, Pend
  <2>6. d # "unknown" => pending' = <<>>
    BY <1>8, <2>3 DEF Disposition
  <2>7. \A k \in DOMAIN pending' : pending'[k] = TheTurn /\ d = "unknown"
    BY <2>3, <2>4, <2>6
  <2>8. OneRecord(d)
    BY <1>8, <2>1, <2>2, <2>3, <2>4, <2>7 DEF Goes, OneRecord
  <2>9. /\ d = "notAccepted" => \A q \in received' : q.kind = "turn/start" => q.id \in refused'
        /\ d = "accepted" => turn \in Turns' \cap accepted'
    BY <1>8, <2>1, <2>4, <2>5, AnswerTrue
  <2> QED BY <1>1, <2>8, <2>9, NewRecord
<1>9. CASE Calls
  <2>1. ASSUME Probe \/ RefuseWrite \/ PrepareTurn \/ \E i \in Ids : Poll(i) \/ Reconcile(i)
        PROVE  written' = written /\ received' = received
    BY <2>1 DEF Probe, RefuseWrite, PrepareTurn, Poll, Reconcile, pipes, history
  <2>2. ASSUME NEW w \in Writes, NEW why, Start(w, why) \/ Attach(w) \/ SealExact PROVE FALSE
    BY <2>2 DEF Start, Attach, SealExact, LateStep, Early
  <2>3. \E w \in Writes : TRUE
    BY DEF Writes
  <2> QED BY <1>2, <1>3, <1>4, <1>5, <1>9, <2>1, <2>2, <2>3 DEF Calls
<1>10. CASE ReadSteps
  <2>1. received' = received
    BY <1>10, ReadsReceive, ReadHasEffect DEF Inv, ReadEffect
  <2>2. ASSUME NEW r \in Reads, Handshake(r) \/ Creating(r) \/ ReceiveLate(r) \/ ProbeDrain(r) \/ ReadThread(r)
                                \/ ProbeSettles(r) \/ PollReads(r)
        PROVE  written' = written
    BY <2>2 DEF Handshake, Creating, ReceiveLate, ProbeDrain, ReadThread, ProbeSettles, PollReads, history
  <2>3. ASSUME NEW r \in Reads, Recheck(r) PROVE Truthful'
    BY <1>2, <1>6, <2>1, <2>3 DEF Recheck
  <2>4. ASSUME NEW r \in Reads, ReadTurn(r) PROVE Truthful'
    BY <1>2, <1>7, <2>1, <2>4 DEF ReadTurn
  <2>5. ASSUME NEW r \in Reads, ReconcileReads(r) PROVE Truthful'
    BY <1>2, <1>8, <2>1, <2>5 DEF ReconcileReads
  <2> QED BY <1>2, <1>10, <2>1, <2>2, <2>3, <2>4, <2>5 DEF ReadSteps
<1> QED BY <1>9, <1>10

LEMMA RecordStep ==
    ASSUME Inv, Next
    PROVE  RecordInv'
<1>1. Truthful'
  <2>1. CASE Calls
    BY <2>1, LateCalls, EarlyRecord, LateRecord
  <2>2. CASE ReadSteps
    BY <2>2, LateReads, EarlyRecord, LateRecord
  <2>3. CASE ServerSteps
    <3>1. UNCHANGED <<received, written, created>>
      BY <2>3, ServerHasEffect DEF Inv, ServerEffect, ServerKeeps, history
    <3> QED BY <3>1, SameRecord
  <2> QED BY <2>1, <2>2, <2>3 DEF Next
<1> QED BY <1>1, FactsStep, FactsHoldNext DEF Truthful

-----------------------------------------------------------------------------
(* The invariant holds. *)

LEMMA OrderStep ==
    ASSUME Inv, Next
    PROVE  QueueInv' /\ PipeInv'
<1>1. TypeOK /\ RangeInv /\ QueueInv /\ PipeInv
  BY DEF Inv
<1>2. CASE Calls
  <2>1. UNCHANGED <<notifications, popped, inbound, sent, accepted, finished>>
    BY <1>2, CallsKeep DEF server
  <2> QED BY <1>1, <2>1 DEF QueueInv, PipeInv, NoteTrue, IsNote
<1>3. CASE ReadSteps
  BY <1>1, <1>3, ReadsReceive, ReadKeepsOrder
<1>4. CASE ServerSteps
  BY <1>1, <1>4, ServerHasEffect, ServerKeepsOrder
<1> QED BY <1>2, <1>3, <1>4 DEF Next

LEMMA InitInv == Init => Inv
<1> SUFFICES ASSUME Init PROVE Inv
  OBVIOUS
<1>1. TypeOK /\ RangeInv
  <2>1. written \in [Ids -> Dispositions]
    BY DEF Init, Dispositions
  <2>2. /\ pending \in Seq(Requests) /\ Len(pending) <= 1
        /\ notifications \in Seq(Notifications) /\ Len(notifications) <= MaxQueue
        /\ inbound \in Seq(Lines) /\ received \subseteq Requests
    BY TransportAssumption DEF Init
  <2>3. next_id \in 2..MaxId + 1 /\ stdout \in 0..MaxLines /\ lane \in -1..epoch /\ frame \in Ids \cup {None}
    BY TransportAssumption DEF Init, NoLane
  <2>4. {ambiguous, initialized, torn, alive, announced, quiet, terminal, lost_reported, degraded_reported} \subseteq BOOLEAN
    BY DEF Init
  <2>5. at \in Places /\ created \in {"none", "owned", "unknown", "notAccepted", "failed"}
    BY DEF Init, Places
  <2>6. RangeInv
    BY DEF Init, RangeInv, None
  <2> QED BY <2>1, <2>2, <2>3, <2>4, <2>5, <2>6 DEF TypeOK
<1>2. FlightInv /\ LinesInv /\ QueueInv /\ PipeInv
  BY DEF Init, FlightInv, SingleFlight, Unanswered, LinesInv, QueueInv, PipeInv
<1>3. CreateInv /\ SilenceInv
  BY DEF Init, CreateInv, SilenceInv
<1>4. WriteInv
  <2>1. \A i \in Ids : written[i] = "none"
    BY DEF Init
  <2> QED BY <2>1 DEF Init, WriteInv, Fresh
<1>5. RecordInv
  <2>1. \A i \in Ids : written[i] = "none"
    BY DEF Init
  <2> QED BY <2>1 DEF Init, RecordInv, AnswersTruthful, NotAcceptedTruthful, PositiveTruthful
<1> QED BY <1>1, <1>2, <1>3, <1>4, <1>5 DEF Inv

LEMMA Stutters ==
    ASSUME Inv, UNCHANGED vars
    PROVE  Inv'
<1>1. /\ UNCHANGED <<pending, notifications, ambiguous, initialized, next_id, frame, stdout>>
      /\ UNCHANGED <<at, purpose, probed, epoch, lane, reconciling, response, turn>>
      /\ UNCHANGED <<started_turn, pending_terminal, terminal, lost_reported, degraded_reported>>
      /\ UNCHANGED <<inbound, received, torn, announced, accepted, refused, finished, alive, sent>>
      /\ UNCHANGED <<created, written, facts, quiet, popped, faults>>
  BY DEF vars, transport, controller, observation, server, pipes, history
<1>2. TypeOK' /\ RangeInv'
  BY <1>1 DEF Inv, TypeOK, RangeInv, ReceivedIds
<1>3. FlightInv' /\ LinesInv'
  BY <1>1 DEF Inv, FlightInv, SingleFlight, Unanswered, LinesInv, LineTrue, ReceivedIds
<1>4. CreateInv' /\ WriteInv' /\ SilenceInv'
  BY <1>1 DEF Inv, CreateInv, WriteInv, Fresh, SilenceInv, ReceivedIds
<1>5. QueueInv' /\ PipeInv'
  BY <1>1 DEF Inv, QueueInv, PipeInv, NoteTrue, IsNote
<1>6. RecordInv'
  BY <1>1 DEF Inv, RecordInv, AnswersTruthful, NotAcceptedTruthful, PositiveTruthful, Turns
<1> QED BY <1>2, <1>3, <1>4, <1>5, <1>6 DEF Inv

LEMMA InvStep ==
    ASSUME Inv, [Next]_vars
    PROVE  Inv'
<1>1. CASE Next
  BY <1>1, TypesHold, FlightStep, LinesStep, CreateStep, WriteStep, SilenceStep, OrderStep, RecordStep DEF Inv
<1> QED BY <1>1, Stutters

LEMMA InvHolds == Spec => []Inv
BY InitInv, InvStep, PTL DEF Spec

-----------------------------------------------------------------------------
(* What the runs check, for every value of the constants. *)

\* The queues of the transport stay what its limits allow, and what the calls
\* remember of it stays in range, whatever is read, written or lost.
THEOREM TransportTyped == Spec => []TypeOK
BY InvHolds, PTL DEF Inv

\* next_until and send_request: the server never has a second request it has not
\* answered, and nothing but `initialize` before the end of the handshake.
THEOREM OneRequestOut == Spec => []SingleFlight
<1>1. Inv => SingleFlight
  BY DEF Inv, FlightInv
<1> QED BY <1>1, InvHolds, PTL

\* next_until keeps the notifications it reads while a request is out in a queue,
\* and empties the queue first: none is lost from between two, repeated or moved.
THEOREM NotesComeInOrder == Spec => []NotesInOrder
<1>1. ASSUME Inv PROVE NotesInOrder
  <2>1. NumbersInv
    BY <1>1, Ordered DEF Inv
  <2>2. \A k \in DOMAIN notifications : notifications[k].n > popped
    BY <2>1 DEF NumbersInv, QueueInv
  <2>3. \A k \in DOMAIN inbound : inbound[k].kind = "note" =>
            /\ inbound[k].note.n > popped
            /\ \A l \in DOMAIN notifications : notifications[l].n < inbound[k].note.n
    BY <2>1 DEF NumbersInv, PipeInv, IsNote
  <2> QED BY <2>1, <2>2, <2>3 DEF NumbersInv, QueueInv, NotesInOrder
<1> QED BY <1>1, InvHolds, PTL

\* What create, write_reserved_turn, reconcile_exact and the poll answer is so at
\* the server: not accepted never runs, accepted does, started and terminal are.
THEOREM AnswersHold == Spec => []AnswersTruthful
<1>1. Inv => AnswersTruthful
  BY DEF Inv, RecordInv
<1> QED BY <1>1, InvHolds, PTL

\* The last drain and the epoch of the lane: unless a refusal of a server request
\* is so slow that it misses its write deadline and reads as silence, the bytes
\* that leave are the prepared turn, and no turn of this controller runs or may.
THEOREM DispatchHolds == ~SlowPipe => (Spec => []DispatchSafe)
<1> SUFFICES ASSUME ~SlowPipe PROVE Spec => []DispatchSafe
  OBVIOUS
<1>1. ASSUME Inv PROVE DispatchSafe
  <2>1. at = "dispatch" => /\ frame = turn /\ ~torn /\ ~ambiguous /\ pending = <<>> /\ quiet
                           /\ Fresh
    BY <1>1 DEF Inv, SilenceInv, WriteInv, Fresh
  <2>2. at = "dispatch" => Turns = {}
    BY <1>1, <2>1, FreshHas DEF NoTurnOut, Turns
  <2> QED BY <2>1, <2>2 DEF DispatchSafe, DispatchIntact, DispatchAlone, Running
<1> QED BY <1>1, InvHolds, PTL

\* A probe grants its lane only to a thread from which nothing was read since it
\* answered idle; the epoch of the lane says so until the next read.
THEOREM LanesAreQuiet == ~SlowPipe => (Spec => []LaneQuiet)
<1> SUFFICES ASSUME ~SlowPipe PROVE Spec => []LaneQuiet
  OBVIOUS
<1>1. ASSUME Inv PROVE LaneQuiet
  <2>1. epoch \in Nat
    BY <1>1 DEF Inv, RangeInv
  <2> QED BY <1>1, <2>1 DEF Inv, SilenceInv, LaneQuiet, NoLane
<1> QED BY <1>1, InvHolds, PTL

\* What is left of DispatchSafe when refusals may be slow: the line is clean, the
\* frame is the prepared turn or was taken by a refusal, and no turn was sent.
DispatchApart ==
    at = "dispatch" => ~torn /\ ~ambiguous /\ pending = <<>> /\ frame \in {None, turn} /\ Turns = {}

\* write_reserved_turn with any pipe: the bytes begin a line, while no request is
\* out and no turn was ever written, and they are at most the prepared turn.
THEOREM DispatchIsApart == Spec => []DispatchApart
<1>1. ASSUME Inv PROVE DispatchApart
  <2>1. at = "dispatch" => ~torn /\ ~ambiguous /\ pending = <<>> /\ frame \in {None, turn} /\ Fresh
    BY <1>1 DEF Inv, SilenceInv, WriteInv, Fresh
  <2>2. at = "dispatch" => Turns = {}
    BY <1>1, <2>1, FreshHas DEF NoTurnOut, Turns
  <2> QED BY <2>1, <2>2 DEF DispatchApart
<1> QED BY <1>1, InvHolds, PTL

=============================================================================
