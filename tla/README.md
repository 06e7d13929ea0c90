# Verification of gearwit

TLA+ models of the program under `src/`, the TLC runs that check them on small
instances, and theorems that TLAPS proves for every instance. The code is the
reference; where a document or a comment says something else, section 7 says so. Four
such places have a run that shows them, listed under `findings` in `PROJECT.json`; the
fifth is an exception that a property names.

## 1. The system

gearwit wakes a sleeping agent. A *producer* watches for events; when events match
an *arm* (a managed waiter registered at a *generation*) the daemon *claims* them
durably and then either tells an attached waiter, over a local link, or dispatches one
fixed turn to a native application server through a controller. Whatever was
written, accepted, observed or lost is kept as evidence: the program may never
repeat a write whose fate it does not know.

| Part | Source | State | Operations | Modelled |
|---|---|---|---|---|
| Semantic store, native sections | `gearwit-host/src/persist.rs` | arms, births, ownership, claims, attachments, prepared correlations, consumed probes, pre-write conclusions, reservations, sealed coordinates, write evidence, turn facts, reconciliations | the native half of the `Persist` port | `AuthorityStore` |
| Daemon authority | `authority.rs` | maps that follow the store | register, reserve/resolve a birth, admit, prepare, authorize, conclude, record, revoke, recover | `NativeDispatch` |
| Coordinator | `coordinator.rs` | probing, writing, observing, reconciling | the split-phase sequence over the authority | `NativeDispatch` |
| Controller port | `controller.rs` | the calls every controller has, and the scripted controller of the tests | create, late create, write, poll, reconcile | `NativeDispatch` (what they can answer) |
| Codex controller and transport | `codex_transport.rs` | pending request, notification queue, ambiguity, frame buffer, lane epoch, remembered terminals | the same calls, line by line over one server's stdio; resume | `CodexTransport` |
| Process group | `codex_transport.rs` | anchor, child, qualified image | qualify, probe the version, start, clean up, drop | `CodexProcess` |
| Helper authority | `persist.rs` | grants, retired grants, retrievals, replay tables, handled coverage, re-arm joins | mint, revoke, retrieve, materialize, acknowledge, re-arm | `HelperStore`, `HelperAuthority` |
| SQLite baseline | `sqlite_baseline.rs` | snapshot, poisoned flag | commit, reload, finish, reopen | `SqliteBaseline` |
| Waiter link | `link.rs`, `admit.rs` | current link, request history | prepare and commit an attach, drop a session, drop an expired link | `LinkTable` |
| Delivery ledger | `deliver.rs` | pending delivery, attempt result | prepare, redeliver, record | `DeliveryLedger` |
| Acknowledgements | `ack.rs` | arm, batch of each signal, request history | note claimed / delivered / completed, decide, re-arm | `AckStore` |
| Daemon loop | `gearwit-cli/src/daemon.rs`, `wait_on.rs`, `child.rs` | accept thread and main loop over the tables above, coverage child, served writer | accept, adopt, flush, poll, ingest, restart, halt | `WaiterDaemon` |
| Evidence logs | `gearwit-domain/src/attempt.rs`, `interrupt.rs` | append-only receipt logs | append | `EvidenceLogs` |
| Watch loop | `gearwit-cli/src/wait_on.rs`, `main.rs` | cursor, outcome and receipt of one interval | wait, drain, print, go on or exit | `WatchLoop` |
| Home and listener | `gearwit-host/src/paths.rs` | directories, in-process claims, file lock, socket path | prepare, claim, lock, bind, drop | `HostPaths` |
| Simulator | `gearwit-sim/src/lib.rs`, `gearwit-host/src/simulator.rs` | scheduler, bounded queue, driver over a store, oracle | run one scenario and judge it | `SimulatorStream` |
| Conformance suite | `gearwit-host/src/conformance.rs` | scripts of calls with the answer each must get | run a case against a store | `ConformanceCases` |
| Wire protocol, operator console | see `PROJECT.json` | none | encode, render | no: encodings and presentation without state |

Parts interact in three places, and each has a module that composes them: the store,
the authority, the coordinator and the native server (`NativeDispatch`); the accept
thread, the main loop and the three tables between them (`WaiterDaemon`); the port of the
helper store and its durable backend (`SqliteBaseline`). Simulator and conformance
suite are clients of the helper store and instantiate its operators (`HelperStore`).
The other parts meet the first three only through answers that are inputs there.

## 2. The managed native path

### Modules

* `AuthorityStore` is the durable store, one action for each port method. A method
  that returns an error changes nothing, so it is given by the condition of its
  success and its effect. Random identities are replaced by what they name (module
  comment), digests and verifiers are left out.
* `NativeDispatch` adds the host: the authority, the coordinator, what the two
  controllers can answer, the native server and the clock. The host calls one
  operation at a time. An operation with two store calls keeps its continuation in
  `step`, so that `Crash` and `StoreCallFails` fall between the calls. `Crash` loses
  the host's and the controllers' memory; `Recover` is `HostCoordinator::recover`
  and leaves the host down when recovery finds two follow-ups, as the code does.
  `ReconcileCodex` includes the `recover_authority_state` that `reconcile_exact` makes.
* `DispatchContract` is the abstract promise about one attempt: a phase of what is
  durably known, what the server did, and how often the turn was written.
  `NativeDispatch!ContractSpec` maps the store's rows to a phase (`Phase`) and says
  that the path implements the contract.
* `MCNativeDispatch` holds the symmetry and the bound of the runs;
  `NativeDispatchProofs` and `NativeContractProofs` the proofs, the second over the first.

External, modelled from how the code reads it: the server's progress
(`NativeProgress`, `ThreadProgress`). A request it received may be accepted or
refused at any time, and an accepted turn finishes.

### Hazards and properties

`PROJECT.json` lists every hazard at its line. The properties, in the order of what
they protect:

* `AtMostOnceAfterClaim`: the bytes of a turn leave at most once over all crashes and
  recoveries, and only after claim, ownership, preparation and reservation are durable.
* `RecordsTruthful`, in three parts. `NegativeProofSound`: nothing is recorded as unwritten
  or not accepted that the server runs or may still start; this is the record that
  permits a new attempt. `TerminalFactSound`, `OwnershipSound`: positive facts are true of
  the server.
* `EffectAccounted`: at every instant, the one between the write and its evidence
  included, a possible native effect has an open reservation or evidence.
* `FollowupsCoherent`: what the coordinator follows up is what the store will accept.
* `EvidenceOnlyDegrades`, `RecoveryResumes`: action properties over all steps and
  over each recovery.
* `ContractSpec`: refinement of `DispatchContract`.

### Runs

| Run | Instance | What it shows |
|---|---|---|
| `native_one_arm` | 1 arm, 1 request, 1 attempt; generations 1 and 2 behind the Codex controller, 1 behind the scripted one | types, `RecordsTruthful`, `EvidenceOnlyDegrades` and the refinement, with re-registration, lease expiry, revocation and late creates behind the Codex controller and the exact responses and terminal reconciliations that only the scripted one gives; 491 692 states |
| `native_two_arms` | 2 arms, 2 requests, 2 attempts, symmetric, Codex | `AtMostOnceAfterClaim`, `EffectAccounted`, `FollowupsCoherent` and `RecoveryResumes` of two attempts over one store and coordinator; 718 810 states |
| `restart_reconstruction`, `degraded_response` | 2 arms behind Codex, 1 arm behind the scripted controller | two of the disagreements of section 7 |

A host has one controller for good (`port`), and the first run tries both.
Attempts only meet through the coordinator's slots and through recovery of the shared
store, both of which relate two attempts at a time, so two are enough for
interleavings and one for everything else. Each run has one more bound. `TwoDispatches`:
with two arms, creates settle at once and at most one lease or attachment is
withdrawn; the one-arm run has neither limit. `ScriptedOnce`: with one arm, only the Codex
controller sees a second generation, which is a matter of the store and the authority
and not of the controller. Arms and requests are symmetric: no operator distinguishes
their members, and the properties checked there are invariants and step properties.
`RecoveryResumes` is checked behind the Codex controller, which never gives the
degraded exact response of `degraded_response`.

No liveness is stated here and no fairness assumed: nothing in the repository drives
the coordinator in a loop, so no progress of it is promised. For the same reason
deadlock is not checked: when the attempts are used up the path rests.

## 3. The waiter daemon

### Modules

The daemon has two threads. The accept thread serves one connection at a time: an attach
request is prepared under the table lock, answered without a lock and committed under the
lock again; a handled-cursor request is applied under the ack lock. Either ends with an
event on one channel to the main loop, which takes one event per turn, then reads the
served waiter, then looks at the coverage child.

* `AckStore`, `LinkTable`, `DeliveryLedger` are the three tables with the functions of
  `ack.rs`, `admit.rs` with `link.rs`, and `deliver.rs`. A function that fails changes
  nothing, so it is given by its condition and its effect.
* `WaiterDaemon` composes them. An action is one critical section with the thread-local
  work around it; `pc` is the place in the main loop, `accept.pc` the place in the accept
  thread. `flush_current` is two actions, since the link is read under the table lock
  (`ReadLink`) and used after it (`FlushDelivery`); so are an attach (`PrepareAttach`,
  `CommitWrittenAttach`), `restart_after_ack` (`TakeRearm`, `Restart...`) and a revoke
  (`then` is where the loop goes on).
* `CoverageContract` is the promise about the event stream: batches follow each other
  where the last one was handled to, one for each generation. `CoverageSpec` is the
  refinement.
* `MCWaiterDaemon` holds the symmetry.

Abstractions. Events are numbered in drain order and a batch is the range
`<<after, newest>>`; `prepare_delivery` sends the whole snapshot, so nothing lies beyond
what was delivered. A link is named by its request and a request by the connection that
first sent it; a connection nothing refers to is used again, so the number of attaches is
unbounded. `now` of the main loop is `seen`, the leases elapsed at the head of its turn:
like the code, the loop can believe in a lease that is over. `adopt_attached` and the
steps of `poll_chanvoy` up to the flush are one action each: between their locks only the
accept thread can intervene, which never removes the link that was just compared unless
its lease lapsed, and then a later step revokes it. `--after` is given, as
`drain_after` requires. Branches that no state of this composition reaches are kept as
conditions (a newer link at the commit, `OccupiedDifferent`, an unchanged re-arm, a result
of another delivery). External: the provider and its child (`Publish`, `ChildExits`), the
clock, and the death of a waiter; the waiters and the agent follow `attach.rs` and
`ack_handled.rs`.

### Hazards and properties

* `ClaimsExact` (`ClaimNeverRefused`, `RearmsExact`): the accept thread moves the generation of the ACK
  store before the main loop hears of it; every generation in between is one re-arm under
  way, and no claim is refused for it.
* `BatchesContiguous`, `CoverageSpec`: no gap, no overlap, prefix acknowledgements included.
* `DeliverySound` (`StableDelivery`, `DeliveredWasSent`): a redelivery is the same delivery, and what
  the ledger, the flag and the ACK store say was written was written.
* `ReceiptTruthful`, `RecordStable`: what is recorded of a batch is true and final.
* `CoveragePausedByClaim`: exactly one of child and claim.
* `RearmApplied`, `WriterServed` (`LinkServed`, `BatchOffered`), `EventsHandled`: liveness.
  A re-arm is applied, a live link gets a writer and a served writer its batch, every event
  is handled.

### Runs

| Run | Instance | What it shows |
|---|---|---|
| `waiter_faults` | 2 events, 2 connections, a reusable acknowledgement id, any 2 of 8 kinds of failure | all safety properties; 1 382 307 states |
| `waiter_live` | 1 event, 2 failures of lease, waiter, write or a resent attach | re-arm, link and batch progress; 328 710 states |
| `waiter_seat` | 2 events, 1 lost waiter or write | every event is handled; 170 663 states |
| `successor_waits` | the drain of production, no failure | the disagreement of section 7 |

Two events give a prefix, a suffix, and three generations; two connections give a served
waiter and a newcomer, and more queue behind the single accept thread without meeting each
other. `MaxFaults` bounds only failures, not ordinary steps; an acknowledgement made
under an id that may be used again takes the place of both (`ReplayIsAFault`). `FaultKinds` names them:
an elapsed lease, a dead waiter, a waiter that cannot print, a failed write, a failed
child, drain or listener, the end of coverage, and an attach sent again. `Drain` is what
an empty history answers: `ChanvoyDrain` refuses it, the drains of the tests return it.
Only `successor_waits` uses the former: the others use the latter, which goes on where
the former halts, and have a failing drain among their failures. Deadlock is not
checked because the daemon halts. Connections are symmetric in the safety runs; the
liveness runs use no symmetry.

Fairness. `DaemonFairness` is weak fairness of the main loop and of the accept thread:
both loop unconditionally, every wait has a deadline, and each has always one next
action. `SeatFairness` is an assumption about the environment and only `waiter_seat` uses
it: new waiters attach at the live generation, read and leave, the agent acknowledges what
was printed, the child matches an event past its cursor. A waiter that cannot print is
left out there: `return_failed` is terminal in the code, so such a batch is never offered again.

One behaviour is worth knowing although no document denies it: a waiter of the old
generation that is adopted after the acknowledgement, but before the main loop took its
re-arm, is sent the batch that was just handled; `note_delivered` refuses to record it
and the writer is revoked.

## 4. The helper authority and the SQLite baseline

### Modules

`HelperStore` is the helper half of the semantic store as operators over one record: for
each method of the port the condition of its success and the record it leaves, and the
validation that `restore_from_snapshot` runs. `HelperAuthority` is the port as one atomic
store, with the permits a caller holds and the bodies it was shown. `SqliteBaseline` is
the snapshot backend over the same operators and implements `HelperAuthority`.

| Code | Model |
|---|---|
| a grant and the retired grants of an attempt | `grants`, `retired`: a credential is an attempt and the order of its minting, which stands for the reference and the verifier minted together |
| binding digest, origin, canonical body digest | attempt, credential and operations, which they digest |
| retrievals and retrieve replays (rows written together) | `retrieves`, by request nonce |
| ack replays, handled coverage, re-arm joins | `acks`, `handled`, `rearmed` |
| coverage evidence and drain witness | `claims`: how far they prove, chosen at admission |
| `ClaimMaterializationPermit` (moved into the call) | `permits`, used up by `MaterializeClaimedBatch` |
| `set_now` and every lease | `now`, `Tick`, `Horizon`; the leases of attachment, birth and coverage end together |
| `finish`: commit, reload, poison | `phase`, `saved`, `live`, `disk` |

Turn facts are an input here: the native path of section 2 records them. The store has
one arm and the authority admits one claim for each generation. A refused call changes
nothing and has no action.

### Hazards and properties

* `AlwaysRestorable`: the restore validation is strict, and the rows of
  a rotated credential, a partial coverage or a join outlive what made them; no sequence
  of legal calls may build a store that a restart refuses.
* `HandledExact`: the handled cursor is the furthest one acknowledged, with the credential
  that retrieved the batch, however prefixes, replays and rotations interleave.
* `NeverReopened`. `WithdrawalSticks`: an exact replay skips leases and lifecycle but never
  trust, and a permit minted before a rotation or revocation is worth nothing after it.
  `ClosedStaysClosed`: once the turn is over, lost or handled, the attempt never opens again.
* `RetriesOnlyRepeat`. `StaleOnlyReplays`: after the turn, the generation or the lease,
  an attempt can only be repeated; a slow caller's fresh permit is refused.
  `ReplayStable`: one nonce, one request, one answer.
* `AtomicStore`, `LiveMatchesDisk`, `DurableRecord` (`ConfirmedIsDurable`,
  `DisclosedOnRecord`): a failure or crash at any step of a call leaves it done or not
  done, nothing answered is lost and no body is shown before its retrieval is durable.
  Since the abstract store is `AlwaysRestorable`, what is on disk is always accepted by a
  restart.

### Runs

| Run | Instance | What it shows |
|---|---|---|
| `helper_authority` | 3 events, 3 nonces, 2 instants; 1 attempt with 2 credentials, or 2 attempts with 1 each | all the helper properties; 289 401 states |
| `sqlite_baseline` | 1 attempt, 2 events, 2 credentials, 3 nonces, 2 faults | the backend implements the atomic store; 371 050 states |

Three events are the fewest that let a shorter acknowledgement follow a longer one: at the
newest event the attempt closes. Two credentials give one rotation, three nonces a retrieval and two
acknowledgements, or two retrievals and one. `InOrder` (`OnePermit` for the baseline) lets
a caller hold one permit at a time and mints credentials, and claims attempts, in order:
permits do not meet, and order is a renaming. `Crossing` bounds two attempts to what can
pass between them: both are proved whole, with one credential of all operations and
lease 1 each, and at most one turn fact or withdrawal, whose interplay with retrievals the
single attempt has in full. Two faults are enough for a failed call
followed by a crash of the next. A read-back resets the clock of the live copy, so leases do
not run out in `sqlite_baseline`. Deadlock is not checked: leases and nonces run out, and a
store whose read-back is refused may stay closed.

The turn fact of the fixture (`install_terminal`) is committed without `finish`, so it is an
action of its own with its own commit. Recovery quarantines reserved births in the
live copy and commits nothing, which is the one difference `LiveMatchesDisk` admits.

## 5. The parts beside them

### Modules

Seven parts of the program share no state with each other nor with the compositions above.
Each has a module, and `MCHost` puts them side by side: a behaviour is one of one part
(`part`), the others rest in an initial state, so the state space is the sum and not the
product of theirs. The run `host_parts` checks the properties of all.

| Module | Code and model |
|---|---|
| `CodexTransport` | One action for each read of a line or write of a frame, `at` being the place in the call. `Receive` is one turn of `next_until`, `SendRequest` is `send_request`; `Start`, `Handshake`, `Attach`, `Creating`, `ReceiveLate` create or resume a thread, `Probe` to `ProbeSettles` grant a lane, `PrepareTurn` to `ReadTurn` write a reserved turn, `Poll` and `Reconcile` look for its end. The two lines a frame has on the wire, whole or torn, are `received` and `torn`. External: the server, which answers, refuses, finishes, notifies, asks and dies |
| `CodexProcess` | Two rounds, one for the version probe and one for the server. Each has an anchor that leads a process group and a child that joins it; `image` is the file on the executable's path, which another process may replace and put back at any time (`ReplacePath`); a file that was moved away and back has its identity again, so a look cannot tell. `moved` is a history variable: the gaps between a look and what relies on it in which the path was replaced. `Terminate`, `Grace`, `KillAndReap` are the signals of a cleanup |
| `EvidenceLogs` | `DoorbellAttemptTrace::append` with the prerequisites and the sources of the twelve phases, and the rule of `ReceiptLog` as an operator |
| `WatchLoop` | `wait-on`: `ExecuteWaitOn`, `AttachDrain`, `PrintReceipt`, `Advance`; the receipt is built with the log of `EvidenceLogs`. External: the posts |
| `HostPaths` | `GearwitPaths::from_root` and `bind`, one action for each system call, by several threads of several processes; `DropSocket`, `DropClaim`, `DropLock` in the order the fields of the listener drop; `Die` at any point |
| `SimulatorStream` | `execute_stream` with its scheduler and bounded queue, the stream driver over `HelperStore`, the oracle, the fault modes and the verdict, over the whole catalogue, every generated chain and every arrival pattern of the queue scenario |
| `ConformanceCases` | The helper cases of the conformance suite and of the simulated chains as scripts against `HelperStore`: what the code's own tests demand of a store, demanded of its model |

### Hazards and properties

* `AnswersTruthful`: what the controller calls not accepted never runs at the server, and
  what it calls accepted, started or terminal is so, however answers and notifications
  are delayed, reordered, repeated or lost. `NativeDispatch` assumes exactly this of the
  port.
* `SingleFlight`: at most one request is unanswered, and behind a torn frame
  nothing is written any more; nothing but `initialize` precedes the end of the handshake.
* `DispatchSafe`: one frame buffer serves refusals and prepared turns; the bytes that
  leave are those of the turn that was prepared, at the beginning of a line, into
  a thread that was idle when last heard of and where no turn of ours runs.
* `NotesInOrder`: notifications pass through the queue and the pipe in order, none twice.
* `GroupContained`: no cleanup, nor the retry of a failed one by the drop, signals a group
  whose id the system has given to somebody else, and a refused start leaves no child.
  `QualifiedServer`: the executable is looked at before the probe, after it and before the
  server, each time by path and a step before the spawn. The probe and the server are the
  image of the first look, however often the path is replaced and put back, except
  through these gaps: another image is probed only if the path was replaced between the look
  and the spawn and restored before the second look, and another image is served only if
  the path was replaced between the last look and that spawn. Both are reachable, so the
  property does not say that the server is the image that was probed. What it does say
  fails if any of the three looks is left out. A server that is talked to is in its anchor's group.
* `DoorbellProven`: `append` looks at direct prerequisites only; nevertheless a re-arm
  stands behind the whole doorbell, and a retrieval or an act of the seat behind a turn
  start that the controller itself reported and that behind the durable claim.
* `WatchReports`: across intervals every post is printed once and in order, whenever it
  was posted; a receipt claims no drain or match that did not happen, and the exit
  agrees with what was printed. `CoverageTold`, a part of it, relates the end of coverage on
  the receipt to the next step of the loop: a watcher that stops for any reason but a match
  has said so, and one that waits again has not, except after a quiet interval. There
  the receipt is wrong by what the domain says of the fact, the fifth disagreement of section 7,
  so the property does not say that an end of coverage on a receipt is one.
* `HomeSafe`: a listener that was handed out keeps its path and its lock until it is
  dropped, against other threads, processes, deaths and drops under way; and it lies in
  directories that only its user can enter.
* `SimulatorSound`: the store answers as the independent oracle does, except where a fault
  was injected, and then the run is failed; a run that was cut short never passes;
  the queue loses nothing.
* `ConformanceMet`: every script gets its answers, and a late retry of any of its calls
  changes no row.

### Runs

| Run | Instance | What it shows |
|---|---|---|
| `host_parts` | all seven parts | the properties above; 943 298 states |
| `blocked_refusal` | the transport, with refusals that may miss their write deadline (`SlowPipe`) | the fourth disagreement of section 7 |

Bounds of the transport: ids to 4 (a birth has `initialize`, one create or resume, one
probe and one turn), 2 notifications or requests of the server, 2 lines in the pipe, a
queue of 1, 6 lines of output and 2 faults. A queue of 1 is full after one notification. Six
lines are the four answers of a birth and the started and the terminal notification of
its turn, so a whole turn is followed to its end, and with a request or an odd line
between them the limit is met. Two faults allow
a failed write behind a torn line, or a late answer from a server that then dies. Process group: 2 images,
replaced and put back without a bound, at any step; 3 faults fail a probe, its cleanup and the retry.
Trace: offered sequence numbers from one too low to one too high, each phase at most
once by the rule itself, so the trace has no bound of its own. Watch loop: 3 posts, 3
intervals and 2 failures, enough for a post before, during and after a drain and for a
quiet interval between two. Paths: 2 processes of 2 threads with 1 failure or
death, since a conflict is between two binds and a third would wait like the second.
Simulator: up to 4 restart cycles as in the code; the queue scenario offers 6 stimuli in
3 ticks to a queue of 2 in place of 24, 6 and 8: three times the capacity, as in the code.
Every part ends or may be used up, so deadlock is not checked; none has a fairness
assumption, since each is driven by a caller or by the environment.

## 6. What is proved

`NativeDispatchProofs`, for any finite or infinite set of arms, generations and
requests, any attempt bound and either controller (`StoreAssumption`,
`PortAssumption`):

* `TypeCorrect`: `Spec => []TypeOK`. Besides types, `TypeOK` says that a resumed
  reconciliation step has the scope it will present and that no operation survives
  a crash. The lemmas go section by section of the store, since each action
  changes few rows.
* `AtMostOnce`: `Spec => []AtMostOnceAfterClaim`. That invariant is not inductive: a
  write is possible when `writing` is occupied and unanswered, and the action alone
  does not say that the attempt was not written before. `WriteProtocol` adds that a
  reservation is only made of a claimed, owned and prepared attempt, that the slots
  hold such attempts, and that an unanswered slot holds an unwritten one. `StoreMonotone`
  (claims, preparations and reservations are never withdrawn, ownership of an owned
  birth is final) carries the durable conjuncts over the steps that do not concern
  them; `writing` survives no crash, which is why recovery cannot write again.

* `RecordsAreTrue` and `EffectsAreAccounted`: `Spec => []RecordsTruthful` and
  `Spec => []EffectAccounted`. Neither is inductive: a fact reaches the store through a
  controller and the coordinator, and a crash may take either. `RecordsInv` states, of
  every place the fact passes through, what it means at the server: the rows of an attempt
  (`RecordHolds`), an answer that is not yet recorded (`AnswersHold`), the create of a birth
  (`CreatesHold`), and that an attempt in a slot was neither written nor refuted before
  (`SlotsFresh`). A refuted attempt is a prepared one, so it is never prepared again. The
  write itself is covered by the reservation, which recovery turns into an ambiguity
  with a reference.
* `EvidenceDegrades`: `Spec => EvidenceOnlyDegrades`, action by action.

`NativeContractProofs`:

* `ImplementsContract`: `Spec => ContractSpec`. The phase of an attempt is read off
  seven rows, so the proof needs which of their combinations occur: rows are written in
  the order of the dispatch (`RowsOrdered`), an accepted turn runs (`AcceptedHolds`), what is
  followed up was reserved and not refused (`FollowupsHold`), and of the attempt in writing no
  more than a doubt is recorded (`WritingApart`, `OutcomeHolds`). From `PhasesInv`, each
  operation either teaches the store something the contract allows (`Learn`; recovery does
  so for many attempts at once), or is the write, or a step of the server.
* `FollowupsAreCoherent`: `Spec => []FollowupsCoherent`. `CoherentInv` adds that a degraded
  fact stands beside a doubt, or beside an exact response that recovery took over
  (`DoubtsHold`), and that the facts of an observed turn name it unless its write is in
  doubt (`ObservedHolds`).

* `RestartResumes`: behind either controller, a successful restart observes or reconciles
  every turn that was sent and has no recorded end, unless it is `Stranded`. There are two
  such kinds: a turn whose reconciliation was recorded as ended while its fact was lost, and
  an exact response of which nothing but a degraded fact is known. The first is a case of the
  hazard at `authority.rs:795`, the second the disagreement that `degraded_response` shows. The
  proof needs that a turn which the server may run has a row that is not refuted
  (`RecordsInv`), that evidence has a reference to follow (`RefsHold`), and which facts
  stand beside a doubt (`DoubtsHold`).
* `CodexResumes`: `Spec /\ port = "codex" => RecoveryResumes`. That controller gives no exact
  response and reconciles to no end (`CodexPlain`), so nothing is stranded. Behind the
  scripted one the property does not hold, which is why the hypothesis is there.

`HelperStoreProofs` and `HelperAuthorityProofs`, for any sets of generations and
nonces and any number of credentials, events and time steps (`HelperAssumption`):
every property the run `helper_authority` checks is a theorem.

* The inductive invariant `Inv` says of the store that it is `Good`: typed, accepted
  by a restart (`Restorable`) and with exact coverage (`Covered`, which is
  `HandledExact` of the sections it reads). Neither half is inductive alone: the
  origin of an acknowledgement stays exact because no retrieval replaces the row it
  rests on, and that row is protected because `Restorable` keeps the two kinds of
  nonce apart.
* `HelperStoreProofs` has one lemma per operation of the port, `Good(s) => Good(op(s))`
  under the guard of the operation. They speak of stores and of no variable, so they
  serve the baseline, which applies the same operations to its memory, as well.
* `TypeCorrect`, `RestartAccepted` and `HandledIsFurthest` follow from `Inv`.
* `ReplaysStable`, `ClosedForGood`, `WithdrawnForGood` and `StaleRepeats` are the four
  action properties, which `NothingReopens` and `RetriesRepeat` join to the two that the
  run checks. `StepShape` reduces each to the five operations that touch grants, rows or
  bodies; `WithdrawnUnusable` and `StaleRefused` say why the guards of these five exclude
  a withdrawn credential and a stale attempt.

`SqliteBaselineProofs`, for any `HelperAssumption` and any bound on faults:

* `TypeCorrect`, `LiveIsOnDisk` and `AnswersAreDurable`: every property of the run. What a
  call may rely on depends on where it is, so the invariant has a part for each phase
  (`PhaseInv`): the running call is the one step by which the memory is ahead of the
  media, until its commit it can be undone, and after it the media are ahead of what was
  answered. Every copy, in memory, saved or on the media, is `Good` by the lemmas of
  `HelperStoreProofs`.
* `BackendIsAtomic`: `Spec => AtomicStore`. The commit is the call of the abstract store,
  whether its answer arrives or not; the end of the process and the poisoning of the
  store are restarts, and every other step stutters.

`WaiterDaemonProofs`, for any number of events, connections and failures
(`DaemonAssumption`; no connection is called `"none"`, which names the absence of one):

* `TypeCorrect`, `ClaimsAgree`, `BatchesFollow`, `DeliveryHolds`, `CoverageHolds`,
  `ReceiptsHold`. Accept thread and main loop each hold a part of the truth, and neither
  is up to date in the other's steps. `ClaimInv` and `ChannelInv` say how far they may be
  apart: the store is one generation ahead at most, only while the claimed batch was sent
  and exactly one re-arm is in hand or in the channel, and that re-arm closes the batch
  the main loop covers. `AcceptInv` and `LinksInv` add that an attach is prepared against
  the live arm and that a link is of one of these two generations; `DeliveryInv`, that
  every frame of the open batch is the pending one; `PrintedInv`, that an answer follows
  its print.
* `RecordsStable` is the action property `RecordStable`, from the same invariant.
* `DaemonCovers`: `Spec => CoverageSpec`. A delivery that is noted offers a batch, a cursor
  that is accepted handles it, and every other step stutters, also the failed write and
  the redelivery.

`CodexTransportProofs`, for any number of ids and notifications and any limits and
faults (`TransportAssumption`):

* `TransportTyped`, `OneRequestOut`, `NotesComeInOrder`, `AnswersHold`. An answer is worth
  what it is an answer to. `FlightInv` says that ids are fresh and that what the server
  holds unanswered is the pending request, or one behind which nothing is written any
  more; `LinesInv`, that a line in the pipe which names the pending request was sent for
  it. One controller has one probe, one lane and one turn: as long as it is `Fresh` no turn
  left and none is on record, and once one is on record it is the only one (`WriteInv`).
  With these, an error proves a refusal and a response an acceptance (`RecordInv`), also in
  a reconciliation that reads the answer of a write it did not make. `QueueInv` and
  `PipeInv` order the notifications by the number with which they were sent.
* `DispatchHolds` and `LanesAreQuiet`, both under `~SlowPipe`: `SilenceInv` follows the
  silence from the idle answer over the grant of the lane to the write. The hypothesis is
  exactly what `blocked_refusal` needs to break `LaneQuiet`: a refusal that misses its write
  deadline reads as silence. `DispatchIsApart` is what remains of `DispatchSafe` without it.

`HostProofs`, for the other parts of a host and for the host itself:

* `DoorbellIsProven` with its halves `RearmIsProven` and `ActionIsProven`, and `TraceTyped`,
  for traces of any length and any sequence numbers offered. The invariant `Grounded` says
  of every receipt that its source observes its phase, that its direct prerequisites stand
  before it and that its phase does not; an append keeps it because it changes nothing
  before any receipt. `Closed` turns direct prerequisites into indirect ones, one phase at
  a time, and no induction is needed as the phases are twelve.
* `ListenerIsKept`, `HomeIsPrivate`, `HomeIsSafe`, for any sets of processes and threads and
  any number of deaths. `ListenerKept` alone is not inductive, since a bind overwrites
  whatever has the path. `PathsInv` adds that the lock is held from its acquisition to its
  drop, also while the socket and the claim are being dropped (`LockHeld`), and that a
  bind has passed only private directories (`PassedPrivate`); a directory is only created
  where there is none and only ever made private.
* `GroupIsContained`, `ServerIsQualified` and `ProcessTyped`, for any number of images and
  failures. `ProcessInv` has four parts: the group id cannot have been given away wherever a
  signal may follow without a fresh look (`GroupKept`), where no child runs (`Childless`), what
  a refusal leaves of the anchor (`Anchored`), and where another image than the one first
  looked at may be and through which gaps it got there (`Bracketed`). `QualifiedServer` alone is
  not inductive: between a spawn and the next look it must be known of the path and of the
  child apart which gap each came through.
* `WatchIsTruthful`, for any number of posts, intervals and failures. `WatchInv` follows one
  interval: what the runner said, what was drained behind the cursor, and what is on the
  receipt. `Settled` says that what an interval drained is the page behind its cursor and that
  a match was drained or its drain failed; pages meet because each starts where the last
  ended, and the log of a receipt says exactly what its interval did (`LifecycleFacts`), which
  is what makes receipt and next step agree on the end of coverage (`CoverageTold`).

* `QueueIsAccounted` and `PassedIsWhole`, for any number of stimuli and arrivals, any
  capacity and any generated chain. What arrives in one tick is numbered by tick and place
  (`RanksNumber`), and the queue is that numbering (`StreamInv`), so nothing is lost and
  nothing overtakes. A chain without an error is at one stimulus, with all before it
  executed (`ChainInv`); a stimulus that ended in an error is nowhere any more and its
  children wait for ever, so the first theorem speaks of a chain up to its first error, and
  the second says that such a run, like one its limit of events cut short, never passes.
* `RetriesChangeNothing`: `LateRetriesChangeNothing` of every script that got its answers. It
  rests on no particular script: what a call put on record is `Shown` by the store, a row
  that is shown is `Kept` by every later call, and a retry of what is shown gets an answer
  and changes no row. The scripts of the catalogue are only needed to be well formed.
* `HostIsTyped`, `HostKeepsItsPromises` and `HostDispatchHolds`: the host of the run
  `host_parts` implements the specification of each of its parts, since a step of it is a
  step of one and a stutter of the others (`PartsKeepToThemselves`). So the theorems about
  the parts, those of `CodexTransportProofs` among them, hold inside it.

Model-checked only: of `SimulatorSound`, that the store answers as the oracle does and that a
finding of the oracle fails the run, and of `ConformanceMet`, that the scripts get the answers
written beside them. Both compare concrete calls of a finite catalogue, which the run covers
in full; a proof would be the same evaluation again. And all liveness, which needs ENABLED
and is out of the proof system's reach.

## 7. Where code and documents differ

* `restart_reconstruction`: `prepare` admits a second dispatch while the first is
  followed up; recovery refuses two follow-ups, so such a host does not restart.
* `degraded_response`: an exact response that is a degraded fact, interrupted before
  the fact is recorded, recovers with no follow-up at all.
* `successor_waits`: after the newest event is acknowledged the history is empty, which
  the production drain reports as an error and `restart_after_ack` as exit 2; comments
  and a test say that one successor wait is spawned.
* `blocked_refusal`: the drain of a probe takes any deadline for silence, also that of the
  write with which it refused a request it had just read; the lane is granted although a
  line followed the idle answer, which a test is named to exclude. The last drain before
  the write reads again, so `DispatchSafe` does not rest on the lane alone.
* A fifth has no run of its own; it is the exception in `CoverageTold`, and without the
  exception `host_parts` fails in a trace of six states. The receipt of a quiet interval records that
  coverage ended with the deadman (`wait_on.rs:285-289`), and a watcher that follows then
  arms the next wait (`wait_on.rs:714`). The domain documents the fact as coverage that ended
  "without a successor wait in this lifecycle" (`interrupt.rs:126`) and the reason as an
  interval after which "no successor was established" (`interrupt.rs:186`). Either the loop
  should record the fact only when it stops, or the words should except a watcher that follows.

Two observations that contradict no document. Reconciling one attempt recovers the
shared store and makes another attempt's open reservation ambiguous, beside which its
epoch invalidation may then be recorded (`authority.rs:645`). The
executable is looked at and spawned by path in two steps, before the probe
(`codex_transport.rs:1418`) as before the server (`codex_transport.rs:1563` and `1567`), so a
replacement in between is started, and one before the probe that is put back in time is not
noticed at all; the test `preflight_rejects_replacement_during_the_version_probe` is of
a replacement that stays.

## 8. Not modelled, and why

Of the native path: private coordinate contents, digests, verifiers and identity checks
(functions of the attempt in the model); probe nonces and epochs beyond "current or moved".

Of the Codex transport: the field formats of requests and answers, which are parsed or
not; lengths of lines and frames, which are within bounds or not; helper paths. Of the
process group: the kinds of refusal, which are one; the text of the version.

Of the waiter daemon: the 1024-entry request histories (`ack.rs:247`), which refuse and
never evict, so a long-lived daemon refuses every new id after that many;
texts of events and receipts; requests for another arm, seat or route, which are only
answered; the frames and timeouts of a connection beyond "answered or not".

Of the helper authority: other arms; the executable identity (fixed for an attempt);
payload bytes and their aggregate limit. Of the SQLite baseline: the text codec, the
creates kept beside the snapshot, and the native sections, which it refuses.

Of the evidence logs: the identities in a receipt (a trace is of one attempt) and the
typed details of a fact. Of the commands: `check`, `who` and `sanitize`, which read or
present; the file of the last receipt (`check.rs`) is truncated and written without a
lock, and nothing but the operator reads it. Of the paths: where the root comes from.

Of the simulator: the campaign, artifacts, fingerprints and the choice of seeds, the
jitter of due ticks (one tick in the model, which keeps the order of a chain) and
`max_virtual_tick` beyond the stream that waits for a parent that failed. Of the
conformance suite: the cases of the native sections, of verifier redaction, of body leaks
and of a retrieval named by another id.

The wire protocol and the operator console encode and render; they keep no state.

## 9. What remains

Proofs: that the store which `SimulatorStream` drives stays `Good` over a stream of any
length, by the lemmas of `HelperStoreProofs`; that the answers of `CodexTransport` are those
which `NativeDispatch` assumes of its port, as a refinement between the two, of which
`AnswersHold` is the content.

Models: the native cases of the conformance suite, once `AuthorityStore` is written, like
`HelperStore`, as operators over one record.
